--------------------------- MODULE HecClientProofs ---------------------------
(* Proofs about HecClient, for every configuration and any number of       *)
(* messages and callers.                                                   *)
EXTENDS HecClient, WellFoundedInduction, TLAPS
------------------------------------------------------------------------------
(***************************************************************************)
(* Type correctness.  That a free flight number is left when the queue is  *)
(* flushed needs FlightsBounded: every flight took at least one message.   *)
(***************************************************************************)
FlightsBounded == flushes + Len(queue) <= pushed

TypeInv == TypeOK /\ FlightsBounded

\* The part of TypeOK that a flush disturbs.
FlightsTyped ==
  /\ batch \in [Handle -> Seq(Msg)]
  /\ phase \in [Handle -> InFlight \cup Settled \cup {"unused"}]
  /\ attempt \in [Handle -> 0..AttemptCap]
  /\ aborted \in [Handle -> BOOLEAN]
  /\ flushes \in 0..MaxPushes
  /\ activeFlushing \in SUBSET Handle

QueueTyped ==
  /\ queue \in Seq(Msg)
  /\ queueSizeBytes \in Nat
  /\ flushTimer \in BOOLEAN

\* A launch is well typed when the flights launched so far leave room for it.
LEMMA LaunchType ==
  ASSUME TypeOK, NEW msgs \in Seq(Msg), flushes < MaxPushes, Launch(msgs)
  PROVE  FlightsTyped' /\ flushes' = flushes + 1
  BY ConfigAssumption, AttemptAssumption
     DEF TypeOK, Launch, FlightsTyped, Handle, InFlight, Posted, Settled

\* Queue and batches are finite sequences, so their lengths are natural numbers.
LEMMA LengthsAreNat ==
  ASSUME TypeOK
  PROVE  /\ pushed \in Nat /\ pushed <= MaxPushes
         /\ queue \in Seq(Msg) /\ Len(queue) \in Nat
         /\ queue # <<>> => Len(queue) > 0
  BY DEF TypeOK, pushed

\* flushInternal() keeps the types, with whatever is queued after it.
LEMMA FlushInternalType ==
  ASSUME TypeInv, FlushInternal, UNCHANGED length
  PROVE  FlightsTyped' /\ QueueTyped' /\ FlightsBounded'
<1>0. pushed' = pushed
  BY DEF pushed
<1>1. queue' = <<>> /\ queueSizeBytes' = 0 /\ flushTimer' = FALSE
  BY DEF FlushInternal, ResetQueue
<1>. flushTimer' \in BOOLEAN
  BY <1>1, Zenon
<1>2. QueueTyped' /\ Len(queue') = 0
  BY <1>1 DEF QueueTyped
<1>3. /\ pushed \in Nat /\ pushed <= MaxPushes /\ Len(queue) \in Nat
      /\ queue # <<>> => Len(queue) > 0
      /\ flushes \in Nat /\ flushes + Len(queue) <= pushed
  BY LengthsAreNat DEF TypeInv, FlightsBounded, TypeOK
<1>4. CASE queue = <<>>
  <2>1. UNCHANGED flightVars
    BY <1>4 DEF FlushInternal
  <2> QED
    BY <1>0, <1>2, <1>3, <2>1
       DEF FlightsTyped, FlightsBounded, flightVars, TypeInv, TypeOK
<1>5. CASE queue # <<>>
  <2>1. Launch(queue)
    BY <1>5 DEF FlushInternal
  <2>2. flushes < MaxPushes
    BY <1>3, <1>5, ConfigAssumption
  <2>3. TypeOK /\ queue \in Seq(Msg)
    BY DEF TypeInv, TypeOK
  <2>4. FlightsTyped' /\ flushes' = flushes + 1
    BY <2>1, <2>2, <2>3, LaunchType
  <2> QED
    BY <1>0, <1>2, <1>3, <1>5, <2>4 DEF FlightsBounded
<1> QED
  BY <1>4, <1>5

\* Every step keeps the types.
LEMMA TypeStep == TypeInv /\ [Next]_vars => TypeInv'
<1> SUFFICES ASSUME TypeInv, [Next]_vars PROVE TypeInv'
  OBVIOUS
<1> USE ConfigAssumption, AttemptAssumption
<1>0. /\ pushed \in Nat /\ pushed <= MaxPushes
      /\ queue \in Seq(Msg) /\ Len(queue) \in Nat
      /\ queue # <<>> => Len(queue) > 0
      /\ flushes \in Nat /\ flushes + Len(queue) <= pushed
      /\ length \in Seq(Lengths)
      /\ TypeOK
  BY LengthsAreNat DEF TypeInv, TypeOK, FlightsBounded
<1>1. ASSUME NEW n \in Lengths, PushFits(n) PROVE TypeInv'
  <2> DEFINE appended == Append(queue, pushed + 1)
  <2>1. length' \in Seq(Lengths) /\ pushed' = pushed + 1 /\ pushed < MaxPushes
    BY <1>0, <1>1 DEF PushFits, pushed
  <2>2. appended \in Seq(Msg) /\ Len(appended) = Len(queue) + 1
    BY <1>0, <2>1 DEF Msg
  <2>3. UNCHANGED <<active, received, lingering, call, waits, mark>>
    BY <1>1 DEF PushFits, callVars, hecVars
  <2>4. FlightsTyped' /\ QueueTyped' /\ flushes' + Len(queue') <= pushed'
    <3>1. CASE EntriesExceeded(Len(appended))
      <4>1. Launch(appended) /\ queue' = <<>> /\ queueSizeBytes' = 0 /\ flushTimer' = FALSE
        BY <1>1, <3>1 DEF PushFits, ResetQueue
      <4>2. FlightsTyped' /\ flushes' = flushes + 1
        <5> HIDE DEF appended
        <5> QED BY <1>0, <2>1, <2>2, <4>1, LaunchType
      <4>3. flushTimer' \in BOOLEAN
        BY <4>1, Zenon
      <4> QED
        BY <1>0, <2>1, <4>1, <4>2, <4>3 DEF QueueTyped
    <3>2. CASE ~EntriesExceeded(Len(appended))
      <4>1. /\ queue' = appended /\ queueSizeBytes' = queueSizeBytes + n
            /\ flushTimer' = TRUE /\ UNCHANGED flightVars
        BY <1>1, <3>2 DEF PushFits
      <4> QED
        BY <1>0, <2>1, <2>2, <4>1 DEF QueueTyped, FlightsTyped, flightVars, TypeOK
    <3> QED
      BY <3>1, <3>2
  <2> QED
    BY <1>0, <2>1, <2>3, <2>4, SMTT(30) DEF TypeInv, FlightsBounded, FlightsTyped, QueueTyped, TypeOK
<1>2. ASSUME NEW n \in Lengths, PushOverflows(n) PROVE TypeInv'
  <2>1. length' \in Seq(Lengths) /\ pushed' = pushed + 1 /\ pushed < MaxPushes
    BY <1>0, <1>2 DEF PushOverflows, pushed
  <2>2. FlightsTyped' /\ flushes' = flushes + 1
    BY <1>0, <1>2, <2>1, LaunchType DEF PushOverflows
  <2>3. QueueTyped' /\ Len(queue') = 1
    BY <1>0, <1>2, <2>1 DEF PushOverflows, Msg, QueueTyped
  <2>4. UNCHANGED <<active, received, lingering, call, waits, mark>>
    BY <1>2 DEF PushOverflows, callVars, hecVars
  <2>5. queue # <<>>
    BY <1>2 DEF PushOverflows
  <2> QED
    BY <1>0, <2>1, <2>2, <2>3, <2>4, <2>5
       DEF TypeInv, FlightsBounded, FlightsTyped, QueueTyped, TypeOK
<1>3. CASE TimerFires
  <2>1. FlushInternal /\ UNCHANGED <<active, length, received, lingering, call, waits, mark>>
    BY <1>3 DEF TimerFires, callVars, hecVars
  <2>2. FlightsTyped' /\ QueueTyped' /\ FlightsBounded' /\ pushed' = pushed
    BY <2>1, FlushInternalType DEF pushed
  <2> QED
    BY <1>0, <2>1, <2>2 DEF TypeInv, FlightsTyped, QueueTyped, TypeOK
<1>4. ASSUME NEW b \in Handle, FlightStep(b) PROVE TypeInv'
  <2>1. /\ UNCHANGED <<queueVars, callVars, batch, aborted, flushes>>
        /\ pushed' = pushed
    BY <1>4
       DEF FlightStep, CompressDone, CompressFails, HecAccepts, LateArrival,
       Arrives, ResponseOk,
           RequestFails, HandleFailure, WakeUp, RemoveFromActive, StaysInFlight,
           queueVars, flightVars, pushed
  <2>2. phase' \in [Handle -> InFlight \cup Settled \cup {"unused"}]
    BY <1>4
       DEF FlightStep, CompressDone, CompressFails, HecAccepts, LateArrival,
       Arrives, ResponseOk,
           RequestFails, HandleFailure, WakeUp, RemoveFromActive, BeginAttempt,
           Goto, flightVars, TypeInv, TypeOK, InFlight, Posted, Settled
  <2>3. attempt' \in [Handle -> 0..AttemptCap]
    <3>1. BeginAttempt(b) \/ UNCHANGED attempt
      BY <1>4
         DEF FlightStep, CompressDone, CompressFails, HecAccepts, LateArrival,
         Arrives, ResponseOk,
             RequestFails, HandleFailure, WakeUp, RemoveFromActive, flightVars
    <3> DEFINE next == IF attempt[b] < AttemptCap THEN attempt[b] + 1 ELSE AttemptCap
    <3>2. attempt \in [Handle -> 0..AttemptCap] /\ next \in 0..AttemptCap
      BY <1>0 DEF TypeOK
    <3>3. attempt' = [attempt EXCEPT ![b] = next] \/ attempt' = attempt
      BY <3>1 DEF BeginAttempt
    <3> HIDE DEF next
    <3> QED
      BY <3>2, <3>3
  <2>4. activeFlushing' \in SUBSET Handle /\ received' \in SUBSET Handle
        /\ lingering' \in SUBSET Handle
    BY <1>4
       DEF FlightStep, CompressDone, CompressFails, HecAccepts, LateArrival,
       Arrives, ResponseOk,
           RequestFails, HandleFailure, WakeUp, RemoveFromActive, StaysInFlight,
           GiveUp, flightVars, hecVars, TypeInv, TypeOK
  <2> QED
    BY <2>1, <2>2, <2>3, <2>4
       DEF TypeInv, TypeOK, FlightsBounded, queueVars, callVars
<1>5. ASSUME NEW c \in Calls, CallStep(c) PROVE TypeInv'
  <2>1. ASSUME AwaitFlush(c), UNCHANGED <<length, hecVars>>,
               active' \in BOOLEAN, call' \in [Calls -> CallState]
        PROVE  TypeInv'
    <3>1. flushes + 1 \in Handle \/ queue = <<>>
      BY <1>0 DEF Handle
    <3>2. waits' \in [Calls -> SUBSET Handle] /\ mark' \in [Calls -> 0..MaxPushes]
      BY <1>0, <2>1, <3>1 DEF AwaitFlush, Launched, TypeOK
    <3>3. FlightsTyped' /\ QueueTyped' /\ FlightsBounded' /\ pushed' = pushed
      BY <2>1, FlushInternalType DEF pushed, AwaitFlush
    <3> QED
      BY <1>0, <2>1, <3>2, <3>3 DEF TypeInv, FlightsTyped, QueueTyped, TypeOK, hecVars
  <2>2. CASE CallFlush(c)
    BY <2>1, <2>2 DEF CallFlush, Answer, CallState, TypeInv, TypeOK
  <2>3. CASE CallTimedShutdown(c)
    BY <2>1, <2>3 DEF CallTimedShutdown, Answer, CallState, TypeInv, TypeOK
  <2>4. CASE CallShutdown(c)
    BY <1>0, <2>4
       DEF CallShutdown, Cancel, GiveUp, Answer, CallState, TypeInv, TypeOK, pushed,
           FlightsBounded, InFlight, Posted
  <2>5. CASE FlushSettles(c) \/ DrainFails(c)
    BY <1>0, <2>5
       DEF FlushSettles, DrainFails, Answer, CallState, TypeInv, TypeOK, pushed,
           FlightsBounded, queueVars, flightVars, hecVars
  <2>6. CASE DrainEnds(c)
    BY <1>0, <2>6
       DEF DrainEnds, Cancel, GiveUp, Answer, CallState, TypeInv, TypeOK, pushed,
           FlightsBounded, InFlight, Posted, queueVars
  <2> QED
    BY <1>5, <2>2, <2>3, <2>4, <2>5, <2>6 DEF CallStep
<1>6. CASE UNCHANGED vars
  BY <1>6 DEF vars, queueVars, flightVars, hecVars, callVars, TypeInv, TypeOK,
              FlightsBounded, pushed
<1> QED
  BY <1>1, <1>2, <1>3, <1>4, <1>5, <1>6 DEF Next, Push

\* The types hold always.
LEMMA TypeInvariance == Spec => []TypeInv
<1>1. Init => TypeInv
  <2> SUFFICES ASSUME Init PROVE TypeInv
    OBVIOUS
  <2>1. /\ length \in Seq(Lengths) /\ pushed = 0
        /\ queue \in Seq(Msg) /\ Len(queue) = 0
    BY DEF Init, pushed
  <2>2. /\ batch \in [Handle -> Seq(Msg)]
        /\ phase \in [Handle -> InFlight \cup Settled \cup {"unused"}]
        /\ attempt \in [Handle -> 0..AttemptCap]
        /\ aborted \in [Handle -> BOOLEAN]
    BY AttemptAssumption DEF Init
  <2>3. /\ call \in [Calls -> CallState]
        /\ waits \in [Calls -> SUBSET Handle]
        /\ mark \in [Calls -> 0..MaxPushes]
    BY ConfigAssumption DEF Init, CallState
  <2>4. active \in BOOLEAN /\ flushTimer \in BOOLEAN
    BY Zenon DEF Init
  <2> QED
    BY <2>1, <2>2, <2>3, <2>4, ConfigAssumption DEF Init, TypeInv, TypeOK, FlightsBounded
<1> QED
  BY <1>1, TypeStep, PTL DEF Spec

\* Every variable keeps its type, whatever the configuration.
THEOREM TypeCorrect == Spec => []TypeOK
  BY TypeInvariance, PTL DEF TypeInv
------------------------------------------------------------------------------
(***************************************************************************)
(* No message is lost, doubled or overtaken between push and batch.  The   *)
(* invariant needs that batches hold older messages than the queue.        *)
(***************************************************************************)
flushedCount == pushed - Len(queue)

BatchesPrecedeQueue ==
  \A b \in 1..flushes : \A i \in 1..Len(batch[b]) : batch[b][i] \in 1..flushedCount

QueueInv ==
  /\ TimerArmed
  /\ QueueHoldsTail
  /\ FlushedAreInFlights
  /\ BatchesInOrder
  /\ BatchesPrecedeQueue

\* msgs are the oldest messages not yet in a batch.
ContinuesFlights(msgs) == \A i \in 1..Len(msgs) : msgs[i] = flushedCount + i

\* A step that launches the oldest messages not yet in a batch.
LEMMA LaunchKeepsOrder ==
  ASSUME TypeInv, QueueInv, flushes < MaxPushes,
         NEW msgs \in Seq(Msg), Launch(msgs),
         ContinuesFlights(msgs), flushedCount' = flushedCount + Len(msgs)
  PROVE  FlushedAreInFlights' /\ BatchesInOrder' /\ BatchesPrecedeQueue'
<1>1. /\ flushedCount \in Nat /\ flushes \in Nat /\ Len(msgs) \in Nat
      /\ batch \in [Handle -> Seq(Msg)]
      /\ \A i \in 1..Len(msgs) : msgs[i] = flushedCount + i
  BY LengthsAreNat DEF TypeInv, TypeOK, FlightsBounded, flushedCount, ContinuesFlights
<1>2. /\ flushes' = flushes + 1
      /\ batch'[flushes + 1] = msgs
      /\ \A b \in 1..flushes : batch'[b] = batch[b]
  BY <1>1, ConfigAssumption DEF Launch, Handle
<1>3. \A b \in 1..flushes' : b \in 1..flushes \/ b = flushes + 1
  BY <1>1, <1>2
<1>4. \A b \in 1..flushes : /\ b \in Nat /\ b < flushes + 1 /\ b \in 1..flushes'
                            /\ Len(batch[b]) \in Nat
  BY <1>1, <1>2, ConfigAssumption DEF TypeInv, TypeOK, Handle
<1>5. flushes + 1 \in 1..flushes'
  BY <1>1, <1>2
<1>6. BatchesPrecedeQueue'
  <2> SUFFICES ASSUME NEW b \in 1..flushes', NEW i \in 1..Len(batch'[b])
               PROVE  batch'[b][i] \in 1..flushedCount'
    BY DEF BatchesPrecedeQueue
  <2>1. CASE b = flushes + 1
    BY <1>1, <1>2, <2>1
  <2>2. CASE b \in 1..flushes
    <3>1. batch[b][i] \in 1..flushedCount
      BY <1>2, <2>2 DEF QueueInv, BatchesPrecedeQueue
    <3> QED
      BY <1>1, <1>2, <2>2, <3>1, SMTT(20)
  <2> QED
    BY <1>3, <2>1, <2>2
<1>7. FlushedAreInFlights'
  <2> SUFFICES ASSUME NEW m \in 1..flushedCount'
               PROVE  \E b \in 1..flushes' : Carries(b, m)'
    BY DEF FlushedAreInFlights, flushedCount
  <2>1. CASE m \in 1..flushedCount
    <3>1. PICK b \in 1..flushes : Carries(b, m)
      BY <2>1 DEF QueueInv, FlushedAreInFlights, flushedCount
    <3>2. Carries(b, m)' /\ b \in 1..flushes'
      BY <1>2, <1>4, <3>1 DEF Carries
    <3> QED
      BY <3>2
  <2>2. CASE m \notin 1..flushedCount
    <3>1. m - flushedCount \in 1..Len(msgs) /\ msgs[m - flushedCount] = m
      BY <1>1, <2>2
    <3>2. Carries(flushes, m)' /\ flushes' \in 1..flushes'
      BY <1>2, <1>5, <3>1 DEF Carries
    <3> QED
      BY <3>2
  <2> QED
    BY <2>1, <2>2
<1>8. BatchesInOrder'
  <2> SUFFICES ASSUME NEW b \in 1..flushes', NEW c \in b..flushes',
                      NEW i \in 1..Len(batch'[b]), NEW j \in 1..Len(batch'[c]),
                      b < c \/ i < j
               PROVE  batch'[b][i] < batch'[c][j]
    BY DEF BatchesInOrder
  <2>0. c \in 1..flushes' /\ (b < c \/ (b = c /\ i < j))
    BY <1>1, <1>2
  <2>1. CASE b \in 1..flushes /\ c \in 1..flushes
    <3>1. c \in b..flushes /\ batch'[b] = batch[b] /\ batch'[c] = batch[c]
      BY <1>1, <1>2, <2>0, <2>1
    <3>2. i \in 1..Len(batch[b]) /\ j \in 1..Len(batch[c])
      BY <3>1
    <3>3. batch[b][i] < batch[c][j]
      BY <2>0, <2>1, <3>1, <3>2 DEF QueueInv, BatchesInOrder
    <3> QED
      BY <3>1, <3>3
  <2>2. CASE b \in 1..flushes /\ c = flushes + 1
    <3>1. batch'[b][i] \in 1..flushedCount
      <4>1. BatchesPrecedeQueue
        BY DEF QueueInv
      <4>2. batch'[b] = batch[b]
        BY <1>2, <2>2
      <4>3. i \in 1..Len(batch[b])
        BY <4>2
      <4>4. batch[b][i] \in 1..flushedCount
        BY <2>2, <4>1, <4>3 DEF BatchesPrecedeQueue
      <4> QED
        BY <4>2, <4>4
    <3>2. batch'[c][j] = flushedCount + j /\ j \in Nat /\ j > 0
      BY <1>1, <1>2, <2>2
    <3>3. flushedCount \in Nat
      BY <1>1
    <3> QED
      BY ONLY <3>1, <3>2, <3>3
  <2>3. CASE b = flushes + 1
    <3>1. c = b /\ i < j
      BY <1>1, <1>3, <1>4, <2>0, <2>3
    <3> QED
      BY <1>1, <1>2, <2>3, <3>1
  <2> QED
    BY <1>3, <2>0, <2>1, <2>2, <2>3
<1> QED
  BY <1>6, <1>7, <1>8

\* What does not launch keeps the order of the batches.
LEMMA OrderKept ==
  ASSUME BatchesInOrder, UNCHANGED <<batch, flushes>>
  PROVE  BatchesInOrder'
  BY DEF BatchesInOrder

\* flushInternal(), whoever calls it.
LEMMA FlushKeepsOrder ==
  ASSUME TypeInv, QueueInv, FlushInternal, UNCHANGED length
  PROVE  QueueInv'
<1>1. /\ flushedCount \in Nat /\ pushed \in Nat /\ pushed' = pushed
      /\ pushed <= MaxPushes
      /\ queue \in Seq(Msg) /\ Len(queue) \in Nat /\ (queue # <<>> => Len(queue) > 0)
      /\ flushes \in Nat /\ flushes + Len(queue) <= pushed
  BY LengthsAreNat DEF TypeInv, TypeOK, FlightsBounded, flushedCount, pushed
<1>2. queue' = <<>> /\ flushTimer' = FALSE /\ Len(queue') = 0
  BY DEF FlushInternal, ResetQueue
<1>3. TimerArmed' /\ QueueHoldsTail'
  BY <1>2 DEF TimerArmed, QueueHoldsTail
<1>4. CASE queue = <<>>
  BY <1>1, <1>2, <1>3, <1>4
     DEF FlushInternal, flightVars, QueueInv, FlushedAreInFlights, Carries,
         BatchesInOrder, BatchesPrecedeQueue, flushedCount
<1>5. CASE queue # <<>>
  <2>1. Launch(queue) /\ flushes < MaxPushes
    BY <1>1, <1>5, ConfigAssumption DEF FlushInternal
  <2>2. ContinuesFlights(queue)
    BY DEF QueueInv, QueueHoldsTail, flushedCount, ContinuesFlights
  <2>3. flushedCount' = flushedCount + Len(queue)
    BY <1>1, <1>2 DEF flushedCount
  <2>4. FlushedAreInFlights' /\ BatchesInOrder' /\ BatchesPrecedeQueue'
    BY <1>1, <2>1, <2>2, <2>3, LaunchKeepsOrder
  <2> QED
    BY <1>3, <2>4 DEF QueueInv
<1> QED
  BY <1>4, <1>5

\* Every step keeps the accepted messages apart and in order, and the timer right.
LEMMA QueueStep == TypeInv /\ QueueInv /\ [Next]_vars => QueueInv'
<1> SUFFICES ASSUME TypeInv, QueueInv, [Next]_vars PROVE QueueInv'
  OBVIOUS
<1>0. /\ flushedCount \in Nat /\ pushed \in Nat /\ pushed <= MaxPushes
      /\ queue \in Seq(Msg) /\ Len(queue) \in Nat /\ (queue # <<>> => Len(queue) > 0)
      /\ flushes \in Nat /\ flushes + Len(queue) <= pushed
      /\ length \in Seq(Lengths)
  BY LengthsAreNat DEF TypeInv, TypeOK, FlightsBounded, flushedCount
<1>1. ASSUME NEW n \in Lengths, PushFits(n) PROVE QueueInv'
  <2> DEFINE appended == Append(queue, pushed + 1)
  <2>1. pushed' = pushed + 1 /\ pushed < MaxPushes
    BY <1>0, <1>1 DEF PushFits, pushed
  <2>2. /\ appended \in Seq(Msg) /\ Len(appended) = Len(queue) + 1
        /\ appended # <<>>
        /\ ContinuesFlights(appended)
        /\ \A i \in 1..Len(appended) : appended[i] = flushedCount + i
    <3>1. pushed + 1 \in Msg
      BY <1>0, <2>1, ConfigAssumption DEF Msg
    <3>2. /\ appended \in Seq(Msg) /\ Len(appended) = Len(queue) + 1
          /\ \A i \in 1..Len(queue) : appended[i] = queue[i]
          /\ appended[Len(queue) + 1] = pushed + 1
      BY <1>0, <3>1
    <3>3. \A i \in 1..Len(queue) : queue[i] = flushedCount + i
      BY DEF QueueInv, QueueHoldsTail, flushedCount
    <3>4. flushedCount + (Len(queue) + 1) = pushed + 1
      BY <1>0 DEF flushedCount
    <3>5. ASSUME NEW i \in 1..Len(appended) PROVE appended[i] = flushedCount + i
      <4>1. CASE i \in 1..Len(queue)
        BY <3>2, <3>3, <4>1
      <4>2. CASE i = Len(queue) + 1
        BY <3>2, <3>4, <4>2
      <4> HIDE DEF appended
      <4> QED
        BY <1>0, <3>2, <4>1, <4>2
    <3>6. appended # <<>>
      <4> HIDE DEF appended
      <4> QED BY <1>0, <3>2
    <3> QED
      BY <3>2, <3>5, <3>6 DEF ContinuesFlights
  <2>3. CASE EntriesExceeded(Len(appended))
    <3>1. Launch(appended) /\ queue' = <<>> /\ flushTimer' = FALSE /\ Len(queue') = 0
      BY <1>1, <2>3 DEF PushFits, ResetQueue
    <3>2. flushedCount' = flushedCount + Len(appended)
      BY <1>0, <2>1, <2>2, <3>1 DEF flushedCount
    <3>3. flushes < MaxPushes
      BY <1>0, <2>1, ConfigAssumption
    <3>4. FlushedAreInFlights' /\ BatchesInOrder' /\ BatchesPrecedeQueue'
      <4> HIDE DEF appended
      <4> QED BY <2>2, <3>1, <3>2, <3>3, LaunchKeepsOrder
    <3> QED
      BY <3>1, <3>4 DEF QueueInv, TimerArmed, QueueHoldsTail
  <2>4. CASE ~EntriesExceeded(Len(appended))
    <3>1. queue' = appended /\ flushTimer' = TRUE /\ UNCHANGED <<batch, flushes>>
      BY <1>1, <2>4 DEF PushFits, flightVars
    <3>2. flushedCount' = flushedCount
      BY <1>0, <2>1, <2>2, <3>1 DEF flushedCount
    <3>3. TimerArmed' /\ QueueHoldsTail'
      BY <2>2, <3>1, <3>2 DEF TimerArmed, QueueHoldsTail, flushedCount
    <3>4. UNCHANGED <<batch, flushes, flushedCount>>
      BY <3>1, <3>2
    <3>5. FlushedAreInFlights'
      BY <3>4 DEF QueueInv, FlushedAreInFlights, Carries, flushedCount
    <3> HIDE DEF appended
    <3>6. BatchesInOrder'
      BY <3>4, OrderKept DEF QueueInv
    <3>7. BatchesPrecedeQueue'
      BY <3>4 DEF QueueInv, BatchesPrecedeQueue
    <3> QED
      BY <3>3, <3>5, <3>6, <3>7 DEF QueueInv
  <2> QED
    BY <2>3, <2>4
<1>2. ASSUME NEW n \in Lengths, PushOverflows(n) PROVE QueueInv'
  <2>1. pushed' = pushed + 1 /\ pushed < MaxPushes
    BY <1>0, <1>2 DEF PushOverflows, pushed
  <2>2. /\ queue # <<>> /\ Launch(queue) /\ queue' = <<pushed + 1>>
        /\ flushTimer' = TRUE /\ Len(queue') = 1
    BY <1>2 DEF PushOverflows
  <2>3. /\ flushedCount' = flushedCount + Len(queue)
        /\ ContinuesFlights(queue)
    BY <1>0, <2>1, <2>2 DEF flushedCount, QueueInv, QueueHoldsTail, ContinuesFlights
  <2>4. FlushedAreInFlights' /\ BatchesInOrder' /\ BatchesPrecedeQueue'
    <3>1. flushes < MaxPushes
      BY <1>0, <2>1, ConfigAssumption
    <3> QED
      BY <1>0, <2>2, <2>3, <3>1, LaunchKeepsOrder
  <2>5. TimerArmed' /\ QueueHoldsTail'
    BY <1>0, <2>1, <2>2 DEF TimerArmed, QueueHoldsTail
  <2> QED
    BY <2>4, <2>5 DEF QueueInv
<1>3. CASE TimerFires
  BY <1>3, FlushKeepsOrder DEF TimerFires
<1>4. ASSUME UNCHANGED <<queue, flushTimer, length, batch, flushes>> PROVE QueueInv'
  <2>1. pushed' = pushed /\ flushedCount' = flushedCount
    BY <1>4 DEF pushed, flushedCount
  <2>2. TimerArmed' /\ QueueHoldsTail'
    BY <1>4, <2>1 DEF QueueInv, TimerArmed, QueueHoldsTail
  <2>3. FlushedAreInFlights' /\ BatchesPrecedeQueue'
    BY <1>4, <2>1 DEF QueueInv, FlushedAreInFlights, BatchesPrecedeQueue, Carries
  <2> QED
    BY <1>4, <2>2, <2>3, OrderKept DEF QueueInv
<1>5. ASSUME NEW b \in Handle, FlightStep(b) PROVE QueueInv'
  BY <1>4, <1>5
     DEF FlightStep, CompressDone, CompressFails, HecAccepts, LateArrival,
     Arrives, ResponseOk,
         RequestFails, HandleFailure, WakeUp, RemoveFromActive, StaysInFlight,
         queueVars, flightVars
<1>6. ASSUME NEW c \in Calls, CallStep(c) PROVE QueueInv'
  <2>1. CASE CallFlush(c) \/ CallTimedShutdown(c)
    BY <2>1, FlushKeepsOrder DEF CallFlush, CallTimedShutdown, AwaitFlush
  <2>2. CASE FlushSettles(c) \/ DrainFails(c) \/ DrainEnds(c)
    BY <1>4, <2>2 DEF FlushSettles, DrainFails, DrainEnds, Cancel, queueVars, flightVars
  <2>3. CASE CallShutdown(c)
    BY <1>4, <2>3 DEF CallShutdown, Cancel
  <2> QED
    BY <1>6, <2>1, <2>2, <2>3 DEF CallStep
<1>7. CASE UNCHANGED vars
  BY <1>4, <1>7 DEF vars, queueVars, flightVars
<1> QED
  BY <1>1, <1>2, <1>3, <1>5, <1>6, <1>7 DEF Next, Push

\* The part of the invariant about the queue holds always.
LEMMA QueueInvariance == Spec => [](TypeInv /\ QueueInv)
<1>1. Init => QueueInv
  BY DEF Init, QueueInv, TimerArmed, QueueHoldsTail, FlushedAreInFlights,
         BatchesInOrder, BatchesPrecedeQueue, flushedCount, pushed
<1>2. Spec => []TypeInv
  BY TypeInvariance
<1> QED
  BY <1>1, <1>2, QueueStep, PTL DEF Spec

\* Every accepted message is in exactly one place, in the order of the pushes.
THEOREM NothingIsLostOrDoubled == Spec => []NothingLostOrDoubled
  BY QueueInvariance, PTL DEF QueueInv, NothingLostOrDoubled

\* The timer runs exactly while messages are queued.
THEOREM TimerIsArmed == Spec => []TimerArmed
  BY QueueInvariance, PTL DEF QueueInv
------------------------------------------------------------------------------
(***************************************************************************)
(* Flights: what is known of a flight in each phase.  An abort reaches a   *)
(* posted flight at once, and only a shutdown aborts.                      *)
(***************************************************************************)
FlightInv ==
  /\ \A b \in Handle : phase[b] = "unused" <=> b > flushes
  /\ \A b \in Handle : phase[b] = "compressing" => Gzip
  /\ \A b \in Handle : phase[b] \in {"accepted", "fulfilled"} => b \in received
  /\ \A b \in Handle : phase[b] = "rejected" => Gzip \/ ~active
  /\ \A b \in Handle : aborted[b] => ~active /\ b <= flushes /\ phase[b] \notin Posted
  /\ \A b \in received \cup lingering : b <= flushes
  /\ \A b \in activeFlushing : b <= flushes
  /\ RunningFlightsAreActive

ShutdownsClose == \A c \in Calls : call[c] \in {"draining", "shutDown"} => ~active

\* A new flight starts compressing and active, as its part of the invariant wants.
LEMMA LaunchKeepsFlights ==
  ASSUME TypeOK, FlightInv, flushes < MaxPushes, NEW msgs, Launch(msgs),
         UNCHANGED hecVars, active' => active
  PROVE  FlightInv'
<1>1. /\ phase \in [Handle -> InFlight \cup Settled \cup {"unused"}]
      /\ aborted \in [Handle -> BOOLEAN] /\ flushes \in Nat
      /\ activeFlushing \subseteq Handle
      /\ received \subseteq Handle /\ lingering \subseteq Handle
      /\ flushes + 1 \in Handle
  BY ConfigAssumption DEF TypeOK, Handle
<1>2. \A b \in Handle : b \in Int
  BY ConfigAssumption DEF Handle
<1>3. /\ flushes' = flushes + 1 /\ aborted' = aborted
      /\ activeFlushing' = activeFlushing \cup {flushes + 1}
      /\ phase'[flushes + 1] = IF Gzip THEN "compressing" ELSE "requesting"
      /\ \A b \in Handle : b # flushes + 1 => phase'[b] = phase[b]
  BY <1>1 DEF Launch
<1>4. ~aborted[flushes + 1]
  BY <1>1 DEF FlightInv
<1> QED
  BY <1>1, <1>2, <1>3, <1>4
     DEF FlightInv, RunningFlightsAreActive, InFlight, Posted, hecVars

\* flushInternal() disturbs nothing about the flights there are.
LEMMA FlushKeepsFlights ==
  ASSUME TypeInv, FlightInv, FlushInternal, UNCHANGED hecVars, active' => active
  PROVE  FlightInv'
<1>1. CASE queue = <<>>
  BY <1>1 DEF FlushInternal, flightVars, hecVars, FlightInv, RunningFlightsAreActive
<1>2. CASE queue # <<>>
  <2>1. flushes < MaxPushes
    BY <1>2, LengthsAreNat, ConfigAssumption DEF TypeInv, FlightsBounded, TypeOK
  <2>2. TypeOK /\ Launch(queue)
    BY <1>2 DEF TypeInv, FlushInternal
  <2> QED
    BY <2>1, <2>2, LaunchKeepsFlights
<1> QED
  BY <1>1, <1>2

\* A shutdown that cancels the active flights aborts every flight that still runs.
LEMMA CancelKeepsFlights ==
  ASSUME TypeOK, FlightInv, Cancel(activeFlushing), UNCHANGED received, ~active'
  PROVE  /\ FlightInv'
         /\ \A b \in Handle : phase'[b] \in InFlight => aborted'[b]
<1>1. /\ phase \in [Handle -> InFlight \cup Settled \cup {"unused"}]
      /\ aborted \in [Handle -> BOOLEAN] /\ flushes \in Nat
      /\ activeFlushing \subseteq Handle
  BY DEF TypeOK
<1>2. \A b \in Handle :
        /\ aborted'[b] <=> aborted[b] \/ b \in activeFlushing
        /\ phase'[b] = IF b \in activeFlushing /\ phase[b] \in Posted
                         THEN "failed" ELSE phase[b]
  BY DEF Cancel
<1>3. UNCHANGED <<flushes, activeFlushing>>
  BY DEF Cancel
<1>4. \A b \in received' \cup lingering' : b <= flushes'
  BY <1>3 DEF Cancel, GiveUp, FlightInv
<1> QED
  BY <1>1, <1>2, <1>3, <1>4 DEF FlightInv, RunningFlightsAreActive, InFlight, Posted

\* Every step keeps what is known of the flights and of the shutdowns.
LEMMA FlightInvStep ==
  TypeInv /\ FlightInv /\ ShutdownsClose /\ [Next]_vars => FlightInv' /\ ShutdownsClose'
<1> SUFFICES ASSUME TypeInv, FlightInv, ShutdownsClose, [Next]_vars
             PROVE  FlightInv' /\ ShutdownsClose'
  OBVIOUS
<1>0. /\ phase \in [Handle -> InFlight \cup Settled \cup {"unused"}]
      /\ aborted \in [Handle -> BOOLEAN] /\ flushes \in Nat
      /\ activeFlushing \subseteq Handle
      /\ received \subseteq Handle /\ lingering \subseteq Handle
      /\ call \in [Calls -> CallState]
      /\ pushed \in Nat /\ Len(queue) \in Nat /\ flushes + Len(queue) <= pushed
      /\ TypeOK
      /\ (queue # <<>> => Len(queue) > 0)
  BY LengthsAreNat DEF TypeInv, TypeOK, FlightsBounded
<1>1. ASSUME NEW n \in Lengths, PushFits(n) PROVE FlightInv' /\ ShutdownsClose'
  <2>1. flushes < MaxPushes
    BY <1>0, <1>1, ConfigAssumption DEF PushFits
  <2>2. UNCHANGED <<active, hecVars, call>>
    BY <1>1 DEF PushFits, callVars
  <2>3. CASE UNCHANGED flightVars
    BY <2>2, <2>3 DEF flightVars, hecVars, FlightInv, RunningFlightsAreActive, ShutdownsClose
  <2>4. ASSUME NEW msgs, Launch(msgs) PROVE FlightInv' /\ ShutdownsClose'
    BY <1>0, <2>1, <2>2, <2>4, LaunchKeepsFlights DEF ShutdownsClose
  <2> QED
    BY <1>1, <2>3, <2>4 DEF PushFits
<1>2. ASSUME NEW n \in Lengths, PushOverflows(n) PROVE FlightInv' /\ ShutdownsClose'
  <2>1. flushes < MaxPushes /\ Launch(queue) /\ UNCHANGED <<active, hecVars, call>>
    BY <1>0, <1>2, ConfigAssumption DEF PushOverflows, callVars
  <2> QED
    BY <1>0, <2>1, LaunchKeepsFlights DEF ShutdownsClose
<1>3. CASE TimerFires
  <2>1. FlushInternal /\ UNCHANGED <<active, hecVars, call>>
    BY <1>3 DEF TimerFires, callVars
  <2> QED
    BY <2>1, FlushKeepsFlights DEF ShutdownsClose
<1>4. ASSUME NEW b \in Handle, FlightStep(b) PROVE FlightInv' /\ ShutdownsClose'
  <2>1. UNCHANGED <<active, call, flushes, aborted>>
    BY <1>4 DEF FlightStep, CompressDone, CompressFails, HecAccepts, LateArrival,
                Arrives, ResponseOk,
                RequestFails, HandleFailure, WakeUp, RemoveFromActive,
                StaysInFlight, queueVars, flightVars, callVars
  <2>2. ShutdownsClose'
    BY <2>1 DEF ShutdownsClose
  <2>0. \A h \in Handle : h \in Nat
    BY ConfigAssumption DEF Handle
  <2>3. CASE HecAccepts(b)
    <3>1. /\ phase[b] = "requesting" /\ phase' = [phase EXCEPT ![b] = "accepted"]
          /\ received' = received \cup {b} /\ lingering' = lingering \ {b}
          /\ activeFlushing' = activeFlushing
      BY <2>3 DEF HecAccepts, Arrives, Goto, StaysInFlight
    <3>2. b <= flushes /\ b \in activeFlushing /\ ~aborted[b]
      BY <1>0, <2>0, <3>1 DEF FlightInv, RunningFlightsAreActive, InFlight, Posted
    <3> QED
      BY <1>0, <2>0, <2>1, <2>2, <3>1, <3>2
         DEF FlightInv, RunningFlightsAreActive, InFlight, Posted
  <2>4. CASE RemoveFromActive(b)
    <3>1. /\ phase[b] \in Settled /\ phase' = phase /\ UNCHANGED hecVars
          /\ activeFlushing' = activeFlushing \ {b}
      BY <2>4 DEF RemoveFromActive
    <3> QED
      BY <1>0, <2>1, <2>2, <3>1
         DEF FlightInv, RunningFlightsAreActive, InFlight, Posted, Settled, hecVars
  <2>5. ASSUME NEW p \in {"requesting", "failed", "waiting", "fulfilled", "rejected"},
               Goto(b, p), activeFlushing' = activeFlushing, received' = received,
               phase[b] \in InFlight, lingering' \subseteq lingering \cup {b},
               p = "requesting" => ~aborted[b],
               p = "fulfilled" => phase[b] = "accepted",
               p = "rejected" => aborted[b] \/ phase[b] = "compressing"
        PROVE  FlightInv'
    <3>1. b <= flushes
      BY <1>0, <2>0, <2>5 DEF FlightInv, InFlight, Posted
    <3> QED
      BY <1>0, <2>1, <2>5, <3>1
         DEF Goto, FlightInv, RunningFlightsAreActive, InFlight, Posted
  <2>6. CASE CompressDone(b)
    <3>1. Goto(b, IF aborted[b] THEN "failed" ELSE "requesting")
      BY <2>6 DEF CompressDone, BeginAttempt
    <3> QED
      BY <2>2, <2>5, <2>6, <3>1 DEF CompressDone, StaysInFlight, InFlight, hecVars
  <2>7. CASE CompressFails(b)
    BY <2>2, <2>5, <2>7 DEF CompressFails, StaysInFlight, InFlight, hecVars
  <2>8. CASE ResponseOk(b)
    BY <2>2, <2>5, <2>8 DEF ResponseOk, StaysInFlight, InFlight, Posted, hecVars
  <2>9. CASE RequestFails(b)
    BY <2>2, <2>5, <2>9 DEF RequestFails, StaysInFlight, InFlight, Posted, GiveUp
  <2>10. CASE HandleFailure(b)
    <3>1. \/ aborted[b] /\ Goto(b, "rejected")
          \/ Goto(b, "waiting")
          \/ ~aborted[b] /\ Goto(b, "requesting")
      BY <2>10 DEF HandleFailure, BeginAttempt
    <3>2. phase[b] = "failed" /\ UNCHANGED <<activeFlushing, received, lingering>>
      BY <2>10 DEF HandleFailure, StaysInFlight, hecVars
    <3> QED
      BY <2>2, <2>5, <3>1, <3>2 DEF InFlight
  <2>11. CASE WakeUp(b)
    <3>1. \/ aborted[b] /\ Goto(b, "rejected")
          \/ ~aborted[b] /\ Goto(b, "requesting")
      BY <2>11 DEF WakeUp, BeginAttempt
    <3>2. phase[b] = "waiting" /\ UNCHANGED <<activeFlushing, received, lingering>>
      BY <2>11 DEF WakeUp, StaysInFlight, hecVars
    <3> QED
      BY <2>2, <2>5, <3>1, <3>2 DEF InFlight
  <2>12. CASE LateArrival(b)
    <3>1. /\ b \in lingering /\ received' = received \cup {b}
          /\ lingering' = lingering \ {b} /\ UNCHANGED <<phase, activeFlushing>>
      BY <2>12 DEF LateArrival, Arrives, flightVars
    <3> QED
      BY <2>1, <2>2, <3>1 DEF FlightInv, RunningFlightsAreActive
  <2> QED
    BY <1>4, <2>2, <2>3, <2>4, <2>6, <2>7, <2>8, <2>9, <2>10, <2>11, <2>12
       DEF FlightStep
<1>5. ASSUME NEW c \in Calls, CallStep(c) PROVE FlightInv' /\ ShutdownsClose'
  <2>1. CASE CallFlush(c)
    <3>1. FlushInternal /\ UNCHANGED <<active, hecVars>> /\ Answer(c, "flushing")
      BY <2>1 DEF CallFlush, AwaitFlush
    <3> QED
      BY <1>0, <3>1, FlushKeepsFlights DEF ShutdownsClose, Answer
  <2>2. CASE CallTimedShutdown(c)
    <3>1. FlushInternal /\ ~active' /\ UNCHANGED hecVars
      BY <2>2 DEF CallTimedShutdown, AwaitFlush
    <3> QED
      BY <3>1, FlushKeepsFlights DEF ShutdownsClose
  <2>3. CASE CallShutdown(c)
    <3>1. Cancel(activeFlushing) /\ ~active' /\ UNCHANGED received
      BY <2>3 DEF CallShutdown
    <3> QED
      BY <1>0, <3>1, CancelKeepsFlights DEF ShutdownsClose
  <2>4. CASE DrainEnds(c)
    <3>1. Cancel(activeFlushing) /\ ~active' /\ UNCHANGED received
      BY <2>4 DEF DrainEnds, ShutdownsClose, queueVars
    <3> QED
      BY <1>0, <3>1, CancelKeepsFlights DEF ShutdownsClose
  <2>5. CASE FlushSettles(c) \/ DrainFails(c)
    BY <1>0, <2>5
       DEF FlushSettles, DrainFails, Answer, queueVars, flightVars, hecVars, FlightInv,
           RunningFlightsAreActive, ShutdownsClose
  <2> QED
    BY <1>5, <2>1, <2>2, <2>3, <2>4, <2>5 DEF CallStep
<1>6. CASE UNCHANGED vars
  BY <1>6 DEF vars, queueVars, flightVars, hecVars, callVars, FlightInv,
              RunningFlightsAreActive, ShutdownsClose
<1> QED
  BY <1>1, <1>2, <1>3, <1>4, <1>5, <1>6 DEF Next, Push

\* The part of the invariant about flights and shutdowns holds always.
LEMMA FlightInvariance == Spec => [](TypeInv /\ FlightInv /\ ShutdownsClose)
<1>1. Init => FlightInv /\ ShutdownsClose
  BY ConfigAssumption
     DEF Init, FlightInv, ShutdownsClose, RunningFlightsAreActive, Handle,
         InFlight, Posted
<1>2. Spec => []TypeInv
  BY TypeInvariance
<1> QED
  BY <1>1, <1>2, FlightInvStep, PTL DEF Spec

\* A flight that still runs is where shutdown() looks for it.
THEOREM RunningFlightsStayActive == Spec => []RunningFlightsAreActive
  BY FlightInvariance, PTL DEF FlightInv
------------------------------------------------------------------------------
(***************************************************************************)
(* What flush() and shutdown() have established when they resolve.  First  *)
(* what no step does to the flights that exist, then what a caller knows.  *)
(***************************************************************************)
FlightKept(b) ==
  /\ batch'[b] = batch[b]
  /\ phase[b] \in Settled => phase'[b] = phase[b]
  /\ phase'[b] \in InFlight => phase[b] \in InFlight
  /\ aborted[b] => aborted'[b]

FlightsKept ==
  /\ flushes' \in Nat /\ flushes <= flushes'
  /\ \A b \in 1..flushes : FlightKept(b)
  /\ ~active /\ queue = <<>> => ~active' /\ queue' = <<>> /\ flushes' = flushes

\* A launch leaves the earlier flights as they are.
LEMMA LaunchKeepsEarlier ==
  ASSUME TypeOK, flushes < MaxPushes, NEW msgs, Launch(msgs)
  PROVE  /\ flushes' \in Nat /\ flushes' = flushes + 1
         /\ \A b \in 1..flushes : FlightKept(b)
<1>1. /\ phase \in [Handle -> InFlight \cup Settled \cup {"unused"}]
      /\ flushes \in Nat
      /\ DOMAIN batch = Handle
      /\ \A b \in 1..flushes : b \in Handle /\ b # flushes + 1
  BY ConfigAssumption DEF TypeOK, Handle
<1> QED
  BY <1>1 DEF Launch, FlightKept

\* flushInternal() leaves the earlier flights as they are.
LEMMA FlushKeepsEarlier ==
  ASSUME TypeInv, FlushInternal, active' => active
  PROVE  FlightsKept
<1>1. flushes \in Nat /\ queue' = <<>>
  BY DEF TypeInv, TypeOK, FlushInternal, ResetQueue
<1>2. CASE queue = <<>>
  BY <1>1, <1>2 DEF FlushInternal, flightVars, FlightsKept, FlightKept
<1>3. CASE queue # <<>>
  <2>1. flushes < MaxPushes /\ TypeOK /\ Launch(queue)
    BY <1>3, LengthsAreNat, ConfigAssumption
       DEF TypeInv, FlightsBounded, TypeOK, FlushInternal
  <2> QED
    BY <1>1, <1>3, <2>1, LaunchKeepsEarlier DEF FlightsKept
<1> QED
  BY <1>2, <1>3

\* No step changes the messages of a flight, revives a settled one, or reopens the client.
LEMMA StepKeepsFlights == TypeInv /\ [Next]_vars => FlightsKept
<1> SUFFICES ASSUME TypeInv, [Next]_vars PROVE FlightsKept
  OBVIOUS
<1>0. /\ phase \in [Handle -> InFlight \cup Settled \cup {"unused"}]
      /\ aborted \in [Handle -> BOOLEAN] /\ flushes \in Nat
      /\ \A b \in 1..flushes : b \in Handle
      /\ pushed \in Nat /\ Len(queue) \in Nat /\ flushes + Len(queue) <= pushed
      /\ (queue # <<>> => Len(queue) > 0)
      /\ TypeOK
  <2>1. TypeOK /\ flushes + Len(queue) <= pushed
    BY DEF TypeInv, FlightsBounded
  <2>2. \A b \in 1..flushes : b \in Handle
    BY <2>1, ConfigAssumption DEF TypeOK, Handle
  <2> QED
    BY <2>1, <2>2, LengthsAreNat DEF TypeOK
<1>1. ASSUME NEW n \in Lengths, PushFits(n) PROVE FlightsKept
  <2>1. flushes < MaxPushes /\ active
    BY <1>0, <1>1, ConfigAssumption DEF PushFits
  <2>2. CASE UNCHANGED flightVars
    BY <1>0, <2>1, <2>2 DEF flightVars, FlightsKept, FlightKept
  <2>3. ASSUME NEW msgs, Launch(msgs) PROVE FlightsKept
    BY <1>0, <2>1, <2>3, LaunchKeepsEarlier DEF FlightsKept
  <2> QED
    BY <1>1, <2>2, <2>3 DEF PushFits
<1>2. ASSUME NEW n \in Lengths, PushOverflows(n) PROVE FlightsKept
  <2>1. flushes < MaxPushes /\ active /\ Launch(queue)
    BY <1>0, <1>2, ConfigAssumption DEF PushOverflows
  <2> QED
    BY <1>0, <2>1, LaunchKeepsEarlier DEF FlightsKept
<1>3. CASE TimerFires
  BY <1>3, FlushKeepsEarlier DEF TimerFires
<1>4. ASSUME NEW b \in Handle, FlightStep(b) PROVE FlightsKept
  <2>1. /\ active' = active /\ queue' = queue /\ batch' = batch
        /\ aborted' = aborted /\ flushes' = flushes
    BY <1>4 DEF FlightStep, CompressDone, CompressFails, HecAccepts, LateArrival,
                Arrives, ResponseOk,
                RequestFails, HandleFailure, WakeUp, RemoveFromActive,
                StaysInFlight, queueVars, flightVars
  <2>2. \/ phase' = phase
        \/ /\ phase[b] \in InFlight
           /\ \E p \in InFlight \cup Settled : phase' = [phase EXCEPT ![b] = p]
    BY <1>4 DEF FlightStep, CompressDone, CompressFails, HecAccepts, LateArrival,
                Arrives, ResponseOk,
                RequestFails, HandleFailure, WakeUp, RemoveFromActive,
                BeginAttempt, Goto, flightVars, InFlight, Posted, Settled
  <2>3. \A h \in 1..flushes : FlightKept(h)
    BY <1>0, <2>1, <2>2 DEF FlightKept, InFlight, Posted, Settled
  <2> QED
    BY <1>0, <2>1, <2>3 DEF FlightsKept
<1>5. ASSUME NEW c \in Calls, CallStep(c) PROVE FlightsKept
  <2>1. CASE CallFlush(c) \/ CallTimedShutdown(c)
    BY <2>1, FlushKeepsEarlier DEF CallFlush, CallTimedShutdown, AwaitFlush
  <2>2. CASE CallShutdown(c) \/ DrainEnds(c)
    <3>1. /\ Cancel(activeFlushing) /\ queue' = queue
          /\ (~active => ~active')
      BY <2>2 DEF CallShutdown, DrainEnds, queueVars
    <3>2. batch' = batch /\ flushes' = flushes
      BY <3>1 DEF Cancel
    <3>3. \A h \in 1..flushes : FlightKept(h)
      BY <1>0, <3>1, <3>2 DEF Cancel, FlightKept, InFlight, Posted, Settled
    <3> QED
      BY <1>0, <3>1, <3>2, <3>3 DEF FlightsKept
  <2>3. CASE FlushSettles(c) \/ DrainFails(c)
    BY <1>0, <2>3
       DEF FlushSettles, DrainFails, queueVars, flightVars, FlightsKept, FlightKept
  <2> QED
    BY <1>5, <2>1, <2>2, <2>3 DEF CallStep
<1>6. CASE UNCHANGED vars
  <2>1. /\ active' = active /\ queue' = queue /\ batch' = batch
        /\ aborted' = aborted /\ flushes' = flushes /\ phase' = phase
    BY <1>6 DEF vars, queueVars, flightVars
  <2> QED
    BY <1>0, <2>1 DEF FlightsKept, FlightKept
<1> QED
  BY <1>1, <1>2, <1>3, <1>4, <1>5, <1>6 DEF Next, Push

\* An aborted flight posts nothing: what HEC still takes in of it was on the
\* wire before, and nothing joins what is on the wire.
THEOREM AbortsStopPosting == Spec => AbortStopsPosting
<1>1. TypeInv /\ FlightInv /\ FlightInv' /\ [Next]_vars =>
        [\A b \in Handle : aborted[b] =>
           /\ phase'[b] \notin Posted
           /\ b \in received' => b \in received \cup lingering
           /\ b \in lingering' => b \in lingering]_vars
  <2> SUFFICES ASSUME TypeInv, FlightInv, FlightInv', Next, NEW b \in Handle, aborted[b]
               PROVE  /\ phase'[b] \notin Posted
                      /\ b \in received' => b \in received \cup lingering
                      /\ b \in lingering' => b \in lingering
    OBVIOUS
  <2>1. phase[b] \notin Posted /\ b <= flushes
    BY DEF FlightInv
  <2>2. phase'[b] \notin Posted
    <3>1. b \in 1..flushes
      BY <2>1, ConfigAssumption DEF TypeInv, TypeOK, Handle
    <3>2. aborted'[b]
      BY <3>1, StepKeepsFlights DEF FlightsKept, FlightKept
    <3> QED
      BY <3>2 DEF FlightInv
  <2>3. ASSUME NEW h \in Handle, FlightStep(h)
        PROVE  /\ b \in received' => b \in received \cup lingering
               /\ b \in lingering' => b \in lingering
    <3>1. CASE HecAccepts(h)
      BY <2>1, <3>1 DEF HecAccepts, Arrives, Posted
    <3>2. CASE LateArrival(h)
      BY <3>2 DEF LateArrival, Arrives
    <3>3. CASE RequestFails(h)
      BY <2>1, <3>3 DEF RequestFails, GiveUp
    <3>4. CASE UNCHANGED hecVars
      BY <3>4 DEF hecVars
    <3> QED
      BY <2>3, <3>1, <3>2, <3>3, <3>4
         DEF FlightStep, CompressDone, CompressFails, ResponseOk, HandleFailure,
             WakeUp, RemoveFromActive
  <2>4. ASSUME NEW c \in Calls, CallStep(c)
        PROVE  /\ b \in received' => b \in received \cup lingering
               /\ b \in lingering' => b \in lingering
    <3>1. CASE CallShutdown(c) \/ DrainEnds(c)
      BY <2>1, <3>1 DEF CallShutdown, DrainEnds, Cancel, GiveUp
    <3>2. CASE UNCHANGED hecVars
      BY <3>2 DEF hecVars
    <3> QED
      BY <2>4, <3>1, <3>2
         DEF CallStep, CallFlush, CallTimedShutdown, FlushSettles, DrainFails
  <2>5. CASE Push \/ TimerFires
    BY <2>2, <2>5 DEF Push, PushFits, PushOverflows, TimerFires, hecVars
  <2> QED
    BY <2>2, <2>3, <2>4, <2>5 DEF Next
<1> QED
  BY <1>1, FlightInvariance, PTL DEF Spec, AbortStopsPosting

\* What holds for one caller.
FlushCovers(c) ==
  call[c] \in {"flushing", "flushed"} =>
    \A m \in 1..mark[c] : \E b \in 1..flushes :
      Carries(b, m) /\ (b \in waits[c] \/ phase[b] \in Settled)

CallerInv(c) ==
  /\ waits[c] \subseteq 1..flushes
  /\ call[c] = "idle" => waits[c] = {}
  /\ call[c] \in {"draining", "shutDown"} /\ waits[c] # {} => queue = <<>>
  /\ call[c] = "shutDown" /\ waits[c] # {} =>
       \A b \in Handle : phase[b] \in InFlight => aborted[b]
  /\ FlushCovers(c)
  /\ call[c] = "flushed" => \A b \in waits[c] : phase[b] = "fulfilled"

CallInv == \A c \in Calls : CallerInv(c)

\* A step of another actor disturbs nothing a caller knows.
LEMMA OthersKeepCallerInv ==
  ASSUME TypeInv, FlightInv, FlightInv', ShutdownsClose, FlightsKept,
         NEW c \in Calls, CallerInv(c),
         call'[c] = call[c], waits'[c] = waits[c], mark'[c] = mark[c]
  PROVE  CallerInv(c)'
<1>0. /\ flushes \in Nat /\ flushes' \in Nat /\ flushes <= flushes'
      /\ \A b \in 1..flushes : b \in 1..flushes' /\ FlightKept(b)
      /\ waits[c] \subseteq 1..flushes
      /\ \A b \in Handle : b \in Nat /\ b > 0
  BY ConfigAssumption DEF TypeInv, TypeOK, FlightsKept, CallerInv, Handle
<1>1. waits'[c] \subseteq 1..flushes' /\ (call'[c] = "idle" => waits'[c] = {})
  BY <1>0 DEF CallerInv
<1>2. ASSUME call'[c] \in {"draining", "shutDown"}, waits'[c] # {}
      PROVE  queue' = <<>> /\ flushes' = flushes
  BY <1>2 DEF CallerInv, ShutdownsClose, FlightsKept
<1>3. ASSUME call'[c] = "shutDown", waits'[c] # {},
             NEW b \in Handle, phase'[b] \in InFlight
      PROVE  aborted'[b]
  <2>1. b <= flushes'
    <3>1. phase'[b] # "unused"
      BY <1>3 DEF InFlight, Posted
    <3> QED
      BY <1>0, <3>1 DEF FlightInv
  <2>2. b \in 1..flushes
    BY <1>0, <1>2, <1>3, <2>1
  <2>3. phase[b] \in InFlight
    BY <1>0, <1>3, <2>2 DEF FlightKept
  <2>4. aborted[b]
    BY <1>3, <2>3 DEF CallerInv
  <2> QED
    BY <1>0, <2>2, <2>4 DEF FlightKept
<1>4. FlushCovers(c)'
  <2> SUFFICES ASSUME call'[c] \in {"flushing", "flushed"}, NEW m \in 1..mark'[c]
               PROVE  \E b \in 1..flushes' :
                        Carries(b, m)' /\ (b \in waits'[c] \/ phase'[b] \in Settled)
    BY DEF FlushCovers
  <2>1. PICK b \in 1..flushes : Carries(b, m) /\ (b \in waits[c] \/ phase[b] \in Settled)
    BY DEF CallerInv, FlushCovers
  <2>2. Carries(b, m)' /\ b \in 1..flushes'
    BY <1>0, <2>1 DEF Carries, FlightKept
  <2>3. b \in waits'[c] \/ phase'[b] \in Settled
    BY <1>0, <2>1 DEF FlightKept
  <2> QED
    BY <2>2, <2>3
<1>5. ASSUME call'[c] = "flushed", NEW b \in waits'[c] PROVE phase'[b] = "fulfilled"
  <2>1. phase[b] = "fulfilled" /\ b \in 1..flushes
    BY <1>0, <1>5 DEF CallerInv
  <2> QED
    BY <1>0, <2>1 DEF FlightKept, Settled
<1> QED
  BY <1>1, <1>2, <1>3, <1>4, <1>5 DEF CallerInv

\* flush() waits for whatever carries a message pushed so far and still runs.
LEMMA CallCovers ==
  ASSUME TypeInv, QueueInv, QueueInv', FlightInv, FlightsKept, UNCHANGED length,
         NEW c \in Calls, AwaitFlush(c)
  PROVE  /\ waits'[c] \subseteq 1..flushes'
         /\ queue' = <<>>
         /\ \A m \in 1..mark'[c] : \E b \in 1..flushes' :
              Carries(b, m)' /\ (b \in waits'[c] \/ phase'[b] \in Settled)
<1>1. /\ flushes \in Nat /\ flushes' \in Nat /\ flushes <= flushes'
      /\ \A b \in 1..flushes : b \in 1..flushes' /\ b \in Handle /\ FlightKept(b)
      /\ phase \in [Handle -> InFlight \cup Settled \cup {"unused"}]
      /\ \A b \in Handle : b \in Nat /\ b > 0
      /\ activeFlushing \subseteq Handle
  BY ConfigAssumption DEF TypeInv, TypeOK, FlightsKept, Handle
<1>2. /\ waits'[c] = activeFlushing \cup Launched
      /\ mark'[c] = pushed /\ pushed' = pushed
      /\ queue' = <<>> /\ Len(queue') = 0
      /\ FlushInternal
  BY DEF AwaitFlush, FlushInternal, ResetQueue, TypeInv, TypeOK, pushed
<1>3. pushed \in Nat
  BY LengthsAreNat DEF TypeInv
<1>4. \A b \in 1..flushes' : b \in 1..flushes \/ b \in Launched
  BY <1>1, <1>2 DEF FlushInternal, Launched, Launch, flightVars
<1>5. Launched \subseteq 1..flushes'
  BY <1>1, <1>2 DEF FlushInternal, Launched, Launch, flightVars
<1>6. waits'[c] \subseteq 1..flushes'
  <2>1. activeFlushing \subseteq 1..flushes'
    BY <1>1 DEF FlightInv
  <2> QED
    BY <1>2, <1>5, <2>1
<1>7. ASSUME NEW m \in 1..mark'[c]
      PROVE  \E b \in 1..flushes' :
               Carries(b, m)' /\ (b \in waits'[c] \/ phase'[b] \in Settled)
  <2>1. m \in 1..(pushed' - Len(queue'))
    BY <1>2, <1>3
  <2>2. PICK b \in 1..flushes' : Carries(b, m)'
    BY <2>1 DEF QueueInv, FlushedAreInFlights
  <2>3. CASE b \in Launched
    BY <1>2, <2>2, <2>3
  <2>4. CASE b \in 1..flushes /\ b \in activeFlushing
    BY <1>2, <2>2, <2>4
  <2>5. CASE b \in 1..flushes /\ b \notin activeFlushing
    <3>1. phase[b] \in Settled
      BY <1>1, <2>5 DEF FlightInv, RunningFlightsAreActive
    <3>2. phase'[b] \in Settled
      BY <1>1, <2>5, <3>1 DEF FlightKept
    <3> QED
      BY <2>2, <3>2
  <2> QED
    BY <1>4, <2>3, <2>4, <2>5
<1> QED
  BY <1>2, <1>6, <1>7

\* Every step keeps what each caller of flush() and shutdown() may rely on.
LEMMA CallInvStep ==
  /\ TypeInv /\ QueueInv /\ FlightInv /\ ShutdownsClose /\ CallInv
  /\ QueueInv' /\ FlightInv' /\ [Next]_vars
  => CallInv'
<1> SUFFICES ASSUME TypeInv, QueueInv, FlightInv, ShutdownsClose, CallInv,
                    QueueInv', FlightInv', [Next]_vars, NEW d \in Calls
             PROVE  CallerInv(d)'
  BY DEF CallInv
<1>0. /\ call \in [Calls -> CallState] /\ waits \in [Calls -> SUBSET Handle]
      /\ mark \in [Calls -> 0..MaxPushes] /\ TypeOK
  BY DEF TypeInv, TypeOK
<1>1. FlightsKept
  BY StepKeepsFlights
<1>2. ASSUME call'[d] = call[d], waits'[d] = waits[d], mark'[d] = mark[d]
      PROVE  CallerInv(d)'
  BY <1>1, <1>2, OthersKeepCallerInv DEF CallInv
<1>3. CASE UNCHANGED callVars
  BY <1>2, <1>3 DEF callVars
<1>4. ASSUME NEW c \in Calls, CallStep(c), c # d PROVE CallerInv(d)'
  <2>1. call'[d] = call[d] /\ waits'[d] = waits[d] /\ mark'[d] = mark[d]
    BY <1>0, <1>4
       DEF CallStep, CallFlush, CallTimedShutdown, CallShutdown, FlushSettles,
           DrainEnds, DrainFails, AwaitFlush, Answer
  <2> QED
    BY <1>2, <2>1
<1>5. ASSUME CallStep(d) PROVE CallerInv(d)'
  <2>1. CASE CallFlush(d) \/ CallTimedShutdown(d)
    <3>1. /\ AwaitFlush(d) /\ UNCHANGED length
          /\ call'[d] \in {"flushing", "draining"}
      BY <1>0, <2>1 DEF CallFlush, CallTimedShutdown, Answer
    <3>2. /\ waits'[d] \subseteq 1..flushes'
          /\ queue' = <<>>
          /\ \A m \in 1..mark'[d] : \E b \in 1..flushes' :
               Carries(b, m)' /\ (b \in waits'[d] \/ phase'[b] \in Settled)
      BY <1>1, <3>1, CallCovers
    <3>3. FlushCovers(d)'
      BY <3>2 DEF FlushCovers
    <3> QED
      BY <3>1, <3>2, <3>3 DEF CallerInv
  <2>2. CASE CallShutdown(d)
    <3>1. call'[d] = "shutDown" /\ waits'[d] = {}
      BY <1>0, <2>2 DEF CallShutdown, Answer, CallInv, CallerInv
    <3> QED
      BY <3>1 DEF CallerInv, FlushCovers
  <2>3. CASE DrainEnds(d)
    <3>1. /\ call[d] = "draining" /\ call'[d] = "shutDown" /\ waits' = waits
          /\ queue' = queue /\ Cancel(activeFlushing) /\ received' = received /\ active' = active
      BY <1>0, <2>3 DEF DrainEnds, Answer, queueVars
    <3>2. \A b \in Handle : phase'[b] \in InFlight => aborted'[b]
      <4>1. ~active'
        BY <3>1 DEF ShutdownsClose
      <4> QED
        BY <1>0, <3>1, <4>1, CancelKeepsFlights
    <3>3. flushes' = flushes
      BY <3>1 DEF Cancel
    <3> QED
      BY <3>1, <3>2, <3>3 DEF CallerInv, CallInv, FlushCovers
  <2>4. CASE DrainFails(d)
    <3>1. /\ call'[d] = "shutDownRejected" /\ waits' = waits /\ flushes' = flushes
      BY <1>0, <2>4 DEF DrainFails, Answer, flightVars
    <3> QED
      BY <3>1 DEF CallerInv, CallInv, FlushCovers
  <2>5. CASE FlushSettles(d)
    <3>1. /\ call[d] = "flushing" /\ UNCHANGED <<waits, mark, batch, flushes, phase>>
          /\ \/ call'[d] = "flushRejected"
             \/ call'[d] = "flushed" /\ AllFulfilled(d)
      BY <1>0, <2>5 DEF FlushSettles, Answer, flightVars
    <3>2. \A b, m : Carries(b, m)' <=> Carries(b, m)
      BY <3>1 DEF Carries
    <3>3. FlushCovers(d)'
      BY <3>1, <3>2 DEF FlushCovers, CallInv, CallerInv
    <3> QED
      BY <3>1, <3>3 DEF CallerInv, CallInv, AllFulfilled
  <2> QED
    BY <1>5, <2>1, <2>2, <2>3, <2>4, <2>5 DEF CallStep
<1>6. CASE Push \/ TimerFires \/ \E b \in Handle : FlightStep(b)
  BY <1>3, <1>6
     DEF Push, PushFits, PushOverflows, TimerFires, FlightStep, CompressDone,
         CompressFails, HecAccepts, LateArrival, Arrives, ResponseOk, RequestFails, HandleFailure,
         WakeUp, RemoveFromActive
<1>7. CASE UNCHANGED vars
  BY <1>3, <1>7 DEF vars
<1> QED
  BY <1>4, <1>5, <1>6, <1>7 DEF Next

\* The inductive invariant of the client.
IInv ==
  /\ TypeInv
  /\ QueueInv
  /\ FlightInv
  /\ ShutdownsClose
  /\ CallInv

\* The inductive invariant as a whole: types, queue, flights, shutdowns, callers.
THEOREM Invariance == Spec => []IInv
<1>1. Init => CallInv
  BY DEF Init, CallInv, CallerInv, FlushCovers
<1>2. IInv /\ [Next]_vars => CallInv'
  BY QueueStep, FlightInvStep, CallInvStep DEF IInv
<1>3. Spec => [](TypeInv /\ QueueInv) /\ [](TypeInv /\ FlightInv /\ ShutdownsClose)
  BY QueueInvariance, FlightInvariance
<1> QED
  BY <1>1, <1>2, <1>3, PTL DEF Spec, IInv

\* A resolved flush() means that what was accepted before it is with HEC.
THEOREM FlushMeansDelivered == Spec => []FlushDelivers
<1>1. IInv => FlushDelivers
  <2> SUFFICES ASSUME IInv, NEW c \in Calls, call[c] = "flushed",
                      NEW m \in 1..mark[c]
               PROVE  \E b \in 1..flushes :
                        /\ Carries(b, m)
                        /\ \/ phase[b] = "fulfilled" /\ b \in received
                           \/ phase[b] = "rejected" /\ b \notin waits[c]
    BY DEF FlushDelivers
  <2>1. CallerInv(c)
    BY DEF IInv, CallInv
  <2>2. PICK b \in 1..flushes : Carries(b, m) /\ (b \in waits[c] \/ phase[b] \in Settled)
    BY <2>1 DEF CallerInv, FlushCovers
  <2>3. b \in Handle
    BY ConfigAssumption DEF IInv, TypeInv, TypeOK, Handle
  <2>4. b \in waits[c] => phase[b] = "fulfilled"
    BY <2>1 DEF CallerInv
  <2>5. phase[b] = "fulfilled" => b \in received
    BY <2>3 DEF IInv, FlightInv
  <2> QED
    BY <2>2, <2>4, <2>5 DEF Settled
<1> QED
  BY <1>1, Invariance, PTL

\* After a drained shutdown nothing is sent any more.
THEOREM DrainedShutdownStaysQuiet == Spec => []DrainedShutdownIsQuiet
<1>1. IInv => DrainedShutdownIsQuiet
  <2> SUFFICES ASSUME IInv, NEW c \in Calls, call[c] = "shutDown", waits[c] # {}
               PROVE  /\ ~active /\ queue = <<>> /\ ~flushTimer
                      /\ \A b \in Handle : /\ phase[b] \notin Posted
                                           /\ phase[b] \in InFlight => aborted[b]
    BY DEF DrainedShutdownIsQuiet
  <2>1. CallerInv(c) /\ ~active /\ TimerArmed
    BY DEF IInv, CallInv, ShutdownsClose, QueueInv
  <2>2. queue = <<>> /\ ~flushTimer
    BY <2>1 DEF CallerInv, TimerArmed
  <2>3. \A b \in Handle : phase[b] \in InFlight => aborted[b]
    BY <2>1 DEF CallerInv
  <2>4. \A b \in Handle : phase[b] \notin Posted
    BY <2>3 DEF IInv, FlightInv, InFlight
  <2> QED
    BY <2>1, <2>2, <2>3, <2>4
<1> QED
  BY <1>1, Invariance, PTL
------------------------------------------------------------------------------
(***************************************************************************)
(* HecClient implements HecDelivery.                                       *)
(***************************************************************************)
Confirmed == MsgsOf(InPhase("fulfilled"))
Abandoned == MsgsOf(InPhase("rejected"))

\* A message travels in one flight only.
LEMMA OneFlightPerMessage ==
  ASSUME TypeInv, QueueInv, NEW b \in 1..flushes, NEW c \in 1..flushes, b # c,
         NEW m, Carries(b, m), Carries(c, m)
  PROVE  FALSE
<1>1. b \in Int /\ c \in Int /\ b \in Handle /\ c \in Handle
  BY ConfigAssumption DEF TypeInv, TypeOK, Handle
<1>2. PICK i \in 1..Len(batch[b]) : batch[b][i] = m
  BY DEF Carries
<1>3. PICK j \in 1..Len(batch[c]) : batch[c][j] = m
  BY DEF Carries
<1>4. batch[b][i] \in 1..flushedCount
  BY DEF QueueInv, BatchesPrecedeQueue
<1>5. m \in Int
  BY <1>2, <1>4
<1>6. batch[b][i] < batch[c][j] \/ batch[c][j] < batch[b][i]
  BY <1>1 DEF QueueInv, BatchesInOrder
<1> QED
  BY <1>2, <1>3, <1>5, <1>6

\* The messages of flights that exist do not change with a step.
LEMMA MsgsOfStable ==
  ASSUME FlightsKept, NEW S, S \subseteq 1..flushes
  PROVE  {m \in Msg : \E b \in S : Carries(b, m)'} = MsgsOf(S)
<1>1. \A b \in S, m \in Msg : Carries(b, m)' <=> Carries(b, m)
  BY DEF FlightsKept, FlightKept, Carries
<1> QED
  BY <1>1 DEF MsgsOf

\* The flights in a phase are flights that exist.
LEMMA InPhaseExists ==
  ASSUME TypeInv, FlightInv, NEW p \in Settled
  PROVE  InPhase(p) \subseteq 1..flushes
<1>1. \A b \in Handle : b \in Nat /\ b > 0
  BY ConfigAssumption DEF Handle
<1> QED
  BY <1>1 DEF InPhase, FlightInv, Settled, TypeInv, TypeOK

\* The message sets after a step, in terms of the flights that make them up.
LEMMA MsgsAfter ==
  ASSUME TypeInv, FlightInv, FlightsKept, NEW R, R \subseteq 1..flushes, received' = R,
         NEW F, F \subseteq 1..flushes, InPhase("fulfilled")' = F,
         NEW A, A \subseteq 1..flushes, InPhase("rejected")' = A
  PROVE  /\ MsgsOf(received)' = MsgsOf(R)
         /\ Confirmed' = MsgsOf(F)
         /\ Abandoned' = MsgsOf(A)
  BY MsgsOfStable DEF MsgsOf, Confirmed, Abandoned, InPhase

\* The messages of a set of flights and one more.
LEMMA MsgsOfUnion ==
  ASSUME NEW S, NEW b
  PROVE  MsgsOf(S \cup {b}) = MsgsOf(S) \cup MsgsOf({b})
  BY DEF MsgsOf

\* The messages of a flight are accepted ones.
LEMMA CarriedIsAccepted ==
  ASSUME TypeInv, QueueInv, NEW b \in 1..flushes
  PROVE  MsgsOf({b}) \in SUBSET (1..pushed)
<1>1. SUFFICES ASSUME NEW m \in Msg, Carries(b, m) PROVE m \in 1..pushed
  BY DEF MsgsOf
<1>2. PICK i \in 1..Len(batch[b]) : batch[b][i] = m
  BY <1>1 DEF Carries
<1>3. m \in 1..flushedCount
  BY <1>2 DEF QueueInv, BatchesPrecedeQueue
<1>4. flushedCount <= pushed /\ flushedCount \in Int /\ pushed \in Int
  BY LengthsAreNat DEF TypeInv, flushedCount
<1> QED
  BY <1>3, <1>4

\* The messages of a running flight are pending.
LEMMA RunningIsPending ==
  ASSUME TypeInv, QueueInv, FlightInv, NEW b \in Handle, phase[b] \in InFlight
  PROVE  MsgsOf({b}) \subseteq Delivery!Pending
<1>1. b \in 1..flushes
  BY ConfigAssumption DEF Handle, FlightInv, InFlight, Posted, TypeInv, TypeOK
<1>2. SUFFICES ASSUME NEW m \in Msg, Carries(b, m)
               PROVE  m \in 1..pushed /\ m \notin Confirmed /\ m \notin Abandoned
  BY DEF MsgsOf, Delivery!Pending, Confirmed, Abandoned
<1>3. m \in 1..pushed
  BY <1>1, <1>2, CarriedIsAccepted DEF MsgsOf
<1>4. ASSUME NEW c \in 1..flushes, Carries(c, m) PROVE c = b
  BY <1>1, <1>2, <1>4, OneFlightPerMessage
<1>5. m \notin Confirmed /\ m \notin Abandoned
  <2>1. \A p \in Settled : b \notin InPhase(p)
    BY DEF InPhase, InFlight, Settled, Posted
  <2> QED
    BY <1>4, <2>1, InPhaseExists DEF Confirmed, Abandoned, MsgsOf, Settled
<1> QED
  BY <1>3, <1>5

\* Every step of the client is a step of HecDelivery or leaves its variables alone.
LEMMA DeliveryStep ==
  IInv /\ FlightInv' /\ [Next]_vars => [Delivery!Next]_(Delivery!vars)
<1> SUFFICES ASSUME IInv, FlightInv', [Next]_vars
             PROVE  Delivery!Next \/ UNCHANGED Delivery!vars
  OBVIOUS
<1>0. /\ TypeInv /\ QueueInv /\ FlightInv /\ ShutdownsClose /\ FlightsKept
      /\ phase \in [Handle -> InFlight \cup Settled \cup {"unused"}]
      /\ flushes \in Nat /\ received \subseteq Handle
  BY StepKeepsFlights DEF IInv, TypeInv, TypeOK
<1>1. /\ received \subseteq 1..flushes
      /\ InPhase("fulfilled") \subseteq 1..flushes
      /\ InPhase("rejected") \subseteq 1..flushes
  <2>1. \A b \in Handle : b \in Nat /\ b > 0
    BY ConfigAssumption DEF Handle
  <2>2. received \subseteq 1..flushes
    BY <1>0, <2>1 DEF FlightInv
  <2> QED
    BY <1>0, <2>2, InPhaseExists DEF Settled
\* A step that settles no flight and delivers nothing changes no message set.
<1>2. ASSUME received' = received,
             \A b \in Handle : \A p \in Settled : phase'[b] = p <=> phase[b] = p
      PROVE  UNCHANGED <<MsgsOf(received), Confirmed, Abandoned>>
  <2>1. /\ InPhase("fulfilled")' = InPhase("fulfilled")
        /\ InPhase("rejected")' = InPhase("rejected")
    BY <1>2 DEF InPhase, Settled
  <2> QED
    BY <1>0, <1>1, <1>2, <2>1, MsgsAfter DEF Confirmed, Abandoned
<1>3. ASSUME NEW msgs, Launch(msgs), flushes < MaxPushes, received' = received
      PROVE  UNCHANGED <<MsgsOf(received), Confirmed, Abandoned>>
  <2>1. phase[flushes + 1] \notin Settled
    BY <1>0, <1>3, ConfigAssumption DEF FlightInv, Handle, Settled
  <2>2. \A b \in Handle : \A p \in Settled : phase'[b] = p <=> phase[b] = p
    BY <1>0, <1>3, <2>1 DEF Launch, Settled
  <2> QED
    BY <1>2, <1>3, <2>2
<1>4. ASSUME FlushInternal, received' = received
      PROVE  UNCHANGED <<MsgsOf(received), Confirmed, Abandoned>>
  <2>1. CASE queue = <<>>
    BY <1>2, <1>4, <2>1 DEF FlushInternal, flightVars
  <2>2. CASE queue # <<>>
    <3>1. flushes < MaxPushes
      BY <1>0, <2>2, LengthsAreNat, ConfigAssumption DEF TypeInv, FlightsBounded
    <3> QED
      BY <1>3, <1>4, <2>2, <3>1 DEF FlushInternal
  <2> QED
    BY <2>1, <2>2
<1>5. ASSUME NEW n \in Lengths, PushFits(n) \/ PushOverflows(n) PROVE Delivery!Accept
  <2>1. pushed < MaxPushes /\ active /\ active' = active /\ received' = received
    BY <1>5 DEF PushFits, PushOverflows, hecVars
  <2>2. pushed' = pushed + 1
    BY <1>0, <1>5 DEF PushFits, PushOverflows, pushed, TypeInv, TypeOK
  <2>3. flushes < MaxPushes
    BY <1>0, <2>1, LengthsAreNat, ConfigAssumption DEF TypeInv, FlightsBounded
  <2>4. UNCHANGED <<MsgsOf(received), Confirmed, Abandoned>>
    <3>1. CASE UNCHANGED flightVars
      BY <1>2, <2>1, <3>1 DEF flightVars
    <3>2. ASSUME NEW msgs, Launch(msgs)
          PROVE  UNCHANGED <<MsgsOf(received), Confirmed, Abandoned>>
      BY <1>3, <2>1, <2>3, <3>2
    <3> QED
      BY <1>5, <3>1, <3>2 DEF PushFits, PushOverflows
  <2> QED
    BY <2>1, <2>2, <2>4 DEF Delivery!Accept, Confirmed, Abandoned
<1>6. CASE TimerFires
  <2>1. UNCHANGED <<active, length, pushed>> /\ received' = received /\ FlushInternal
    BY <1>6 DEF TimerFires, pushed, hecVars
  <2> QED
    BY <1>4, <2>1 DEF Delivery!vars, Confirmed, Abandoned
<1>7. ASSUME NEW b \in Handle, FlightStep(b)
      PROVE  Delivery!Next \/ UNCHANGED Delivery!vars
  <2>1. UNCHANGED <<active, pushed, flushes>>
    BY <1>7 DEF FlightStep, CompressDone, CompressFails, HecAccepts, LateArrival,
                Arrives, ResponseOk,
                RequestFails, HandleFailure, WakeUp, RemoveFromActive,
                StaysInFlight, queueVars, flightVars, pushed
  <2>2. MsgsOf({b}) \in SUBSET Delivery!Pending \/ phase[b] \notin InFlight
    BY <1>0, RunningIsPending
  <2>3. CASE HecAccepts(b) \/ LateArrival(b)
    <3>1. /\ received' = received \cup {b}
          /\ phase' = phase \/ phase' = [phase EXCEPT ![b] = "accepted"]
          /\ b \in lingering \/ phase[b] = "requesting"
      BY <2>3 DEF HecAccepts, LateArrival, Arrives, Goto, flightVars
    <3>2. /\ InPhase("fulfilled")' = InPhase("fulfilled")
          /\ InPhase("rejected")' = InPhase("rejected")
      <4>1. phase' = phase \/ phase[b] = "requesting"
        BY <2>3 DEF HecAccepts, LateArrival, flightVars
      <4> QED
        BY <1>0, <3>1, <4>1 DEF InPhase
    <3>3. b \in 1..flushes
      BY <1>0, <3>1, ConfigAssumption DEF FlightInv, Handle
    <3>4. /\ MsgsOf(received)' = MsgsOf(received) \cup MsgsOf({b})
          /\ Confirmed' = Confirmed /\ Abandoned' = Abandoned
      <4> DEFINE R == received \cup {b}
      <4>1. R \subseteq 1..flushes /\ received' = R
        BY <1>1, <3>1, <3>3
      <4> HIDE DEF R
      <4>2. MsgsOf(received)' = MsgsOf(R) /\ Confirmed' = Confirmed /\ Abandoned' = Abandoned
        BY <1>0, <1>1, <3>2, <4>1, MsgsAfter DEF Confirmed, Abandoned
      <4> QED
        BY <4>2, MsgsOfUnion DEF R
    <3>5. MsgsOf({b}) \in SUBSET (1..pushed)
      BY <1>0, <3>3, CarriedIsAccepted
    <3>6. Delivery!Receive(MsgsOf({b}))
      BY <2>1, <3>4, <3>5 DEF Delivery!Receive, Confirmed, Abandoned
    <3> QED
      BY <3>5, <3>6 DEF Delivery!Next
  <2>4. CASE ResponseOk(b)
    <3>1. /\ phase[b] = "accepted" /\ received' = received
          /\ phase' = [phase EXCEPT ![b] = "fulfilled"]
      BY <2>4 DEF ResponseOk, Goto, hecVars
    <3>2. /\ InPhase("fulfilled")' = InPhase("fulfilled") \cup {b}
          /\ InPhase("rejected")' = InPhase("rejected")
      BY <1>0, <3>1 DEF InPhase
    <3>3. b \in 1..flushes /\ b \in received
      BY <1>0, <3>1, ConfigAssumption DEF FlightInv, Handle
    <3>4. /\ MsgsOf(received)' = MsgsOf(received)
          /\ Confirmed' = Confirmed \cup MsgsOf({b}) /\ Abandoned' = Abandoned
      <4> DEFINE F == InPhase("fulfilled") \cup {b}
      <4>1. F \subseteq 1..flushes /\ InPhase("fulfilled")' = F
        BY <1>1, <3>2, <3>3
      <4> HIDE DEF F
      <4>2. MsgsOf(received)' = MsgsOf(received) /\ Confirmed' = MsgsOf(F) /\ Abandoned' = Abandoned
        BY <1>0, <1>1, <3>1, <3>2, <4>1, MsgsAfter DEF Abandoned
      <4> QED
        BY <4>2, MsgsOfUnion DEF F, Confirmed
    <3>5. MsgsOf({b}) \subseteq MsgsOf(received)
      BY <3>3 DEF MsgsOf
    <3>6. Delivery!Confirm(MsgsOf({b}))
      BY <2>1, <2>2, <3>1, <3>4, <3>5
         DEF Delivery!Confirm, Confirmed, Abandoned, InFlight, Posted
    <3>7. MsgsOf({b}) \in SUBSET (1..pushed)
      BY <1>0, <3>3, CarriedIsAccepted
    <3> QED
      BY <3>6, <3>7 DEF Delivery!Next
  <2>5. ASSUME Goto(b, "rejected"), phase[b] \in InFlight, received' = received
        PROVE  Delivery!Next
    <3>1. phase' = [phase EXCEPT ![b] = "rejected"]
      BY <2>5 DEF Goto
    <3>2. /\ InPhase("fulfilled")' = InPhase("fulfilled")
          /\ InPhase("rejected")' = InPhase("rejected") \cup {b}
      BY <1>0, <2>5, <3>1 DEF InPhase, InFlight, Posted
    <3>3. b \in 1..flushes
      BY <1>0, <2>5, ConfigAssumption DEF FlightInv, Handle, InFlight, Posted
    <3>4. /\ MsgsOf(received)' = MsgsOf(received)
          /\ Confirmed' = Confirmed /\ Abandoned' = Abandoned \cup MsgsOf({b})
      <4> DEFINE A == InPhase("rejected") \cup {b}
      <4>1. A \subseteq 1..flushes /\ InPhase("rejected")' = A
        BY <1>1, <3>2, <3>3
      <4> HIDE DEF A
      <4>2. MsgsOf(received)' = MsgsOf(received) /\ Confirmed' = Confirmed /\ Abandoned' = MsgsOf(A)
        BY <1>0, <1>1, <2>5, <3>2, <4>1, MsgsAfter DEF Confirmed
      <4> QED
        BY <4>2, MsgsOfUnion DEF A, Abandoned
    <3>5. ~active \/ Gzip
      <4>1. phase'[b] = "rejected" /\ active' = active
        BY <1>0, <2>1, <3>1
      <4> QED
        BY <4>1 DEF FlightInv
    <3>6. Delivery!Abandon(MsgsOf({b}))
      BY <2>1, <2>2, <2>5, <3>4, <3>5 DEF Delivery!Abandon, Confirmed, Abandoned
    <3>7. MsgsOf({b}) \in SUBSET (1..pushed)
      BY <1>0, <3>3, CarriedIsAccepted
    <3> QED
      BY <3>6, <3>7 DEF Delivery!Next
  <2>6. ASSUME NEW p \in {"requesting", "failed", "waiting"}, Goto(b, p),
               phase[b] \in InFlight, received' = received
        PROVE  UNCHANGED Delivery!vars
    <3>1. \A h \in Handle : \A q \in Settled : phase'[h] = q <=> phase[h] = q
      BY <1>0, <2>6 DEF Goto, InFlight, Posted, Settled
    <3> QED
      BY <1>2, <2>1, <2>6, <3>1 DEF Delivery!vars, Confirmed, Abandoned
  <2>7. CASE CompressDone(b)
    <3>1. \/ Goto(b, "failed")
          \/ Goto(b, "requesting")
      BY <2>7 DEF CompressDone, BeginAttempt
    <3>2. phase[b] \in InFlight /\ received' = received
      BY <2>7 DEF CompressDone, InFlight, hecVars
    <3> QED
      BY <2>6, <3>1, <3>2
  <2>8. CASE CompressFails(b)
    BY <2>5, <2>8 DEF CompressFails, InFlight, hecVars
  <2>9. CASE RequestFails(b)
    BY <2>6, <2>9 DEF RequestFails, InFlight
  <2>10. CASE HandleFailure(b) \/ WakeUp(b)
    <3>1. Goto(b, "rejected") \/ Goto(b, "waiting") \/ Goto(b, "requesting")
      BY <2>10 DEF HandleFailure, WakeUp, BeginAttempt
    <3>2. phase[b] \in InFlight /\ received' = received
      BY <2>10 DEF HandleFailure, WakeUp, InFlight, hecVars
    <3> QED
      BY <2>5, <2>6, <3>1, <3>2
  <2>11. CASE RemoveFromActive(b)
    BY <1>2, <2>1, <2>11 DEF RemoveFromActive, hecVars, Delivery!vars, Confirmed, Abandoned
  <2> QED
    BY <1>7, <2>3, <2>4, <2>7, <2>8, <2>9, <2>10, <2>11 DEF FlightStep
<1>8. ASSUME NEW c \in Calls, CallStep(c)
      PROVE  Delivery!Next \/ UNCHANGED Delivery!vars
  <2>1. received' = received /\ pushed' = pushed
    BY <1>8 DEF CallStep, CallFlush, CallTimedShutdown, CallShutdown,
                FlushSettles, DrainEnds, DrainFails, queueVars, hecVars, pushed
  <2>2. CASE CallFlush(c)
    BY <1>4, <2>1, <2>2
       DEF CallFlush, AwaitFlush, Delivery!vars, Confirmed, Abandoned
  <2>3. CASE CallTimedShutdown(c)
    <3>1. UNCHANGED <<MsgsOf(received), Confirmed, Abandoned>> /\ ~active'
      BY <1>4, <2>1, <2>3 DEF CallTimedShutdown, AwaitFlush
    <3>2. Delivery!Close
      BY <2>1, <3>1 DEF Delivery!Close, Confirmed, Abandoned
    <3> QED
      BY <3>2 DEF Delivery!Next
  <2>4. ASSUME Cancel(activeFlushing)
        PROVE  UNCHANGED <<MsgsOf(received), Confirmed, Abandoned>>
    <3>1. \A b \in Handle : \A p \in Settled : phase'[b] = p <=> phase[b] = p
      BY <2>4 DEF Cancel, Settled, Posted
    <3> QED
      BY <1>2, <2>1, <3>1
  <2>5. CASE CallShutdown(c)
    <3>1. Delivery!Close
      BY <2>1, <2>4, <2>5 DEF CallShutdown, Delivery!Close, Confirmed, Abandoned
    <3> QED
      BY <3>1 DEF Delivery!Next
  <2>6. CASE DrainEnds(c)
    BY <2>1, <2>4, <2>6
       DEF DrainEnds, queueVars, Delivery!vars, Confirmed, Abandoned
  <2>7. CASE FlushSettles(c) \/ DrainFails(c)
    BY <1>2, <2>1, <2>7
       DEF FlushSettles, DrainFails, queueVars, flightVars, Delivery!vars,
           Confirmed, Abandoned
  <2> QED
    BY <1>8, <2>2, <2>3, <2>5, <2>6, <2>7 DEF CallStep
<1>9. CASE UNCHANGED vars
  BY <1>2, <1>9
     DEF vars, queueVars, flightVars, hecVars, pushed, Delivery!vars, Confirmed, Abandoned
<1>10. (\E n \in Lengths : PushFits(n) \/ PushOverflows(n)) => Delivery!Next
  BY <1>5 DEF Delivery!Next
<1> QED
  BY <1>6, <1>7, <1>8, <1>9, <1>10 DEF Next, Push

\* The queueing, batching and retrying client implements the abstract delivery:
\* nothing is dropped before a shutdown unless gzip fails, nothing is reported
\* delivered that HEC does not have.
THEOREM ClientImplementsDelivery == Spec => ImplementsDelivery
<1>1. Init => Delivery!Init
  <2> SUFFICES ASSUME Init PROVE Delivery!Init
    OBVIOUS
  <2>1. pushed = 0
    BY DEF Init, pushed
  <2>2. /\ received = {} /\ InPhase("fulfilled") = {} /\ InPhase("rejected") = {}
        /\ active
    BY DEF Init, InPhase
  <2> QED
    BY <2>1, <2>2 DEF Delivery!Init, MsgsOf
<1>2. Spec => []IInv
  BY Invariance
<1>3. IInv => FlightInv
  BY DEF IInv
<1> QED
  BY <1>1, <1>2, <1>3, DeliveryStep, PTL DEF Spec, ImplementsDelivery, Delivery!Spec
------------------------------------------------------------------------------
\* The entry limit needs that a queue that is flushed keeps to it.
LEMMA EntriesStep ==
  TypeInv /\ EntriesWithinLimit /\ [Next]_vars => EntriesWithinLimit'
<1> SUFFICES ASSUME TypeInv, EntriesWithinLimit, [Next]_vars, MaxQueueEntries # -1
             PROVE  /\ Len(queue') <= MaxQueueEntries
                    /\ \A b \in 1..flushes' : Len(batch'[b]) <= MaxQueueEntries + 1
  BY DEF EntriesWithinLimit
<1>0. /\ MaxQueueEntries \in Nat /\ flushes \in Nat
      /\ queue \in Seq(Msg) /\ Len(queue) \in Nat /\ Len(queue) <= MaxQueueEntries
      /\ (queue # <<>> => Len(queue) > 0)
      /\ \A b \in 1..flushes : Len(batch[b]) <= MaxQueueEntries + 1
      /\ batch \in [Handle -> Seq(Msg)] /\ pushed \in Nat
      /\ TypeOK /\ FlightsBounded
  BY ConfigAssumption, LengthsAreNat DEF TypeInv, TypeOK, EntriesWithinLimit
<1>1. ASSUME NEW msgs, Launch(msgs), Len(msgs) \in Nat, Len(msgs) <= MaxQueueEntries + 1,
             flushes < MaxPushes
      PROVE  \A b \in 1..flushes' : Len(batch'[b]) <= MaxQueueEntries + 1
  <2>1. flushes' = flushes + 1 /\ batch' = [batch EXCEPT ![flushes + 1] = msgs]
    BY <1>1 DEF Launch
  <2>2. flushes + 1 \in Handle /\ \A b \in 1..flushes' : b \in 1..flushes \/ b = flushes + 1
    BY <1>0, <1>1, <2>1, ConfigAssumption DEF Handle
  <2>3. \A b \in 1..flushes : b \in Handle /\ b # flushes + 1
    BY <1>0, <1>1, ConfigAssumption DEF Handle
  <2> QED
    BY <1>0, <1>1, <2>1, <2>2, <2>3
<1>2. ASSUME NEW n \in Lengths, PushFits(n)
      PROVE  /\ Len(queue') <= MaxQueueEntries
             /\ \A b \in 1..flushes' : Len(batch'[b]) <= MaxQueueEntries + 1
  <2> DEFINE appended == Append(queue, pushed + 1)
  <2>1. flushes < MaxPushes /\ pushed + 1 \in Msg
    BY <1>0, <1>2, ConfigAssumption DEF PushFits, FlightsBounded, Msg
  <2>2. Len(appended) = Len(queue) + 1
    BY <1>0, <2>1
  <2>3. CASE EntriesExceeded(Len(appended))
    <3>1. Launch(appended) /\ queue' = <<>> /\ Len(queue') = 0
      BY <1>2, <2>3 DEF PushFits, ResetQueue
    <3> HIDE DEF appended
    <3> QED
      BY <1>0, <1>1, <2>1, <2>2, <3>1
  <2>4. CASE ~EntriesExceeded(Len(appended))
    <3>1. queue' = appended /\ batch' = batch /\ flushes' = flushes
      BY <1>2, <2>4 DEF PushFits, flightVars
    <3>2. Len(appended) <= MaxQueueEntries
      BY <1>0, <2>2, <2>4 DEF EntriesExceeded
    <3> QED
      BY <1>0, <3>1, <3>2
  <2> QED
    BY <2>3, <2>4
<1>3. ASSUME NEW n \in Lengths, PushOverflows(n)
      PROVE  /\ Len(queue') <= MaxQueueEntries
             /\ \A b \in 1..flushes' : Len(batch'[b]) <= MaxQueueEntries + 1
  <2>1. /\ flushes < MaxPushes /\ Launch(queue) /\ queue # <<>>
        /\ queue' = <<pushed + 1>> /\ Len(queue') = 1
    BY <1>0, <1>3, ConfigAssumption DEF PushOverflows, FlightsBounded
  <2> QED
    BY <1>0, <1>1, <2>1
<1>4. ASSUME FlushInternal
      PROVE  /\ Len(queue') <= MaxQueueEntries
             /\ \A b \in 1..flushes' : Len(batch'[b]) <= MaxQueueEntries + 1
  <2>1. queue' = <<>> /\ Len(queue') = 0
    BY <1>4 DEF FlushInternal, ResetQueue
  <2>2. CASE queue = <<>>
    BY <1>0, <1>4, <2>1, <2>2 DEF FlushInternal, flightVars
  <2>3. CASE queue # <<>>
    <3>1. flushes < MaxPushes /\ Launch(queue)
      BY <1>0, <1>4, <2>3, ConfigAssumption, LengthsAreNat DEF FlushInternal, FlightsBounded
    <3> QED
      BY <1>0, <1>1, <2>1, <3>1
  <2> QED
    BY <2>2, <2>3
<1>5. CASE queue' = queue /\ batch' = batch /\ flushes' = flushes
  BY <1>0, <1>5
<1>6. ASSUME NEW b \in Handle, FlightStep(b)
      PROVE  queue' = queue /\ batch' = batch /\ flushes' = flushes
  BY <1>6 DEF FlightStep, CompressDone, CompressFails, HecAccepts, LateArrival,
              Arrives, ResponseOk,
              RequestFails, HandleFailure, WakeUp, RemoveFromActive,
              StaysInFlight, queueVars, flightVars
<1>7. ASSUME NEW c \in Calls, CallStep(c)
      PROVE  FlushInternal \/ (queue' = queue /\ batch' = batch /\ flushes' = flushes)
  BY <1>7 DEF CallStep, CallFlush, CallTimedShutdown, AwaitFlush, CallShutdown,
              FlushSettles, DrainEnds, DrainFails, Cancel, queueVars, flightVars
<1>8. CASE UNCHANGED vars
  BY <1>5, <1>8 DEF vars, queueVars, flightVars
<1>9. CASE TimerFires
  BY <1>4, <1>9 DEF TimerFires
<1> QED
  BY <1>2, <1>3, <1>4, <1>5, <1>6, <1>7, <1>8, <1>9 DEF Next, Push

\* Neither the queue nor a batch outgrows the configured number of entries by
\* more than the message that triggers the flush.
THEOREM EntriesStayWithinLimit == Spec => []EntriesWithinLimit
<1>1. Init => EntriesWithinLimit
  <2> SUFFICES ASSUME Init PROVE EntriesWithinLimit
    OBVIOUS
  <2>1. Len(queue) = 0 /\ flushes = 0
    BY DEF Init
  <2> QED
    BY <2>1, ConfigAssumption DEF EntriesWithinLimit
<1> QED
  BY <1>1, EntriesStep, TypeInvariance, PTL DEF Spec
------------------------------------------------------------------------------
(***************************************************************************)
(* The size of a request body.  SizeOf is recursive, so what it does at    *)
(* the end of a list is shown by induction.                                *)
(***************************************************************************)
\* A set of natural numbers that is not empty has a least element.
LEMMA LeastNatural ==
  ASSUME NEW S, S \subseteq Nat, S # {}
  PROVE  \E n \in S : \A m \in S : ~(m < n)
<1>1. \E x \in S : \A y \in S : ~ (<<y, x>> \in OpToRel(<, Nat))
  BY NatLessThanWellFounded, WFMin
<1> QED BY <1>1 DEF OpToRel

\* Induction, of a property given as the set of the numbers that have it.
LEMMA SetInduction ==
  ASSUME NEW S, 0 \in S, \A n \in Nat : n \in S => n + 1 \in S
  PROVE  Nat \subseteq S
<1> SUFFICES ASSUME Nat \ S # {} PROVE FALSE
  OBVIOUS
<1>1. PICK n \in Nat \ S : \A m \in Nat \ S : ~(m < n)
  BY LeastNatural
<1>2. n - 1 \in Nat
  BY <1>1
<1> QED BY <1>1, <1>2

\* g is upTo of SizeOf on the first n messages.
Sums(g, msgs, size, n) ==
  g = [i \in 0..n |-> IF i = 0 THEN 0 ELSE g[i - 1] + size[msgs[i]]]

\* The recursion in SizeOf has a solution.
LEMMA SumsExist ==
  ASSUME NEW msgs, NEW size, NEW n \in Nat
  PROVE  \E g : Sums(g, msgs, size, n)
<1> DEFINE S == {k \in Nat : \E g : Sums(g, msgs, size, k)}
<1>1. 0 \in S
  <2>1. Sums([i \in 0..0 |-> 0], msgs, size, 0)
    BY DEF Sums
  <2> QED BY <2>1
<1>2. ASSUME NEW k \in Nat, k \in S PROVE k + 1 \in S
  <2>1. PICK g : Sums(g, msgs, size, k)
    BY <1>2
  <2> DEFINE h == [i \in 0..(k + 1) |-> IF i = k + 1 THEN g[k] + size[msgs[k + 1]] ELSE g[i]]
  <2>2. Sums(h, msgs, size, k + 1)
    <3>1. \A i \in 0..k : h[i] = g[i]
      OBVIOUS
    <3>2. h = [i \in 0..(k + 1) |-> IF i = 0 THEN 0 ELSE h[i - 1] + size[msgs[i]]]
      <4> SUFFICES ASSUME NEW i \in 0..(k + 1) 
            PROVE h[i] = IF i = 0 THEN 0 ELSE h[i - 1] + size[msgs[i]]
        BY Zenon
      <4>1. CASE i = k + 1
        BY <3>1, <4>1
      <4>2. CASE i \in 0..k
        BY <2>1, <3>1, <4>2 DEF Sums
      <4> QED BY <4>1, <4>2
    <3> QED BY <3>2 DEF Sums
  <2> QED BY <2>2
<1>3. n \in S
  <2> HIDE DEF S
  <2> QED BY <1>1, <1>2, SetInduction
<1> QED BY <1>3

\* Solutions agree as far as their messages weigh the same.
LEMMA SumsAgree ==
  ASSUME NEW msgs, NEW size, NEW n \in Nat, NEW g, Sums(g, msgs, size, n),
         NEW others, NEW weight, NEW m \in Nat, NEW h, Sums(h, others, weight, m),
         n <= m, \A i \in 1..n : size[msgs[i]] = weight[others[i]]
  PROVE  g[n] = h[n]
<1> DEFINE S == {k \in Nat : k <= n => g[k] = h[k]}
<1>1. 0 \in S
  BY DEF Sums
<1>2. ASSUME NEW k \in Nat, k \in S PROVE k + 1 \in S
  <2> SUFFICES ASSUME k + 1 <= n PROVE g[k + 1] = h[k + 1]
    OBVIOUS
  <2>1. /\ g[k + 1] = g[k] + size[msgs[k + 1]] /\ h[k + 1] = h[k] + weight[others[k + 1]]
    BY DEF Sums
  <2> QED BY <1>2, <2>1
<1>3. Nat \subseteq S
  <2> HIDE DEF S
  <2> QED BY <1>1, <1>2, SetInduction
<1> QED BY <1>3

\* SizeOf is the last value of a solution.
LEMMA SizeOfSums ==
  ASSUME NEW msgs, NEW size, Len(msgs) \in Nat
  PROVE  \E g : Sums(g, msgs, size, Len(msgs)) /\ SizeOf(msgs, size) = g[Len(msgs)]
<1>1. PICK g : Sums(g, msgs, size, Len(msgs))
  BY SumsExist
<1> DEFINE upTo == CHOOSE f : Sums(f, msgs, size, Len(msgs))
<1>2. Sums(upTo, msgs, size, Len(msgs))
  BY <1>1
<1>3. SizeOf(msgs, size) = upTo[Len(msgs)]
  BY DEF SizeOf, Sums
<1> QED BY <1>2, <1>3

\* Nothing weighs nothing.
LEMMA SizeOfEmpty ==
  ASSUME NEW size
  PROVE  SizeOf(<<>>, size) = 0
<1>1. PICK g : Sums(g, <<>>, size, 0) /\ SizeOf(<<>>, size) = g[0]
  BY SizeOfSums
<1> QED
  BY <1>1 DEF Sums

\* A list weighs the same for sizes that agree on its messages.
LEMMA SizeOfSame ==
  ASSUME NEW msgs, NEW size, NEW weight, Len(msgs) \in Nat,
         \A i \in 1..Len(msgs) : size[msgs[i]] = weight[msgs[i]]
  PROVE  SizeOf(msgs, size) = SizeOf(msgs, weight)
<1>1. PICK g : Sums(g, msgs, size, Len(msgs)) /\ SizeOf(msgs, size) = g[Len(msgs)]
  BY SizeOfSums
<1>2. PICK h : Sums(h, msgs, weight, Len(msgs)) /\ SizeOf(msgs, weight) = h[Len(msgs)]
  BY SizeOfSums
<1>3. Len(msgs) <= Len(msgs)
  OBVIOUS
<1>4. g[Len(msgs)] = h[Len(msgs)]
  BY <1>1, <1>2, <1>3, SumsAgree, SMTT(20)
<1> QED
  BY <1>1, <1>2, <1>4

\* An appended message adds its size.
LEMMA SizeOfAppend ==
  ASSUME NEW T, NEW msgs \in Seq(T), NEW m \in T, NEW size
  PROVE  SizeOf(Append(msgs, m), size) = SizeOf(msgs, size) + size[m]
<1> DEFINE longer == Append(msgs, m)
           n == Len(msgs)
<1>1. /\ n \in Nat /\ Len(longer) = n + 1 /\ longer[n + 1] = m
      /\ \A i \in 1..n : longer[i] = msgs[i]
  OBVIOUS
<1>2. PICK g : Sums(g, msgs, size, n) /\ SizeOf(msgs, size) = g[n]
  BY <1>1, SizeOfSums
<1>3. PICK h : Sums(h, longer, size, n + 1) /\ SizeOf(longer, size) = h[n + 1]
  <2> HIDE DEF longer, n
  <2> QED BY <1>1, SizeOfSums
<1> HIDE DEF longer, n
<1>4. g[n] = h[n]
  <2>1. n \in Nat /\ n + 1 \in Nat /\ n <= n + 1
    BY <1>1
  <2>2. \A i \in 1..n : size[msgs[i]] = size[longer[i]]
    BY <1>1
  <2> QED
    BY <1>2, <1>3, <2>1, <2>2, SumsAgree, SMTT(20)
<1>5. h[n + 1] = h[n] + size[m]
  BY <1>1, <1>3 DEF Sums
<1> QED
  BY <1>1, <1>2, <1>3, <1>4, <1>5 DEF longer, n

\* Only a message that is alone in the queue may exceed the limit.
QueueFits == Len(queue) <= 1 \/ queueSizeBytes <= MaxQueueSize

BodiesInv == BodiesWithinSizeLimit /\ QueueFits

\* Messages that were accepted keep their size.
LEMMA SizesKept ==
  ASSUME TypeInv, NEW msgs \in Seq(Msg),
         \A i \in 1..Len(msgs) : msgs[i] \in 1..pushed,
         length' = length \/ \E n \in Lengths : length' = Append(length, n)
  PROVE  SizeOf(msgs, length') = SizeOf(msgs, length)
<1>1. \A m \in 1..pushed : length'[m] = length[m]
  <2>1. length \in Seq(Lengths)
    BY DEF TypeInv, TypeOK
  <2> QED
    BY <2>1 DEF pushed
<1>2. Len(msgs) \in Nat
  OBVIOUS
<1> QED
  BY <1>1, <1>2, SizeOfSame

\* Every step keeps the sum right and the bodies within the limit.
LEMMA BodiesStep == TypeInv /\ QueueInv /\ BodiesInv /\ [Next]_vars => BodiesInv'
<1> SUFFICES ASSUME TypeInv, QueueInv, BodiesInv, [Next]_vars PROVE BodiesInv'
  OBVIOUS
<1> DEFINE Kept == length' = length \/ \E n \in Lengths : length' = Append(length, n)
           Fits(msgs) == Len(msgs) = 1 \/ SizeOf(msgs, length') <= MaxQueueSize
<1>0. /\ queue \in Seq(Msg) /\ Len(queue) \in Nat
      /\ queue # <<>> => Len(queue) > 0
      /\ pushed \in Nat /\ pushed <= MaxPushes
      /\ flushes \in Nat /\ flushes + Len(queue) <= pushed
      /\ length \in Seq(Lengths)
      /\ queueSizeBytes \in Nat /\ MaxQueueSize \in Nat /\ MaxPushes \in Nat
  BY LengthsAreNat, ConfigAssumption DEF TypeInv, TypeOK, FlightsBounded
<1>1. /\ queueSizeBytes = SizeOf(queue, length)
      /\ \A b \in 1..flushes :
           /\ b \in Handle
           /\ batch[b] \in Seq(Msg)
           /\ Len(batch[b]) = 1 \/ SizeOf(batch[b], length) <= MaxQueueSize
  <2>1. batch \in [Handle -> Seq(Msg)] /\ \A b \in 1..flushes : b \in Handle
    BY <1>0 DEF TypeInv, TypeOK, Handle
  <2> QED
    BY <2>1 DEF BodiesInv, BodiesWithinSizeLimit, Bytes
<1>2. ASSUME Kept
      PROVE  /\ SizeOf(queue, length') = queueSizeBytes
             /\ \A b \in 1..flushes : Fits(batch[b])
  <2>1. \A i \in 1..Len(queue) : queue[i] \in 1..pushed
    BY <1>0 DEF QueueInv, QueueHoldsTail
  <2>2. ASSUME NEW b \in 1..flushes
        PROVE  \A i \in 1..Len(batch[b]) : batch[b][i] \in 1..pushed
    <3>1. \A i \in 1..Len(batch[b]) : batch[b][i] \in 1..flushedCount
      BY DEF QueueInv, BatchesPrecedeQueue
    <3>2. flushedCount \in Int /\ flushedCount <= pushed
      BY <1>0 DEF flushedCount
    <3> QED
      BY <1>0, <3>1, <3>2
  <2>3. SizeOf(queue, length') = SizeOf(queue, length)
    BY <1>0, <1>2, <2>1, SizesKept
  <2>4. ASSUME NEW b \in 1..flushes
        PROVE  SizeOf(batch[b], length') = SizeOf(batch[b], length)
    <3>1. batch[b] \in Seq(Msg)
      BY <1>1
    <3>2. \A i \in 1..Len(batch[b]) : batch[b][i] \in 1..pushed
      BY <2>2
    <3> QED
      BY <1>2, <3>1, <3>2, SizesKept
  <2> QED
    BY <1>1, <2>3, <2>4
<1>3. ASSUME Kept, NEW msgs, Launch(msgs), flushes < MaxPushes, Fits(msgs)
      PROVE  \A b \in 1..flushes' : Fits(batch'[b])
  <2>1. /\ flushes' = flushes + 1 /\ batch' = [batch EXCEPT ![flushes + 1] = msgs]
        /\ batch \in [Handle -> Seq(Msg)]
    BY <1>3 DEF Launch, TypeInv, TypeOK
  <2>2. flushes + 1 \in Handle
    BY <1>0, <1>3 DEF Handle
  <2>3. SUFFICES ASSUME NEW b \in 1..flushes' PROVE Fits(batch'[b])
    OBVIOUS
  <2>4. CASE b = flushes + 1
    <3>1. batch'[b] = msgs
      BY <2>1, <2>2, <2>4
    <3> QED
      BY <1>3, <3>1
  <2>5. CASE b # flushes + 1
    <3>1. b \in 1..flushes
      BY <1>0, <2>1, <2>5
    <3>2. batch'[b] = batch[b]
      BY <1>1, <2>1, <2>5, <3>1
    <3> QED
      BY <1>2, <1>3, <3>1, <3>2
  <2> QED
    BY <2>4, <2>5
<1>4. ASSUME \A b \in 1..flushes' : Fits(batch'[b]),
             queueSizeBytes' = SizeOf(queue', length'), QueueFits'
      PROVE  BodiesInv'
  BY <1>4 DEF BodiesInv, BodiesWithinSizeLimit, Bytes
<1>5. ASSUME UNCHANGED <<queue, queueSizeBytes, length, batch, flushes>> PROVE BodiesInv'
  BY <1>5 DEF BodiesInv, BodiesWithinSizeLimit, Bytes, QueueFits
<1>6. ASSUME queue # <<>> PROVE Len(queue) = 1 \/ queueSizeBytes <= MaxQueueSize
  <2>1. Len(queue) <= 1 \/ queueSizeBytes <= MaxQueueSize
    BY DEF BodiesInv, QueueFits
  <2>2. Len(queue) \in Nat /\ Len(queue) > 0
    BY <1>0, <1>6
  <2> QED
    BY <2>1, <2>2
<1> HIDE DEF Kept, Fits
<1>7. ASSUME queue # <<>>, Kept PROVE Fits(queue)
  BY <1>2, <1>6, <1>7 DEF Fits
<1>8. ASSUME FlushInternal, UNCHANGED length PROVE BodiesInv'
  <2>1. queue' = <<>> /\ queueSizeBytes' = 0 /\ Kept
    BY <1>8 DEF FlushInternal, ResetQueue, Kept
  <2>2. queueSizeBytes' = SizeOf(queue', length') /\ QueueFits'
    BY <1>0, <2>1, SizeOfEmpty DEF QueueFits
  <2>3. CASE queue = <<>>
    <3>1. UNCHANGED <<batch, flushes>>
      BY <1>8, <2>3 DEF FlushInternal, flightVars
    <3> QED
      BY <1>2, <1>4, <2>1, <2>2, <3>1
  <2>4. CASE queue # <<>>
    <3>1. Launch(queue) /\ flushes < MaxPushes
      BY <1>0, <1>8, <2>4 DEF FlushInternal
    <3>2. \A b \in 1..flushes' : Fits(batch'[b])
      BY <1>3, <1>7, <2>1, <2>4, <3>1
    <3> QED
      BY <1>4, <2>2, <3>2
  <2> QED
    BY <2>3, <2>4
<1>9. ASSUME NEW n \in Lengths, PushFits(n) PROVE BodiesInv'
  <2> DEFINE m == pushed + 1
             appended == Append(queue, m)
  <2>1. /\ length' = Append(length, n) /\ pushed < MaxPushes /\ n \in Nat
        /\ queueSizeBytes + n <= MaxQueueSize \/ queue = <<>>
    BY <1>9, ConfigAssumption DEF PushFits
  <2>2. Kept
    BY <2>1 DEF Kept
  <2>3. m \in Msg /\ length'[m] = n
    BY <1>0, <2>1 DEF Msg, pushed
  <2>4. SizeOf(appended, length') = queueSizeBytes + n
    BY <1>0, <1>2, <2>2, <2>3, SizeOfAppend
  <2>5. Len(appended) = 1 \/ queueSizeBytes + n <= MaxQueueSize
    BY <1>0, <2>1
  <2>6. CASE EntriesExceeded(Len(appended))
    <3>1. Launch(appended) /\ queue' = <<>> /\ queueSizeBytes' = 0
      BY <1>9, <2>6 DEF PushFits, ResetQueue
    <3>2. flushes < MaxPushes /\ Fits(appended)
      BY <1>0, <2>1, <2>4, <2>5 DEF Fits
    <3>3. \A b \in 1..flushes' : Fits(batch'[b])
      <4> HIDE DEF appended
      <4> QED BY <1>3, <2>2, <3>1, <3>2
    <3> QED
      BY <1>0, <1>4, <3>1, <3>3, SizeOfEmpty DEF QueueFits
  <2>7. CASE ~EntriesExceeded(Len(appended))
    <3>1. /\ queue' = appended /\ queueSizeBytes' = queueSizeBytes + n
          /\ UNCHANGED <<batch, flushes>>
      BY <1>9, <2>7 DEF PushFits, flightVars
    <3>2. queueSizeBytes' = SizeOf(queue', length') /\ QueueFits'
      <4> HIDE DEF appended
      <4>1. queueSizeBytes' = SizeOf(queue', length')
        BY <2>4, <3>1
      <4>2. Len(queue') <= 1 \/ queueSizeBytes' <= MaxQueueSize
        <5>1. Len(appended) = 1 => Len(appended) <= 1
          OBVIOUS
        <5> QED
          BY <2>5, <3>1, <5>1, Zenon
      <4> QED
        BY <4>1, <4>2 DEF QueueFits
    <3> QED
      BY <1>2, <1>4, <2>2, <3>1, <3>2
  <2> QED
    BY <2>6, <2>7
<1>10. ASSUME NEW n \in Lengths, PushOverflows(n) PROVE BodiesInv'
  <2> DEFINE m == pushed + 1
  <2>1. /\ length' = Append(length, n) /\ pushed < MaxPushes /\ n \in Nat
        /\ queue # <<>> /\ Launch(queue)
        /\ queue' = <<m>> /\ queueSizeBytes' = n
    BY <1>10, ConfigAssumption DEF PushOverflows
  <2>2. Kept
    BY <2>1 DEF Kept
  <2>3. m \in Msg /\ length'[m] = n
    BY <1>0, <2>1 DEF Msg, pushed
  <2>4. SizeOf(<<m>>, length') = n
    <3>1. <<>> \in Seq(Msg) /\ Append(<<>>, m) = <<m>>
      BY <2>3
    <3>2. SizeOf(Append(<<>>, m), length') = SizeOf(<<>>, length') + length'[m]
      BY <2>3, <3>1, SizeOfAppend
    <3> QED
      BY <2>1, <2>3, <3>1, <3>2, SizeOfEmpty
  <2>5. QueueFits'
    BY <2>1 DEF QueueFits
  <2>6. \A b \in 1..flushes' : Fits(batch'[b])
    BY <1>0, <1>3, <1>7, <2>1, <2>2
  <2> QED
    BY <1>4, <2>1, <2>4, <2>5, <2>6
<1>11. ASSUME NEW b \in Handle, FlightStep(b) PROVE BodiesInv'
  BY <1>5, <1>11
     DEF FlightStep, CompressDone, CompressFails, HecAccepts, LateArrival,
     Arrives, ResponseOk,
         RequestFails, HandleFailure, WakeUp, RemoveFromActive, StaysInFlight, queueVars, flightVars
<1>12. ASSUME NEW c \in Calls, CallStep(c) PROVE BodiesInv'
  BY <1>5, <1>8, <1>12
     DEF CallStep, CallFlush, CallTimedShutdown, AwaitFlush, CallShutdown,
         FlushSettles, DrainEnds, DrainFails, Cancel, queueVars, flightVars
<1>13. CASE UNCHANGED vars
  BY <1>5, <1>13 DEF vars, queueVars, flightVars
<1>14. CASE TimerFires
  BY <1>8, <1>14 DEF TimerFires
<1> QED
  BY <1>9, <1>10, <1>11, <1>12, <1>13, <1>14 DEF Next, Push

\* The size limit holds of every request body with more than one message, and
\* the queue's byte count is the sum of what is queued.
THEOREM BodiesStayWithinSizeLimit == Spec => []BodiesWithinSizeLimit
<1>1. Init => BodiesInv
  <2> SUFFICES ASSUME Init PROVE BodiesInv
    OBVIOUS
  <2>1. queue = <<>> /\ queueSizeBytes = 0 /\ flushes = 0
    BY DEF Init
  <2> QED
    BY <2>1, SizeOfEmpty DEF BodiesInv, BodiesWithinSizeLimit, Bytes, QueueFits
<1>2. BodiesInv => BodiesWithinSizeLimit
  BY DEF BodiesInv
<1> QED
  BY <1>1, <1>2, BodiesStep, QueueInvariance, PTL DEF Spec
==============================================================================
