------------------------------ MODULE HecClient ------------------------------
(***************************************************************************)
(* The batching HEC client of packages/hec-client/src/client.ts: messages  *)
(* are queued, the queue is flushed as a batch by a size limit, an entry   *)
(* limit, a timer or a caller of flush(), and each batch is a flight of    *)
(* its own (sendToHec) that is compressed, posted and retried while others *)
(* are in the air.  shutdown() stops intake, may wait for the flights for  *)
(* a limited time and then aborts those that are left.                     *)
(*                                                                         *)
(* JavaScript runs a handler to completion, so an action is the code from  *)
(* one await or callback to the next.  Messages are numbered in the order  *)
(* of their push and flights in the order of their flush.                  *)
(***************************************************************************)
EXTENDS Integers, Sequences

CONSTANTS
  MaxPushes,        \* bound: how many messages the application pushes
  Lengths,          \* the sizes a serialized message may have, in bytes
  MaxQueueSize,     \* config.maxQueueSize
  MaxQueueEntries,  \* config.maxQueueEntries, -1 for no limit
  Gzip,             \* config.gzip
  MaxRetries,       \* config.maxRetries, Infinity when not configured
  Infinity,         \* JavaScript's Infinity
  AttemptCap,       \* bound: where the attempt counter stops counting
  Calls             \* the calls of flush() and shutdown() that are made

ASSUME ConfigAssumption ==
  /\ MaxPushes \in Nat
  /\ Lengths \subseteq Nat
  /\ MaxQueueSize \in Nat
  /\ MaxQueueEntries \in Nat \cup {-1}
  /\ Gzip \in BOOLEAN

\* A counter that stops beyond MaxRetries decides `attempt <= maxRetries`
\* as the unbounded one does.
ASSUME AttemptAssumption ==
  /\ Infinity \notin Int
  /\ AttemptCap \in Nat \ {0}
  /\ MaxRetries \in Nat \cup {Infinity}
  /\ MaxRetries # Infinity => AttemptCap > MaxRetries

VARIABLES
  active,           \* whether push is allowed
  queue,            \* messages waiting for the next flush
  queueSizeBytes,   \* their total size
  flushTimer,       \* whether the flush timer is running
  length,           \* the size of each accepted message, by its number
  batch,            \* per flight: its messages
  phase,            \* per flight: where sendToHec is
  attempt,          \* per flight: the attempt counter
  aborted,          \* per flight: whether its abort signal fired
  flushes,          \* how many flights there have been
  activeFlushing,   \* the flights not yet removed after they settled
  received,         \* the flights whose batch HEC has taken in
  lingering,        \* other flights with a request that was given up on the
                    \* wire, so that HEC may still take it in
  call,             \* per caller: what its promise is doing
  waits,            \* per caller: the flights its promise waits for
  mark              \* per caller: messages accepted when it called (history)

queueVars  == <<active, queue, queueSizeBytes, flushTimer, length>>
flightVars == <<batch, phase, attempt, aborted, flushes, activeFlushing>>
hecVars    == <<received, lingering>>
callVars   == <<call, waits, mark>>
vars == <<queueVars, flightVars, hecVars, callVars>>

Msg    == 1..MaxPushes
Handle == 1..MaxPushes
pushed == Len(length)

\* Whether message m is in the batch of flight b.
Carries(b, m) == \E i \in 1..Len(batch[b]) : batch[b][i] = m

Posted    == {"requesting", "accepted"}
Settled   == {"fulfilled", "rejected"}
InFlight  == Posted \cup {"compressing", "failed", "waiting"}
CallState == {"idle", "flushing", "flushed", "flushRejected",
              "draining", "shutDown", "shutDownRejected"}

Init ==
  /\ active = TRUE
  /\ queue = <<>>
  /\ queueSizeBytes = 0
  /\ flushTimer = FALSE
  /\ length = <<>>
  /\ batch = [b \in Handle |-> <<>>]
  /\ phase = [b \in Handle |-> "unused"]
  /\ attempt = [b \in Handle |-> 0]
  /\ aborted = [b \in Handle |-> FALSE]
  /\ flushes = 0
  /\ activeFlushing = {}
  /\ received = {}
  /\ lingering = {}
  /\ call = [c \in Calls |-> "idle"]
  /\ waits = [c \in Calls |-> {}]
  /\ mark = [c \in Calls |-> 0]
------------------------------------------------------------------------------
(***************************************************************************)
(* Flushing the queue                                                      *)
(***************************************************************************)
\* sendToHec up to its first await: compressing, or the first fetch.
Launch(msgs) ==
  LET b == flushes + 1 IN
  /\ flushes' = b
  /\ batch' = [batch EXCEPT ![b] = msgs]
  /\ phase' = [phase EXCEPT ![b] = IF Gzip THEN "compressing" ELSE "requesting"]
  /\ attempt' = [attempt EXCEPT ![b] = IF Gzip THEN 0 ELSE 1]
  /\ activeFlushing' = activeFlushing \cup {b}
  /\ UNCHANGED aborted

\* Mutants: the flush leaves the timer running; the byte count as it was.
ResetQueueNotTimer == queue' = <<>> /\ queueSizeBytes' = 0 /\ UNCHANGED flushTimer
ResetQueueNotBytes == queue' = <<>> /\ flushTimer' = FALSE /\ UNCHANGED queueSizeBytes

ResetQueue ==
  /\ queue' = <<>>
  /\ queueSizeBytes' = 0
  /\ flushTimer' = FALSE

\* Mutant: the sent queue is not replaced.
FlushInternalKeeps ==
  /\ queueSizeBytes' = 0 /\ flushTimer' = FALSE /\ UNCHANGED queue
  /\ IF queue = <<>> THEN UNCHANGED flightVars ELSE Launch(queue)

FlushInternal ==
  /\ ResetQueue
  /\ IF queue = <<>> THEN UNCHANGED flightVars ELSE Launch(queue)

\* The flight flushInternal() starts, if it starts one.
Launched == IF queue = <<>> THEN {} ELSE {flushes + 1}

\* Mutant: off by one.
EntriesExceededLate(n) == MaxQueueEntries # -1 /\ n > MaxQueueEntries + 1

EntriesExceeded(n) == MaxQueueEntries # -1 /\ n > MaxQueueEntries

\* A message that fits the byte limit, or meets an empty queue (whose flush
\* does nothing), is appended; scheduleFlush() flushes it with the queue when
\* there are too many entries and otherwise sees to it that the timer runs.
PushFits(n) ==
  /\ active
  /\ pushed < MaxPushes
  /\ queueSizeBytes + n <= MaxQueueSize \/ queue = <<>>
  /\ length' = Append(length, n)
  /\ LET appended == Append(queue, pushed + 1) IN
     \/ /\ EntriesExceeded(Len(appended))
        /\ Launch(appended)
        /\ ResetQueue
     \/ /\ ~EntriesExceeded(Len(appended))
        /\ queue' = appended
        /\ queueSizeBytes' = queueSizeBytes + n
        /\ flushTimer' = TRUE
        /\ UNCHANGED flightVars
  /\ UNCHANGED <<active, hecVars, callVars>>

\* A message that would exceed the byte limit first flushes the others.  The
\* queue was not empty, so the entry limit admits at least one message.
PushOverflows(n) ==
  /\ active
  /\ pushed < MaxPushes
  /\ queueSizeBytes + n > MaxQueueSize
  /\ queue # <<>>
  /\ Launch(queue)
  /\ length' = Append(length, n)
  /\ queue' = <<pushed + 1>>
  /\ queueSizeBytes' = n
  /\ flushTimer' = TRUE
  /\ UNCHANGED <<active, hecVars, callVars>>

\* Mutant: the timer flushes only a queue that has two messages.
TimerFiresForTwo ==
  /\ flushTimer /\ Len(queue) > 1
  /\ FlushInternal
  /\ UNCHANGED <<active, length, hecVars, callVars>>

TimerFires ==
  /\ flushTimer
  /\ FlushInternal
  /\ UNCHANGED <<active, length, hecVars, callVars>>
------------------------------------------------------------------------------
(***************************************************************************)
(* sendToHec: one flight                                                   *)
(***************************************************************************)
Goto(b, p) == phase' = [phase EXCEPT ![b] = p]

StaysInFlight == UNCHANGED <<batch, aborted, flushes, activeFlushing>>

\* Mutant: the signal is not passed to fetch().
BeginAttemptUnsignalled(b) ==
  /\ attempt' = [attempt EXCEPT ![b] =
                   IF @ < AttemptCap THEN @ + 1 ELSE AttemptCap]
  /\ Goto(b, "requesting")

\* The top of the loop; fetch() rejects at once when the signal has fired.
BeginAttempt(b) ==
  /\ attempt' = [attempt EXCEPT ![b] =
                   IF @ < AttemptCap THEN @ + 1 ELSE AttemptCap]
  /\ Goto(b, IF aborted[b] THEN "failed" ELSE "requesting")

CompressDone(b) ==
  /\ phase[b] = "compressing"
  /\ BeginAttempt(b)
  /\ StaysInFlight
  /\ UNCHANGED <<queueVars, hecVars, callVars>>

\* gzip reports an error: the flight is rejected before its first attempt.
CompressFails(b) ==
  /\ phase[b] = "compressing"
  /\ Goto(b, "rejected")
  /\ StaysInFlight
  /\ UNCHANGED <<attempt, queueVars, hecVars, callVars>>

\* The batch reaches HEC, where a second copy makes no difference.
Arrives(b) ==
  /\ received' = received \cup {b}
  /\ lingering' = lingering \ {b}

\* The client gives up the requests of the flights in S; what it has sent of
\* them stays on the wire.
GiveUp(S) == lingering' = lingering \cup (S \ received)

\* A request that was given up, by a timeout or an abort, arrives all the same.
LateArrival(b) ==
  /\ b \in lingering
  /\ Arrives(b)
  /\ UNCHANGED <<queueVars, flightVars, callVars>>

\* HEC takes the batch in; its answer is on the way.
HecAccepts(b) ==
  /\ phase[b] = "requesting"
  /\ Goto(b, "accepted")
  /\ Arrives(b)
  /\ StaysInFlight
  /\ UNCHANGED <<attempt, queueVars, callVars>>

\* Mutant: the loop is not left.
ResponseOkStays(b) ==
  /\ phase[b] = "accepted"
  /\ BeginAttempt(b)
  /\ StaysInFlight
  /\ UNCHANGED <<queueVars, hecVars, callVars>>

\* fetch() resolves with a success status: the loop is left.
ResponseOk(b) ==
  /\ phase[b] = "accepted"
  /\ Goto(b, "fulfilled")
  /\ StaysInFlight
  /\ UNCHANGED <<attempt, queueVars, hecVars, callVars>>

\* An error status, a timeout or a broken connection, before HEC took the
\* batch in or after (the answer is lost).
RequestFails(b) ==
  /\ phase[b] \in Posted
  /\ Goto(b, "failed")
  /\ GiveUp({b})
  /\ StaysInFlight
  /\ UNCHANGED <<attempt, queueVars, received, callVars>>

MayRetry(b) ==
  IF MaxRetries = Infinity THEN TRUE ELSE attempt[b] <= MaxRetries

\* Mutants: a batch is given up after its last retry; an abort is not noticed.
HandleFailureGivesUp(b) ==
  /\ phase[b] = "failed"
  /\ Goto(b, IF aborted[b] \/ ~MayRetry(b) THEN "rejected" ELSE "waiting")
  /\ StaysInFlight
  /\ UNCHANGED <<attempt, queueVars, hecVars, callVars>>
HandleFailureUnaware(b) ==
  /\ phase[b] = "failed"
  /\ IF MayRetry(b) THEN Goto(b, "waiting") /\ UNCHANGED attempt
                    ELSE BeginAttempt(b)
  /\ StaysInFlight
  /\ UNCHANGED <<queueVars, hecVars, callVars>>

\* The catch block up to sleep() or its end.  When no retry is left nothing
\* leaves the loop: the next attempt begins at once.
HandleFailure(b) ==
  /\ phase[b] = "failed"
  /\ \/ /\ aborted[b]
        /\ Goto(b, "rejected")
        /\ UNCHANGED attempt
     \/ /\ ~aborted[b]
        /\ MayRetry(b)
        /\ Goto(b, "waiting")
        /\ UNCHANGED attempt
     \/ /\ ~aborted[b]
        /\ ~MayRetry(b)
        /\ BeginAttempt(b)
  /\ StaysInFlight
  /\ UNCHANGED <<queueVars, hecVars, callVars>>

\* sleep(retryDelay) is over; aborting does not cut it short.
WakeUp(b) ==
  /\ phase[b] = "waiting"
  /\ \/ /\ aborted[b]
        /\ Goto(b, "rejected")
        /\ UNCHANGED attempt
     \/ /\ ~aborted[b]
        /\ BeginAttempt(b)
  /\ StaysInFlight
  /\ UNCHANGED <<queueVars, hecVars, callVars>>

\* The first reaction of the settled promise, registered by flushInternal().
RemoveFromActive(b) ==
  /\ phase[b] \in Settled
  /\ b \in activeFlushing
  /\ activeFlushing' = activeFlushing \ {b}
  /\ UNCHANGED <<batch, phase, attempt, aborted, flushes>>
  /\ UNCHANGED <<queueVars, hecVars, callVars>>
------------------------------------------------------------------------------
(***************************************************************************)
(* flush() and shutdown()                                                  *)
(***************************************************************************)
Answer(c, s) == call' = [call EXCEPT ![c] = s]

\* Aborting rejects a pending fetch and closes its socket; the other awaits go
\* on.
Cancel(S) ==
  /\ aborted' = [b \in Handle |-> aborted[b] \/ b \in S]
  /\ phase' = [b \in Handle |->
                 IF b \in S /\ phase[b] \in Posted THEN "failed" ELSE phase[b]]
  /\ GiveUp({b \in S : phase[b] \in Posted})
  /\ UNCHANGED <<batch, attempt, flushes, activeFlushing>>

\* Mutant: only the flight of this flush is waited for.
AwaitFlushOwn(c) ==
  /\ FlushInternal
  /\ waits' = [waits EXCEPT ![c] = Launched]
  /\ mark' = [mark EXCEPT ![c] = pushed]

\* flush(): wait for every active flight and for the queue's own.
AwaitFlush(c) ==
  /\ FlushInternal
  /\ waits' = [waits EXCEPT ![c] = activeFlushing \cup Launched]
  /\ mark' = [mark EXCEPT ![c] = pushed]

CallFlush(c) ==
  /\ call[c] = "idle"
  /\ Answer(c, "flushing")
  /\ AwaitFlush(c)
  /\ UNCHANGED <<active, length, hecVars>>

\* shutdown(maxTime) with something to wait for.
CallTimedShutdown(c) ==
  /\ call[c] = "idle"
  /\ activeFlushing # {} \/ queue # <<>>
  /\ active' = FALSE
  /\ Answer(c, "draining")
  /\ AwaitFlush(c)
  /\ UNCHANGED <<length, hecVars>>

\* shutdown(), or shutdown(maxTime) with nothing to wait for: no flush.
CallShutdown(c) ==
  /\ call[c] = "idle"
  /\ active' = FALSE
  /\ Answer(c, "shutDown")
  /\ Cancel(activeFlushing)
  /\ UNCHANGED <<queue, queueSizeBytes, flushTimer, length, received, waits, mark>>

\* Promise.all: a waiting caller hears of a flight after removeFromActive.
AllFulfilled(c) ==
  \A b \in waits[c] : phase[b] = "fulfilled" /\ b \notin activeFlushing
SomeRejected(c) ==
  \E b \in waits[c] : phase[b] = "rejected" /\ b \notin activeFlushing

FlushSettles(c) ==
  /\ call[c] = "flushing"
  /\ \/ AllFulfilled(c) /\ Answer(c, "flushed")
     \/ SomeRejected(c) /\ Answer(c, "flushRejected")
  /\ UNCHANGED <<queueVars, flightVars, hecVars, waits, mark>>

\* Mutant: nothing is cancelled at the end.
DrainEndsSilently(c) ==
  /\ call[c] = "draining"
  /\ Answer(c, "shutDown")
  /\ UNCHANGED <<queueVars, flightVars, hecVars, waits, mark>>

\* The race in shutdown() is won by the flush or by sleep(maxTime).
DrainEnds(c) ==
  /\ call[c] = "draining"
  /\ Answer(c, "shutDown")
  /\ Cancel(activeFlushing)
  /\ UNCHANGED <<queueVars, received, waits, mark>>

\* The flush rejects first: shutdown() throws before it cancels anything.
DrainFails(c) ==
  /\ call[c] = "draining"
  /\ SomeRejected(c)
  /\ Answer(c, "shutDownRejected")
  /\ UNCHANGED <<queueVars, flightVars, hecVars, waits, mark>>
------------------------------------------------------------------------------
Push == \E n \in Lengths : PushFits(n) \/ PushOverflows(n)

FlightStep(b) ==
  \/ CompressDone(b) \/ CompressFails(b)
  \/ HecAccepts(b) \/ LateArrival(b) \/ ResponseOk(b) \/ RequestFails(b)
  \/ HandleFailure(b) \/ WakeUp(b) \/ RemoveFromActive(b)

CallStep(c) ==
  \/ CallFlush(c) \/ CallTimedShutdown(c) \/ CallShutdown(c)
  \/ FlushSettles(c) \/ DrainEnds(c) \/ DrainFails(c)

Next ==
  \/ Push
  \/ TimerFires
  \/ \E b \in Handle : FlightStep(b)
  \/ \E c \in Calls : CallStep(c)

Spec == Init /\ [][Next]_vars
------------------------------------------------------------------------------
(***************************************************************************)
(* Safety                                                                  *)
(***************************************************************************)
TypeOK ==
  /\ active \in BOOLEAN
  /\ queue \in Seq(Msg)
  /\ queueSizeBytes \in Nat
  /\ flushTimer \in BOOLEAN
  /\ length \in Seq(Lengths)
  /\ pushed <= MaxPushes
  /\ batch \in [Handle -> Seq(Msg)]
  /\ phase \in [Handle -> InFlight \cup Settled \cup {"unused"}]
  /\ attempt \in [Handle -> 0..AttemptCap]
  /\ aborted \in [Handle -> BOOLEAN]
  /\ flushes \in 0..MaxPushes
  /\ activeFlushing \in SUBSET Handle
  /\ received \in SUBSET Handle
  /\ lingering \in SUBSET Handle
  /\ call \in [Calls -> CallState]
  /\ waits \in [Calls -> SUBSET Handle]
  /\ mark \in [Calls -> 0..MaxPushes]

\* The flush timer runs exactly while messages wait: scheduleFlush() and the
\* flushes it races with neither strand a message nor leave a stray timer.
TimerArmed == flushTimer <=> queue # <<>>

\* The queue holds the messages pushed last, in the order of their push.
QueueHoldsTail ==
  \A i \in 1..Len(queue) : queue[i] = pushed - Len(queue) + i

\* Every earlier message is in the batch of some flight.
FlushedAreInFlights ==
  \A m \in 1..(pushed - Len(queue)) : \E b \in 1..flushes : Carries(b, m)

\* No message is in two batches, or twice in one, and batches keep the order.
BatchesInOrder ==
  \A b \in 1..flushes : \A c \in b..flushes :
    \A i \in 1..Len(batch[b]), j \in 1..Len(batch[c]) :
      b < c \/ i < j => batch[b][i] < batch[c][j]

\* However pushes, the limits, the timer and flush() interleave, an accepted
\* message is in exactly one place, the queue or one batch, and in order.
NothingLostOrDoubled ==
  /\ QueueHoldsTail
  /\ FlushedAreInFlights
  /\ BatchesInOrder

\* The bytes of a list of messages, and of messages of the given sizes.
SizeOf(msgs, size) ==
  LET upTo[i \in 0..Len(msgs)] ==
        IF i = 0 THEN 0 ELSE upTo[i - 1] + size[msgs[i]]
  IN upTo[Len(msgs)]

Bytes(msgs) == SizeOf(msgs, length)

\* queueSizeBytes is the size of what is queued, so that the size limit holds
\* of every request body that is not a single oversized message.
BodiesWithinSizeLimit ==
  /\ queueSizeBytes = Bytes(queue)
  /\ \A b \in 1..flushes :
       Len(batch[b]) = 1 \/ Bytes(batch[b]) <= MaxQueueSize

\* With an entry limit the queue keeps to it between handlers, and a batch
\* exceeds it at most by the message that triggered the flush.
EntriesWithinLimit ==
  MaxQueueEntries # -1 =>
    /\ Len(queue) <= MaxQueueEntries
    /\ \A b \in 1..flushes : Len(batch[b]) <= MaxQueueEntries + 1

\* shutdown() can reach every flight that still runs.
RunningFlightsAreActive ==
  \A b \in Handle : phase[b] \in InFlight => b \in activeFlushing

\* When flush() resolves, every message accepted before the call has been
\* taken in by HEC, except in flights that had failed before the call.
FlushDelivers ==
  \A c \in Calls : call[c] = "flushed" =>
    \A m \in 1..mark[c] : \E b \in 1..flushes :
      /\ Carries(b, m)
      /\ \/ phase[b] = "fulfilled" /\ b \in received
         \/ phase[b] = "rejected" /\ b \notin waits[c]

\* When shutdown(maxTime) that had something to wait for resolves, in time or
\* not, nothing is queued, the client posts nothing and will post nothing, and
\* whatever still sleeps or compresses has been aborted.
DrainedShutdownIsQuiet ==
  \A c \in Calls : call[c] = "shutDown" /\ waits[c] # {} =>
    /\ ~active /\ queue = <<>> /\ ~flushTimer
    /\ \A b \in Handle : /\ phase[b] \notin Posted
                         /\ phase[b] \in InFlight => aborted[b]

\* In whichever of its awaits the abort found it, an aborted flight sends
\* nothing more: HEC can take in no request of it but one that was on the wire
\* before.
AbortStopsPosting ==
  [][\A b \in Handle : aborted[b] =>
       /\ phase'[b] \notin Posted
       /\ b \in received' => b \in received \cup lingering
       /\ b \in lingering' => b \in lingering]_vars

\* config.ts: maxRetries is the "Maximum number of attempts to send a batch".
\* Counting the first attempt apart, as the code's `<=` does:
AttemptsWithinLimit ==
  MaxRetries # Infinity =>
    \A b \in Handle : attempt[b] <= MaxRetries + 1
------------------------------------------------------------------------------
(***************************************************************************)
(* Delivery, abstractly                                                    *)
(***************************************************************************)
\* The messages of the flights in S.
MsgsOf(S) == {m \in Msg : \E b \in S : Carries(b, m)}
InPhase(p) == {b \in Handle : phase[b] = p}

Delivery == INSTANCE HecDelivery WITH
  Lossy     <- Gzip,
  accepted  <- pushed,
  received  <- MsgsOf(received),
  confirmed <- MsgsOf(InPhase("fulfilled")),
  abandoned <- MsgsOf(InPhase("rejected")),
  closed    <- ~active

\* The client keeps the promise of HecDelivery: in particular a message is
\* given up only after a shutdown or when gzip fails, never by a failing HEC.
ImplementsDelivery == Delivery!Spec
------------------------------------------------------------------------------
(***************************************************************************)
(* Liveness                                                                *)
(***************************************************************************)
\* The event loop runs timers and reactions; a request ends by config.timeout.
Fairness ==
  /\ WF_vars(TimerFires)
  /\ \A b \in Handle :
       /\ WF_vars(CompressDone(b) \/ CompressFails(b))
       /\ WF_vars(ResponseOk(b) \/ RequestFails(b))
       /\ WF_vars(HandleFailure(b))
       /\ WF_vars(WakeUp(b))
       /\ WF_vars(RemoveFromActive(b))
  /\ \A c \in Calls :
       /\ WF_vars(FlushSettles(c))
       /\ WF_vars(DrainEnds(c) \/ DrainFails(c))

\* HEC is up for good: a request made again and again gets through.
HecRecovers ==
  \A b \in Handle : SF_vars(HecAccepts(b)) /\ SF_vars(ResponseOk(b))

FairSpec == Spec /\ Fairness

\* With HEC failing for ever, an aborted flight still settles and leaves the
\* active set, also from the sleep before a retry.
AbortedFlightsSettle ==
  \A b \in Handle :
    aborted[b] ~> phase[b] \in Settled /\ b \notin activeFlushing

\* Once HEC is up for good, each accepted message reaches it, unless its
\* flight was aborted by a shutdown or could not be compressed.
MessagesReachHec == HecRecovers =>
  \A m \in Msg :
    pushed >= m ~>
      m \in MsgsOf(received) \cup MsgsOf({b \in InPhase("rejected") : aborted[b] \/ Gzip})

\* Once HEC is up for good, flush() settles.
FlushReturns == HecRecovers =>
  \A c \in Calls : call[c] = "flushing" ~> call[c] # "flushing"
==============================================================================
