---------------------------- MODULE RetryProofs ----------------------------
(***************************************************************************)
(* Proofs about Retry, for any number of loops and any limits.             *)
(***************************************************************************)
EXTENDS Retry, TLAPS

\* How a loop's place, its pending outcome and its task belong together: what
\* has to be known of a loop between a race and its continuation.
PlaceOK(l) ==
  /\ pc[l] = "idle" => attempt[l] = 0
  /\ pc[l] = "raced" => event[l] \in Outcomes
  /\ (pc[l] = "raced" /\ running[l] = 1) => (aborted /\ event[l] = "ABORT")
  /\ pc[l] = "slept" => event[l] \in {"value", "ABORT"}
  /\ (pc[l] = "slept" /\ event[l] = "ABORT") => aborted
  /\ pc[l] \in {"sleeping", "slept"} => MoreAttempts(l, attempt[l])
  /\ pc[l] # "done" => result[l] = "none"

PlacesOK == \A l \in Loops : PlaceOK(l)

IInv == TypeOK /\ EveryAwaitIsAbortable /\ AttemptsDoNotOverlap /\ OutcomeIsEarned /\ PlacesOK

\* The parts of the invariant that speak of one loop, for that loop.
LoopTyped(l) ==
  /\ pc[l] \in Awaiting \cup {"idle", "raced", "slept", "done"}
  /\ event[l] \in Outcomes \cup {"none"}
  /\ attempt[l] \in 0..AttemptCap
  /\ running[l] \in Nat
  /\ elapsed[l] \in Nat
  /\ result[l] \in Results
NoOverlap(l) ==
  /\ pc[l] = "racing" => running[l] = 1
  /\ pc[l] \in {"idle", "sleeping", "slept"} => running[l] = 0
  /\ running[l] <= 1
  /\ (pc[l] = "done" /\ running[l] = 1) =>
       (aborted /\ result[l] \in {"RETRY_ABORT", "thrown"})
Earned(l) ==
  /\ result[l] = "error" => attempt[l] = Attempts[l]
  /\ result[l] = "timeout" => TimedOut(l)
  /\ result[l] = "ABORT" => aborted
  /\ result[l] = "ended" => Attempts[l] = 0
  /\ Attempts[l] # Infinity => attempt[l] <= Attempts[l]
Registered(l) ==
  /\ l \in handles <=> (pc[l] \in Awaiting /\ ~aborted)
  /\ l \in signalled <=> (pc[l] \in Awaiting /\ aborted)

LoopInv(l) == LoopTyped(l) /\ NoOverlap(l) /\ Earned(l) /\ Registered(l) /\ PlaceOK(l)

Shape ==
  /\ aborted \in BOOLEAN
  /\ handles \subseteq Loops
  /\ signalled \subseteq Loops
  /\ pc = [l \in Loops |-> pc[l]]
  /\ event = [l \in Loops |-> event[l]]
  /\ attempt = [l \in Loops |-> attempt[l]]
  /\ running = [l \in Loops |-> running[l]]
  /\ elapsed = [l \in Loops |-> elapsed[l]]
  /\ result = [l \in Loops |-> result[l]]

LoopsInv == Shape /\ \A l \in Loops : LoopInv(l)

\* The invariant is a shape of the variables and one condition per loop, so a
\* step need only be looked at for the loop that takes it.
LEMMA LoopByLoop == IInv <=> LoopsInv
<1>1. IInv => LoopsInv
  BY RetryAssumption DEF IInv, TypeOK, HandleTypeOK, EveryAwaitIsAbortable, AttemptsDoNotOverlap,
     OutcomeIsEarned, PlacesOK, LoopsInv, Shape, LoopInv, LoopTyped, NoOverlap, Earned, Registered
<1>2. ASSUME LoopsInv PROVE IInv
  <2>1. TypeOK
    BY <1>2, RetryAssumption DEF LoopsInv, Shape, LoopInv, LoopTyped, TypeOK, HandleTypeOK
  <2>2. EveryAwaitIsAbortable
    BY <1>2 DEF LoopsInv, Shape, LoopInv, Registered, EveryAwaitIsAbortable
  <2>3. AttemptsDoNotOverlap
    BY <1>2 DEF LoopsInv, LoopInv, NoOverlap, AttemptsDoNotOverlap
  <2>4. OutcomeIsEarned
    BY <1>2 DEF LoopsInv, LoopInv, Earned, OutcomeIsEarned
  <2>5. PlacesOK
    BY <1>2 DEF LoopsInv, LoopInv, PlacesOK
  <2> QED BY <2>1, <2>2, <2>3, <2>4, <2>5 DEF IInv
<1> QED BY <1>1, <1>2

\* The same after a step.
LEMMA LoopByLoopNext == IInv' <=> LoopsInv'
BY LoopByLoop, PTL

\* A step of loop l does to the handle what concerns l only, or fires it.
HandleStep(l) ==
  \/ /\ aborted' = aborted
     /\ \A k \in Loops \ {l} : /\ k \in handles' <=> k \in handles
                               /\ k \in signalled' <=> k \in signalled
  \/ Abort

\* Nothing is changed but what belongs to loop l and the handle.
OnlyLoop(l) ==
  /\ Shape'
  /\ HandleStep(l)
  /\ \A k \in Loops \ {l} :
       /\ pc'[k] = pc[k] /\ event'[k] = event[k] /\ attempt'[k] = attempt[k]
       /\ running'[k] = running[k] /\ elapsed'[k] = elapsed[k] /\ result'[k] = result[k]

\* A step of one loop keeps the invariant when it keeps that of the loop.
LEMMA OneLoopSuffices ==
  ASSUME IInv, NEW l \in Loops, OnlyLoop(l), LoopInv(l)'
  PROVE  IInv'
<1>1. ASSUME NEW k \in Loops \ {l} PROVE LoopInv(k)'
  <2>1. LoopInv(k) /\ aborted \in BOOLEAN
    BY LoopByLoop DEF LoopsInv, Shape
  <2>2. /\ pc'[k] = pc[k] /\ event'[k] = event[k] /\ attempt'[k] = attempt[k]
        /\ running'[k] = running[k] /\ elapsed'[k] = elapsed[k] /\ result'[k] = result[k]
    BY DEF OnlyLoop
  <2>3. aborted => aborted'
    BY DEF OnlyLoop, HandleStep, Abort
  <2>4. LoopTyped(k)' /\ NoOverlap(k)'
    BY <2>1, <2>2, <2>3 DEF LoopInv, LoopTyped, NoOverlap
  <2>5. Earned(k)' /\ PlaceOK(k)'
    BY <2>1, <2>2, <2>3 DEF LoopInv, Earned, PlaceOK, TimedOut, MoreAttempts
  <2>6. Registered(k)'
    <3>1. CASE Abort
      BY <2>1, <2>2, <3>1 DEF Abort, LoopInv, Registered
    <3>2. CASE ~Abort
      <4>1. /\ aborted' = aborted
            /\ k \in handles' <=> k \in handles
            /\ k \in signalled' <=> k \in signalled
        BY <3>2 DEF OnlyLoop, HandleStep
      <4> QED BY <2>1, <2>2, <4>1 DEF LoopInv, Registered
    <3> QED BY <3>1, <3>2
  <2> QED BY <2>4, <2>5, <2>6 DEF LoopInv
<1>2. LoopsInv'
  BY <1>1 DEF OnlyLoop, LoopsInv
<1> QED BY <1>2, LoopByLoopNext

\* What a step of loop l does to the variables that are functions of the loops.
Sets(l, p, e, n, r, t) ==
  /\ pc' = [pc EXCEPT ![l] = p]
  /\ event' = [event EXCEPT ![l] = e]
  /\ attempt' = [attempt EXCEPT ![l] = n]
  /\ running' = [running EXCEPT ![l] = r]
  /\ result' = [result EXCEPT ![l] = t]
  /\ elapsed' = elapsed

\* Such a step touches one loop only.
LEMMA SetsLocal ==
  ASSUME IInv, NEW l \in Loops, NEW p, NEW e, NEW n, NEW r, NEW t, Sets(l, p, e, n, r, t),
         HandleStep(l), aborted' \in BOOLEAN, handles' \subseteq Loops, signalled' \subseteq Loops
  PROVE  /\ OnlyLoop(l)
         /\ pc'[l] = p /\ event'[l] = e /\ attempt'[l] = n /\ running'[l] = r
         /\ result'[l] = t /\ elapsed'[l] = elapsed[l]
<1>1. Shape
  BY LoopByLoop DEF LoopsInv
<1>2. /\ pc' = [k \in Loops |-> pc'[k]] /\ event' = [k \in Loops |-> event'[k]]
      /\ attempt' = [k \in Loops |-> attempt'[k]] /\ running' = [k \in Loops |-> running'[k]]
      /\ result' = [k \in Loops |-> result'[k]] /\ elapsed' = [k \in Loops |-> elapsed'[k]]
  BY <1>1 DEF Shape, Sets
<1>3. Shape'
  BY <1>2 DEF Shape
<1>4. \A k \in Loops \ {l} :
        /\ pc'[k] = pc[k] /\ event'[k] = event[k] /\ attempt'[k] = attempt[k]
        /\ running'[k] = running[k] /\ elapsed'[k] = elapsed[k] /\ result'[k] = result[k]
  BY <1>1 DEF Shape, Sets
<1>5. /\ pc'[l] = p /\ event'[l] = e /\ attempt'[l] = n /\ running'[l] = r
      /\ result'[l] = t /\ elapsed'[l] = elapsed[l]
  BY <1>1 DEF Shape, Sets
<1> QED BY <1>3, <1>4, <1>5 DEF OnlyLoop

\* Whether a callback aborts the handle or not, the handle stays one.
LEMMA MayAbortStep ==
  ASSUME IInv, NEW l \in Loops, MayAbort
  PROVE  /\ HandleStep(l) /\ aborted' \in BOOLEAN
         /\ handles' \subseteq Loops /\ signalled' \subseteq Loops
         /\ aborted => aborted'
         /\ pc[l] \notin Awaiting => l \notin handles' /\ l \notin signalled'
<1>1. LoopInv(l) /\ Shape
  BY LoopByLoop DEF LoopsInv
<1>2. CASE UNCHANGED handleVars
  BY <1>1, <1>2 DEF handleVars, HandleStep, Shape, LoopInv, Registered
<1>3. CASE Abort
  <2>1. aborted' = TRUE
    BY <1>3 DEF Abort
  <2>2. aborted' \in BOOLEAN /\ (aborted => aborted')
    BY <2>1, Zenon
  <2>3. HandleStep(l)
    BY <1>3 DEF HandleStep
  <2> QED BY <1>1, <1>3, <2>2, <2>3 DEF Abort, Shape, LoopInv, Registered
<1> QED BY <1>2, <1>3 DEF MayAbort

\* Both ways for the handle to have fired are among them, and it has fired.
LEMMA HasFiredAborts == HasFired => MayAbort /\ aborted'
<1>1. HasFired => MayAbort
  BY DEF HasFired, MayAbort
<1>2. UNCHANGED handleVars => aborted' = aborted
  BY DEF handleVars
<1>3. Abort => aborted' = TRUE
  BY DEF Abort
<1> QED BY <1>1, <1>2, <1>3, Zenon DEF HasFired

\* The number of attempts begun is one the loop may make.
Made(l, n) == n \in 0..AttemptCap /\ (Attempts[l] # Infinity => n <= Attempts[l])

\* The count of attempts becomes such a number.
CountIs(l, n) == attempt' = [attempt EXCEPT ![l] = n] /\ Made(l, n)

\* Settling is sound when the outcome is one the loop has earned.
LEMMA SettleOK ==
  ASSUME IInv, NEW l \in Loops, NEW r \in Results \ {"none"}, Settle(l, r),
         NEW n, CountIs(l, n),
         MayAbort, pc[l] \notin Awaiting,
         running[l] = 1 => (aborted' /\ r \in {"RETRY_ABORT", "thrown"}),
         r = "error" => n = Attempts[l],
         r = "timeout" => TimedOut(l),
         r = "ABORT" => aborted',
         r = "ended" => Attempts[l] = 0
  PROVE  IInv'
<1>1. LoopInv(l) /\ Shape
  BY LoopByLoop DEF LoopsInv
<1>2. Sets(l, "done", "none", n, running[l], r)
  BY <1>1 DEF Shape, Settle, Goto, Sets, CountIs
<1>3. /\ HandleStep(l) /\ aborted' \in BOOLEAN
      /\ handles' \subseteq Loops /\ signalled' \subseteq Loops
      /\ l \notin handles' /\ l \notin signalled'
  BY MayAbortStep
<1>4. /\ OnlyLoop(l)
      /\ pc'[l] = "done" /\ result'[l] = r /\ event'[l] = "none"
      /\ attempt'[l] = n /\ running'[l] = running[l] /\ elapsed'[l] = elapsed[l]
  BY <1>2, <1>3, SetsLocal
<1>5. LoopTyped(l)' /\ NoOverlap(l)'
  BY <1>1, <1>4 DEF LoopInv, LoopTyped, NoOverlap, Awaiting, CountIs, Made
<1>6. Earned(l)'
  BY <1>1, <1>4 DEF LoopInv, Earned, TimedOut, CountIs, Made
<1>7. Registered(l)' /\ PlaceOK(l)'
  BY <1>3, <1>4 DEF Registered, PlaceOK, Awaiting
<1>8. LoopInv(l)'
  BY <1>5, <1>6, <1>7 DEF LoopInv
<1> QED BY <1>4, <1>8, OneLoopSuffices

\* Nothing is changed of the count of attempts.
LEMMA SameAttempts ==
  ASSUME IInv, NEW l \in Loops, UNCHANGED attempt
  PROVE  CountIs(l, attempt[l])
<1>1. LoopInv(l) /\ Shape
  BY LoopByLoop DEF LoopsInv
<1> QED BY <1>1 DEF LoopInv, LoopTyped, Earned, Shape, CountIs, Made

\* The loop enters a race, of its task or of the wait.
LEMMA EnterOK ==
  ASSUME IInv, NEW l \in Loops, NEW p \in {"racing", "sleeping"}, NEW n, NEW r,
         Sets(l, p, "none", n, r, result[l]), EnterRace(l),
         Made(l, n), result[l] = "none",
         r = IF p = "racing" THEN 1 ELSE 0,
         p = "sleeping" => MoreAttempts(l, n)
  PROVE  IInv'
<1>1. LoopInv(l) /\ Shape
  BY LoopByLoop DEF LoopsInv
<1>2. /\ ~aborted /\ aborted' = aborted /\ l \in handles' /\ l \notin signalled'
      /\ HandleStep(l) /\ handles' \subseteq Loops /\ signalled' \subseteq Loops
      /\ aborted' \in BOOLEAN
  BY <1>1 DEF EnterRace, HandleStep, Shape
<1>3. /\ OnlyLoop(l)
      /\ pc'[l] = p /\ event'[l] = "none" /\ attempt'[l] = n /\ running'[l] = r
      /\ result'[l] = "none" /\ elapsed'[l] = elapsed[l]
  BY <1>2, SetsLocal
<1>4. LoopTyped(l)'
  BY <1>1, <1>3 DEF LoopInv, LoopTyped, Awaiting, Made, Results
<1>5. NoOverlap(l)' /\ Earned(l)'
  BY <1>3 DEF NoOverlap, Earned, Made
<1>6. Registered(l)' /\ PlaceOK(l)'
  BY <1>2, <1>3 DEF Registered, PlaceOK, Awaiting, MoreAttempts
<1>7. LoopInv(l)'
  BY <1>4, <1>5, <1>6 DEF LoopInv
<1> QED BY <1>3, <1>7, OneLoopSuffices

\* A callback of the loop aborts the handle just before a race.
LEMMA LostOK ==
  ASSUME IInv, NEW l \in Loops, NEW p \in {"raced", "slept"}, NEW n, NEW r,
         Sets(l, p, "ABORT", n, r, result[l]), Abort,
         Made(l, n), result[l] = "none", pc[l] \notin Awaiting,
         r = IF p = "raced" THEN 1 ELSE 0,
         p = "slept" => MoreAttempts(l, n)
  PROVE  IInv'
<1>1. LoopInv(l) /\ Shape
  BY LoopByLoop DEF LoopsInv
<1>2. MayAbort \/ aborted
  BY DEF MayAbort
<1>3. aborted' = TRUE
  BY DEF Abort
<1>4. aborted' \in BOOLEAN /\ aborted'
  BY <1>3, Zenon
<1>5. /\ HandleStep(l) /\ handles' \subseteq Loops /\ signalled' \subseteq Loops
      /\ l \notin handles' /\ l \notin signalled'
  BY <1>1 DEF Abort, HandleStep, Shape, LoopInv, Registered
<1>6. /\ OnlyLoop(l)
      /\ pc'[l] = p /\ event'[l] = "ABORT" /\ attempt'[l] = n /\ running'[l] = r
      /\ result'[l] = "none" /\ elapsed'[l] = elapsed[l]
  BY <1>4, <1>5, SetsLocal
<1>7. LoopTyped(l)'
  BY <1>1, <1>6 DEF LoopInv, LoopTyped, Outcomes, Made, Results
<1>8. NoOverlap(l)' /\ Earned(l)'
  BY <1>6 DEF NoOverlap, Earned, Made
<1>9. Registered(l)' /\ PlaceOK(l)'
  BY <1>4, <1>5, <1>6 DEF Registered, PlaceOK, Awaiting, Outcomes, MoreAttempts
<1>10. LoopInv(l)'
  BY <1>7, <1>8, <1>9 DEF LoopInv
<1> QED BY <1>6, <1>10, OneLoopSuffices

\* The catch block settles the loop or goes on to wait.
LEMMA CatchErrorOK ==
  ASSUME IInv, NEW l \in Loops, NEW n, CatchError(l, n),
         CountIs(l, n),
         pc[l] \notin Awaiting, running[l] = 0, result[l] = "none"
  PROVE  IInv'
<1>1. LoopInv(l) /\ Shape
  BY LoopByLoop DEF LoopsInv
<1>0. running[l] # 1
  OBVIOUS
<1>2. CASE Settle(l, "thrown") /\ MayAbort
  BY <1>0, <1>2, SettleOK DEF Results
<1>3. CASE Settle(l, "RETRY_ABORT") /\ HasFired
  BY <1>3, SettleOK, HasFiredAborts DEF Results
<1>4. CASE TimedOut(l) /\ Settle(l, "timeout") /\ UNCHANGED handleVars
  BY <1>4, SettleOK DEF Results, MayAbort
<1>5. CASE MoreAttempts(l, n) /\ Sleep(l)
  <2>1. CASE EnterRace(l) /\ Goto(l, "sleeping", "none")
    <3>1. Sets(l, "sleeping", "none", n, 0, result[l])
      BY <1>1, <1>5, <2>1 DEF Sleep, Goto, Sets, Shape, CountIs
    <3> QED BY <1>5, <2>1, <3>1, EnterOK DEF CountIs
  <2>2. CASE Abort /\ Goto(l, "slept", "ABORT")
    <3>1. Sets(l, "slept", "ABORT", n, 0, result[l])
      BY <1>1, <1>5, <2>2 DEF Sleep, Goto, Sets, Shape, CountIs
    <3> QED BY <1>5, <2>2, <3>1, LostOK DEF CountIs
  <2> QED BY <1>5, <2>1, <2>2 DEF Sleep
<1>6. CASE ~MoreAttempts(l, n) /\ Settle(l, "error") /\ UNCHANGED handleVars
  <2>1. n = Attempts[l]
    <3>1. Attempts[l] # Infinity /\ ~(n < Attempts[l])
      BY <1>6, Zenon DEF MoreAttempts
    <3>2. Attempts[l] \in Nat
      BY <3>1, RetryAssumption
    <3> QED BY <3>1, <3>2 DEF CountIs, Made
  <2> QED BY <1>6, <2>1, SettleOK DEF Results, MayAbort
<1> QED BY <1>2, <1>3, <1>4, <1>5, <1>6 DEF CatchError

\* A loop that begins an attempt is between two races and may make it.
LEMMA BeginOK ==
  ASSUME IInv, NEW l \in Loops, BeginAttempt(l), pc[l] \in {"idle", "slept"},
         MoreAttempts(l, attempt[l])
  PROVE  IInv'
<1> DEFINE n == IF attempt[l] < AttemptCap THEN attempt[l] + 1 ELSE attempt[l]
<1>1. LoopInv(l) /\ Shape
  BY LoopByLoop DEF LoopsInv
<1>2. /\ running[l] = 0 /\ result[l] = "none" /\ attempt[l] \in 0..AttemptCap
      /\ Attempts[l] # Infinity => attempt[l] < Attempts[l]
      /\ pc[l] \notin Awaiting
  BY <1>1 DEF LoopInv, LoopTyped, NoOverlap, PlaceOK, MoreAttempts, Awaiting
<1>3. Made(l, n)
  BY <1>2, RetryAssumption DEF Made
<1>4. attempt' = [attempt EXCEPT ![l] = n]
  BY DEF BeginAttempt, CountAttempt
<1>5. attempt'[l] = n
  BY <1>1, <1>4 DEF Shape
<1> HIDE DEF n
<1>6. ASSUME NEW p, NEW e, CallTask(l), Goto(l, p, e)
      PROVE  Sets(l, p, e, n, 1, result[l])
  BY <1>1, <1>2, <1>4, <1>6 DEF CallTask, Goto, Sets, Shape
<1>7. CASE CallTask(l) /\ EnterRace(l) /\ Goto(l, "racing", "none")
  BY <1>2, <1>3, <1>6, <1>7, EnterOK
<1>8. CASE CallTask(l) /\ Abort /\ Goto(l, "raced", "ABORT")
  BY <1>2, <1>3, <1>6, <1>8, LostOK
<1>9. CASE CatchError(l, attempt'[l])
  <2>1. CatchError(l, n)
    BY <1>5, <1>9
  <2> QED BY <1>2, <1>3, <1>4, <2>1, CatchErrorOK DEF CountIs
<1> QED BY <1>7, <1>8, <1>9 DEF BeginAttempt

\* The top of the loop begins an attempt or settles.
LEMMA LoopTopOK ==
  ASSUME IInv, NEW l \in Loops, LoopTop(l), pc[l] \in {"idle", "slept"}
  PROVE  IInv'
<1>1. LoopInv(l) /\ Shape
  BY LoopByLoop DEF LoopsInv
<1>2. pc[l] \notin Awaiting /\ running[l] = 0
  BY <1>1 DEF LoopInv, NoOverlap, Awaiting
<1>3. CASE ~MoreAttempts(l, attempt[l]) /\ Settle(l, "ended") /\ UNCHANGED <<handleVars, attempt>>
  <2>1. Attempts[l] = 0
    BY <1>1, <1>3, RetryAssumption DEF LoopInv, PlaceOK, MoreAttempts
  <2> QED BY <1>2, <1>3, <2>1, SameAttempts, SettleOK DEF Results, MayAbort
<1>4. CASE aborted /\ Settle(l, "RETRY_ABORT") /\ UNCHANGED <<handleVars, attempt>>
  BY <1>2, <1>4, SameAttempts, SettleOK DEF Results, MayAbort
<1>5. CASE MoreAttempts(l, attempt[l]) /\ ~aborted /\ BeginAttempt(l)
  BY <1>5, BeginOK
<1> QED BY <1>3, <1>4, <1>5 DEF LoopTop

RunningIs(l, r) == running' = [running EXCEPT ![l] = r]

\* The end of a race, for the ways there are to end one.
LEMMA EndRaceOK ==
  ASSUME IInv, NEW l \in Loops, NEW n \in {"raced", "slept"}, NEW e \in Outcomes, NEW r \in {0, 1},
         EndRace(l, n, e), RunningIs(l, r),
         pc[l] \in Awaiting,
         n = "slept" => pc[l] = "sleeping" /\ r = 0 /\ e # "error",
         (e = "ABORT" /\ n = "slept") \/ r = 1 => aborted /\ e = "ABORT"
  PROVE  IInv'
<1>1. LoopInv(l) /\ Shape
  BY LoopByLoop DEF LoopsInv
<1>2. Sets(l, n, e, attempt[l], r, result[l])
  BY <1>1 DEF Shape, EndRace, Goto, Sets, RunningIs
<1>3. /\ HandleStep(l) /\ aborted' = aborted /\ aborted' \in BOOLEAN
      /\ handles' \subseteq Loops /\ signalled' \subseteq Loops
      /\ l \notin handles' /\ l \notin signalled'
  BY <1>1 DEF EndRace, LeaveRace, HandleStep, Shape
<1>4. /\ OnlyLoop(l)
      /\ pc'[l] = n /\ event'[l] = e /\ attempt'[l] = attempt[l] /\ running'[l] = r
      /\ elapsed'[l] = elapsed[l] /\ result'[l] = result[l]
  BY <1>2, <1>3, SetsLocal
<1>5. result[l] = "none"
  BY <1>1 DEF LoopInv, PlaceOK, Awaiting
<1>6. LoopTyped(l)'
  BY <1>1, <1>4 DEF LoopInv, LoopTyped
<1>7. NoOverlap(l)' /\ Earned(l)'
  BY <1>1, <1>4, <1>5 DEF LoopInv, NoOverlap, Earned
<1>8. Registered(l)'
  BY <1>3, <1>4 DEF Registered, Awaiting
<1>9. PlaceOK(l)'
  BY <1>1, <1>3, <1>4, <1>5 DEF LoopInv, PlaceOK, Outcomes, MoreAttempts
<1>10. LoopInv(l)'
  BY <1>6, <1>7, <1>8, <1>9 DEF LoopInv
<1> QED BY <1>4, <1>10, OneLoopSuffices

\* The task settles while its race is open.
LEMMA TaskSettlesOK ==
  ASSUME IInv, NEW l \in Loops, NEW o \in Outcomes, TaskSettles(l, o)
  PROVE  IInv'
<1>1. LoopInv(l) /\ Shape
  BY LoopByLoop DEF LoopsInv
<1>2. pc[l] \in Awaiting /\ running[l] = 1
  BY <1>1 DEF LoopInv, NoOverlap, TaskSettles, Awaiting
<1>3. EndRace(l, "raced", o) /\ RunningIs(l, 0)
  BY <1>2 DEF TaskSettles, RunningIs
<1> QED BY ONLY IInv, l \in Loops, o \in Outcomes, <1>2, <1>3, EndRaceOK

\* The race is lost to the handle.
LEMMA AbortWinsOK ==
  ASSUME IInv, NEW l \in Loops, AbortWins(l)
  PROVE  IInv'
<1>1. LoopInv(l) /\ Shape
  BY LoopByLoop DEF LoopsInv
<1>2. aborted /\ RunningIs(l, running[l])
  BY <1>1 DEF LoopInv, Registered, Shape, AbortWins, RunningIs
<1>3. CASE pc[l] = "racing" /\ EndRace(l, "raced", "ABORT")
  <2>1. RunningIs(l, 1)
    BY <1>1, <1>2, <1>3 DEF LoopInv, NoOverlap
  <2> QED BY <1>2, <1>3, <2>1, EndRaceOK DEF Outcomes, Awaiting
<1>4. CASE pc[l] = "sleeping" /\ EndRace(l, "slept", "ABORT")
  <2>1. RunningIs(l, 0)
    BY <1>1, <1>2, <1>4 DEF LoopInv, NoOverlap
  <2> QED BY <1>2, <1>4, <2>1, EndRaceOK DEF Outcomes, Awaiting
<1> QED BY <1>3, <1>4 DEF AbortWins

\* The delay is over.
LEMMA SleepEndsOK ==
  ASSUME IInv, NEW l \in Loops, SleepEnds(l)
  PROVE  IInv'
<1>1. LoopInv(l) /\ Shape
  BY LoopByLoop DEF LoopsInv
<1>2. RunningIs(l, 0)
  BY <1>1 DEF LoopInv, NoOverlap, Shape, SleepEnds, RunningIs
<1>3. EndRace(l, "slept", "value") /\ pc[l] = "sleeping"
  BY DEF SleepEnds
<1> QED BY ONLY IInv, l \in Loops, <1>2, <1>3, EndRaceOK DEF Outcomes, Awaiting

\* A task that nobody waits for any more settles.
LEMMA AbandonedTaskSettlesOK ==
  ASSUME IInv, NEW l \in Loops, AbandonedTaskSettles(l)
  PROVE  IInv'
<1>1. LoopInv(l) /\ Shape
  BY LoopByLoop DEF LoopsInv
<1>2. /\ pc' = pc /\ event' = event /\ attempt' = attempt /\ elapsed' = elapsed
      /\ result' = result /\ aborted' = aborted /\ handles' = handles /\ signalled' = signalled
      /\ running' = [running EXCEPT ![l] = running[l] - 1]
      /\ running[l] > 0 /\ pc[l] # "racing"
  BY DEF AbandonedTaskSettles, handleVars
<1>3. running'[l] = 0
  BY <1>1, <1>2 DEF LoopInv, NoOverlap, LoopTyped, Shape
<1>4. LoopTyped(l)' /\ NoOverlap(l)'
  BY <1>1, <1>2, <1>3 DEF LoopInv, LoopTyped, NoOverlap
<1>5. Earned(l)' /\ Registered(l)'
  BY <1>1, <1>2 DEF LoopInv, Earned, Registered, TimedOut
<1>6. PlaceOK(l)'
  BY <1>1, <1>2, <1>3 DEF LoopInv, PlaceOK, MoreAttempts
<1>7. OnlyLoop(l)
  BY <1>1, <1>2 DEF OnlyLoop, HandleStep, Shape
<1>8. LoopInv(l)'
  BY <1>4, <1>5, <1>6 DEF LoopInv
<1> QED BY <1>7, <1>8, OneLoopSuffices

\* The loop resumes with the outcome of its task.
LEMMA AfterRaceOK ==
  ASSUME IInv, NEW l \in Loops, AfterRace(l)
  PROVE  IInv'
<1>1. LoopInv(l) /\ Shape
  BY LoopByLoop DEF LoopsInv
<1>2. pc[l] = "raced" /\ pc[l] \notin Awaiting /\ running[l] \in {0, 1} /\ result[l] = "none"
  BY <1>1 DEF AfterRace, Awaiting, LoopInv, LoopTyped, NoOverlap, PlaceOK
<1>3. running[l] = 1 => aborted /\ event[l] = "ABORT"
  BY <1>1, <1>2 DEF LoopInv, PlaceOK
<1>4. CountIs(l, attempt[l])
  BY SameAttempts DEF AfterRace
<1>5. CASE event[l] = "value" /\ Settle(l, "value") /\ UNCHANGED handleVars
  BY <1>2, <1>3, <1>4, <1>5, SettleOK DEF Results, MayAbort
<1>6. ASSUME event[l] = "ABORT", NEW r \in {"RETRY_ABORT", "thrown"}, Settle(l, r), MayAbort
      PROVE  IInv'
  <2>1. running[l] = 1 => aborted'
    BY <1>3, <1>6, MayAbortStep
  <2> QED BY <1>2, <1>4, <1>6, <2>1, SettleOK DEF Results
<1>7. CASE event[l] = "error" /\ CatchError(l, attempt[l])
  BY <1>2, <1>3, <1>4, <1>7, CatchErrorOK
<1> QED BY <1>5, <1>6, <1>7 DEF AfterRace

\* The loop resumes after the delay.
LEMMA AfterSleepOK ==
  ASSUME IInv, NEW l \in Loops, AfterSleep(l)
  PROVE  IInv'
<1>1. LoopInv(l) /\ Shape
  BY LoopByLoop DEF LoopsInv
<1>2. pc[l] = "slept" /\ pc[l] \notin Awaiting /\ running[l] = 0
  BY <1>1 DEF AfterSleep, Awaiting, LoopInv, NoOverlap
<1>3. CASE event[l] = "ABORT" /\ Settle(l, "ABORT") /\ UNCHANGED <<handleVars, attempt>>
  <2>1. aborted
    BY <1>1, <1>2, <1>3 DEF LoopInv, PlaceOK
  <2>2. UNCHANGED <<handleVars, attempt>> /\ aborted'
    BY <1>3, <2>1 DEF handleVars
  <2> QED BY <1>2, <1>3, <2>2, SameAttempts, SettleOK DEF Results, MayAbort
<1>4. CASE event[l] = "value" /\ LoopTop(l)
  BY <1>2, <1>4, LoopTopOK
<1> QED BY <1>3, <1>4 DEF AfterSleep

\* Time passes for a loop.
LEMMA TickOK ==
  ASSUME IInv, NEW l \in Loops, Tick(l)
  PROVE  IInv'
<1>1. LoopInv(l) /\ Shape
  BY LoopByLoop DEF LoopsInv
<1>2. /\ pc' = pc /\ event' = event /\ attempt' = attempt /\ running' = running
      /\ result' = result /\ aborted' = aborted /\ handles' = handles /\ signalled' = signalled
      /\ elapsed' = [elapsed EXCEPT ![l] = elapsed[l] + 1] /\ pc[l] # "done"
  BY DEF Tick, handleVars
<1>3. elapsed'[l] \in Nat /\ result[l] = "none"
  BY <1>1, <1>2 DEF LoopInv, LoopTyped, PlaceOK, Shape
<1>4. LoopTyped(l)' /\ NoOverlap(l)'
  BY <1>1, <1>2, <1>3 DEF LoopInv, LoopTyped, NoOverlap
<1>5. Earned(l)' /\ Registered(l)'
  BY <1>1, <1>2, <1>3 DEF LoopInv, Earned, Registered
<1>6. PlaceOK(l)'
  BY <1>1, <1>2 DEF LoopInv, PlaceOK, MoreAttempts
<1>7. OnlyLoop(l)
  BY <1>1, <1>2 DEF OnlyLoop, HandleStep, Shape
<1>8. LoopInv(l)'
  BY <1>4, <1>5, <1>6 DEF LoopInv
<1> QED BY <1>7, <1>8, OneLoopSuffices

\* abort() reaches each loop that is registered.
LEMMA AbortAllOK == IInv /\ AbortAll => IInv'
<1> SUFFICES ASSUME IInv, AbortAll PROVE IInv'
  OBVIOUS
<1>1. Shape /\ \A l \in Loops : LoopInv(l)
  BY LoopByLoop DEF LoopsInv
<1>2. /\ pc' = pc /\ event' = event /\ attempt' = attempt /\ elapsed' = elapsed
      /\ running' = running /\ result' = result
      /\ ~aborted /\ aborted' = TRUE /\ handles' = {} /\ signalled' = signalled \cup handles
  BY DEF AbortAll, Abort, loopVars
<1>3. Shape'
  <2>1. aborted' \in BOOLEAN
    BY <1>2, Zenon
  <2> QED BY <1>1, <1>2, <2>1 DEF Shape
<1>4. ASSUME NEW l \in Loops PROVE LoopInv(l)'
  <2>1. LoopInv(l) /\ aborted'
    BY <1>1, <1>2, Zenon
  <2>2. LoopTyped(l)' /\ NoOverlap(l)'
    BY <1>2, <2>1 DEF LoopInv, LoopTyped, NoOverlap
  <2>3. Earned(l)'
    BY <1>2, <2>1 DEF LoopInv, Earned, TimedOut
  <2>4. Registered(l)'
    BY <1>2, <2>1 DEF LoopInv, Registered
  <2>5. PlaceOK(l)'
    BY <1>2, <2>1 DEF LoopInv, PlaceOK, MoreAttempts
  <2> QED BY <2>2, <2>3, <2>4, <2>5 DEF LoopInv
<1>5. LoopsInv'
  BY <1>3, <1>4 DEF LoopsInv
<1> QED BY <1>5, LoopByLoopNext

\* The invariant holds before any loop is called.
LEMMA InitOK == Init => IInv
<1> SUFFICES ASSUME Init PROVE IInv
  OBVIOUS
<1>1. Shape
  <2>1. aborted \in BOOLEAN
    BY Zenon DEF Init, HandleInit
  <2> QED BY <2>1 DEF Init, HandleInit, Shape
<1>2. ASSUME NEW l \in Loops PROVE LoopInv(l)
  <2>1. /\ pc[l] = "idle" /\ event[l] = "none" /\ attempt[l] = 0 /\ running[l] = 0
        /\ elapsed[l] = 0 /\ result[l] = "none" /\ handles = {} /\ signalled = {}
    BY DEF Init, HandleInit
  <2>2. LoopTyped(l) /\ NoOverlap(l)
    BY <2>1, RetryAssumption DEF LoopTyped, NoOverlap, Results
  <2>3. Earned(l) /\ Registered(l) /\ PlaceOK(l)
    BY <2>1, RetryAssumption DEF Earned, Registered, PlaceOK, Awaiting
  <2> QED BY <2>2, <2>3 DEF LoopInv
<1> QED BY <1>1, <1>2, LoopByLoop DEF LoopsInv

\* Every step keeps the invariant.
LEMMA StepOK == IInv /\ [Next]_vars => IInv'
<1> SUFFICES ASSUME IInv, [Next]_vars PROVE IInv'
  OBVIOUS
<1>1. CASE AbortAll
  BY <1>1, AbortAllOK
<1>2. ASSUME NEW l \in Loops, LoopStep(l) PROVE IInv'
  <2>1. CASE Start(l)
    BY <2>1, LoopTopOK DEF Start
  <2>2. CASE \E o \in Outcomes : TaskSettles(l, o)
    BY <2>2, TaskSettlesOK
  <2>3. CASE AbortWins(l)
    BY <2>3, AbortWinsOK
  <2>4. CASE SleepEnds(l)
    BY <2>4, SleepEndsOK
  <2>5. CASE AbandonedTaskSettles(l)
    BY <2>5, AbandonedTaskSettlesOK
  <2>6. CASE AfterRace(l)
    BY <2>6, AfterRaceOK
  <2>7. CASE AfterSleep(l)
    BY <2>7, AfterSleepOK
  <2>8. CASE Tick(l)
    BY <2>8, TickOK
  <2> QED BY <1>2, <2>1, <2>2, <2>3, <2>4, <2>5, <2>6, <2>7, <2>8 DEF LoopStep
<1>3. CASE UNCHANGED vars
  BY <1>3 DEF vars, handleVars, loopVars, IInv, TypeOK, HandleTypeOK, EveryAwaitIsAbortable,
     AttemptsDoNotOverlap, OutcomeIsEarned, TimedOut, PlacesOK, PlaceOK, MoreAttempts
<1> QED BY <1>1, <1>2, <1>3 DEF Next

\* The invariant holds always, for every number of loops and whatever their limits.
THEOREM RetryInvariance == Spec => []IInv
BY InitOK, StepOK, PTL DEF Spec

\* Every variable keeps its type, whatever the number of loops and attempts.
THEOREM RetryTypeCorrect == Spec => []TypeOK
<1>1. IInv => TypeOK
  BY DEF IInv
<1> QED BY <1>1, RetryInvariance, PTL

\* No await is out of abort()'s reach, and a loop that is over leaves nothing
\* registered in the handle (abort.ts:77-85).
THEOREM AwaitsAreAbortable == Spec => []EveryAwaitIsAbortable
<1>1. IInv => EveryAwaitIsAbortable
  BY DEF IInv
<1> QED BY <1>1, RetryInvariance, PTL

\* A loop never runs two of its tasks at once (retry.ts:70, 91).
THEOREM AttemptsAreSequential == Spec => []AttemptsDoNotOverlap
<1>1. IInv => AttemptsDoNotOverlap
  BY DEF IInv
<1> QED BY <1>1, RetryInvariance, PTL

\* A loop settles only with an outcome it has met (retry.ts:77-97).
THEOREM OutcomesAreEarned == Spec => []OutcomeIsEarned
<1>1. IInv => OutcomeIsEarned
  BY DEF IInv
<1> QED BY <1>1, RetryInvariance, PTL

\* What loop l may not do in a step after which the handle has fired.
Heeds(l) ==
  /\ aborted => attempt'[l] = attempt[l] /\ running'[l] <= running[l]
  /\ running'[l] > running[l] => pc'[l] = "raced" /\ event'[l] = "ABORT"
  /\ pc'[l] \in Awaiting => pc[l] = pc'[l]

\* A loop that settles heeds.
LEMMA SettleHeeds ==
  ASSUME IInv, NEW l \in Loops, NEW k \in Loops, NEW r, Settle(l, r),
         UNCHANGED attempt \/ ~aborted
  PROVE  Heeds(k)
<1>1. Shape /\ running[k] \in Nat
  BY LoopByLoop DEF LoopsInv, LoopInv, LoopTyped
<1>2. pc'[k] \in Awaiting => pc[k] = pc'[k]
  BY <1>1 DEF Settle, Goto, Shape, Awaiting
<1> QED BY <1>1, <1>2 DEF Settle, Heeds

\* A loop that goes to a place with no race in it heeds.
LEMMA PlaceHeeds ==
  ASSUME IInv, NEW l \in Loops, NEW k \in Loops, NEW p \in {"raced", "slept"}, NEW e, Goto(l, p, e),
         UNCHANGED attempt \/ ~aborted,
         \/ running' = running
         \/ running' = [running EXCEPT ![l] = running[l] - 1]
         \/ ~aborted /\ p = "raced" /\ e = "ABORT" /\ running' = [running EXCEPT ![l] = running[l] + 1]
  PROVE  Heeds(k)
<1>1. Shape /\ running[k] \in Nat
  BY LoopByLoop DEF LoopsInv, LoopInv, LoopTyped
<1>2. pc'[k] \in Awaiting => pc[k] = pc'[k]
  BY <1>1 DEF Goto, Shape, Awaiting
<1>3. running'[k] <= running[k] \/ (~aborted /\ pc'[k] = "raced" /\ event'[k] = "ABORT")
  BY <1>1 DEF Goto, Shape
<1>4. running'[k] \in Int
  BY <1>1 DEF Shape
<1> QED BY <1>1, <1>2, <1>3, <1>4 DEF Heeds

\* The catch block heeds the handle.
LEMMA CatchHeeds ==
  ASSUME IInv, NEW l \in Loops, NEW k \in Loops, NEW n, CatchError(l, n), aborted',
         UNCHANGED attempt \/ ~aborted
  PROVE  Heeds(k)
<1>1. ~EnterRace(l)
  BY DEF EnterRace
<1>2. CASE Sleep(l)
  BY <1>1, <1>2, PlaceHeeds DEF Sleep
<1> QED BY <1>2, SettleHeeds DEF CatchError

\* No step under an aborted handle begins an attempt or a wait; the step that
\* aborts it may begin one attempt, which is lost.
LEMMA StepHeeds ==
  ASSUME IInv, Next, aborted', NEW k \in Loops
  PROVE  Heeds(k)
<1>1. Shape /\ LoopInv(k) /\ running[k] \in Nat
  BY LoopByLoop DEF LoopsInv, LoopInv, LoopTyped
<1>2. CASE AbortAll
  BY <1>1, <1>2 DEF AbortAll, loopVars, Heeds
<1>3. ASSUME NEW l \in Loops, LoopStep(l) PROVE Heeds(k)
  <2>1. ~EnterRace(l)
    BY DEF EnterRace
  <2>2. ASSUME BeginAttempt(l), ~aborted PROVE Heeds(k)
    <3>1. CASE CallTask(l) /\ Goto(l, "raced", "ABORT")
      BY <2>2, <3>1, PlaceHeeds DEF CallTask
    <3>2. CASE CatchError(l, attempt'[l])
      BY <2>2, <3>2, CatchHeeds
    <3> QED BY <2>1, <2>2, <3>1, <3>2 DEF BeginAttempt
  <2>3. ASSUME LoopTop(l) PROVE Heeds(k)
    BY <2>2, <2>3, SettleHeeds DEF LoopTop
  <2>4. CASE \E o \in Outcomes : TaskSettles(l, o)
    BY <2>4, PlaceHeeds DEF TaskSettles, EndRace
  <2>5. CASE AbortWins(l) \/ SleepEnds(l)
    BY <2>5, PlaceHeeds DEF AbortWins, SleepEnds, EndRace
  <2>6. CASE AbandonedTaskSettles(l)
    BY <1>1, <2>6 DEF AbandonedTaskSettles, Heeds, Shape
  <2>7. CASE AfterRace(l)
    BY <2>7, SettleHeeds, CatchHeeds DEF AfterRace
  <2>8. CASE Tick(l)
    BY <1>1, <2>8 DEF Tick, Heeds
  <2>9. CASE AfterSleep(l)
    BY <2>3, <2>9, SettleHeeds DEF AfterSleep
  <2> QED BY <1>3, <2>3, <2>4, <2>5, <2>6, <2>7, <2>8, <2>9 DEF LoopStep, Start
<1> QED BY <1>2, <1>3 DEF Next

\* After abort(), whoever calls it, no attempt begins and no loop starts to
\* wait, but for the attempt whose own callback aborts; whatever the number of
\* loops and their limits (retry.ts:58, 68-70, 82).
THEOREM AbortStopsAttempts == Spec => AbortIsHeeded
<1>1. IInv /\ [Next]_vars =>
        [aborted' => \A l \in Loops :
           /\ aborted => attempt'[l] = attempt[l] /\ running'[l] <= running[l]
           /\ running'[l] > running[l] => pc'[l] = "raced" /\ event'[l] = "ABORT"
           /\ pc'[l] \in Awaiting => pc[l] = pc'[l]]_vars
  BY StepHeeds DEF Heeds
<1> QED BY <1>1, RetryInvariance, PTL DEF Spec, AbortIsHeeded
=============================================================================
