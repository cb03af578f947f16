------------------------------- MODULE Retry -------------------------------
(***************************************************************************)
(* retry() of packages/async-tasks/src/retry.ts: loops that run a task     *)
(* until it succeeds, the attempts are used up, the time is over or the    *)
(* abort handle they share fires.                                          *)
(*                                                                         *)
(* An action is the code between two awaits.  The end of a race and the    *)
(* continuation of the loop are two steps: other callbacks, and abort(),   *)
(* may run between them.  Within an action the loop calls its own          *)
(* callbacks: the task, onRetry, onError and waitBetween.  Each of them    *)
(* may abort the handle, and all but the task may throw; the task is an    *)
(* async function, as in every use of retry() in the repository, so it     *)
(* never throws before it returns its promise.  abort() does not stop a    *)
(* task: it only stops the loop from waiting for it.                       *)
(***************************************************************************)
EXTENDS AbortHandle, Integers

CONSTANTS
  Loops,            \* the calls of retry() that share an abort handle
  Attempts,         \* per loop: options.attempts
  Timeout,          \* per loop: options.timeout, Infinity when not given
  Infinity,         \* JavaScript's Infinity
  AttemptCap        \* bound: where the attempt counter stops counting

\* A counter that stops beyond Attempts decides `attempt < attempts` as the
\* unbounded one does.
ASSUME RetryAssumption ==
  /\ Racers = Loops
  /\ Infinity \notin Int
  /\ Attempts \in [Loops -> Nat \cup {Infinity}]
  /\ Timeout \in [Loops -> Nat \cup {Infinity}]
  /\ AttemptCap \in Nat \ {0}
  /\ \A l \in Loops : Attempts[l] # Infinity => AttemptCap >= Attempts[l]

VARIABLES
  pc,               \* per loop: where it is
  event,            \* per loop: how the race it awaits ended
  attempt,          \* per loop: attempts begun
  running,          \* per loop: how many of its tasks are running
  elapsed,          \* per loop: the time since its start, up to Timeout + 1
  result            \* per loop: how its promise settled

loopVars == <<pc, event, attempt, running, elapsed, result>>
vars == <<handleVars, loopVars>>

\* A task may itself reject with ABORT or RETRY_ABORT.
Outcomes == {"value", "error", "ABORT"}
Awaiting == {"racing", "sleeping"}
\* "thrown" is an error of a callback, "ended" running out of the loop.
Results  == {"none", "value", "error", "timeout", "RETRY_ABORT", "ABORT",
             "thrown", "ended"}

Init ==
  /\ HandleInit
  /\ pc = [l \in Loops |-> "idle"]
  /\ event = [l \in Loops |-> "none"]
  /\ attempt = [l \in Loops |-> 0]
  /\ running = [l \in Loops |-> 0]
  /\ elapsed = [l \in Loops |-> 0]
  /\ result = [l \in Loops |-> "none"]

Goto(l, place, e) ==
  /\ pc' = [pc EXCEPT ![l] = place]
  /\ event' = [event EXCEPT ![l] = e]

Settle(l, r) ==
  /\ Goto(l, "done", "none")
  /\ result' = [result EXCEPT ![l] = r]
  /\ UNCHANGED <<running, elapsed>>

MoreAttempts(l, n) == IF Attempts[l] = Infinity THEN TRUE ELSE n < Attempts[l]

TimedOut(l) == IF Timeout[l] = Infinity THEN FALSE ELSE elapsed[l] > Timeout[l]

\* A callback calls abort(), or none does.
MayAbort == UNCHANGED handleVars \/ (~aborted /\ Abort)

\* The handle fired before, or a callback makes it fire.
HasFired == (aborted /\ UNCHANGED handleVars) \/ (~aborted /\ Abort)

\* The wait before the next attempt, which waitBetween may abort.
Sleep(l) ==
  /\ \/ EnterRace(l) /\ Goto(l, "sleeping", "none")
     \/ Abort /\ Goto(l, "slept", "ABORT")
  /\ UNCHANGED <<running, elapsed, result>>

\* The catch block after n attempts, for an error that is not an abort signal.
\* onError, called first, and waitBetween may throw.
CatchError(l, n) ==
  \/ Settle(l, "thrown") /\ MayAbort
  \/ Settle(l, "RETRY_ABORT") /\ HasFired
  \/ ~aborted /\ TimedOut(l) /\ Settle(l, "timeout") /\ UNCHANGED handleVars
  \/ ~aborted /\ ~TimedOut(l) /\ MoreAttempts(l, n) /\ Sleep(l)
  \/ /\ ~aborted /\ ~TimedOut(l) /\ ~MoreAttempts(l, n)
     /\ Settle(l, "error")
     /\ UNCHANGED handleVars

CountAttempt(l) ==
  attempt' = [attempt EXCEPT ![l] = IF @ < AttemptCap THEN @ + 1 ELSE @]

CallTask(l) == running' = [running EXCEPT ![l] = @ + 1] /\ UNCHANGED <<elapsed, result>>

\* Mutant: the attempts are not counted.
BeginAttemptUncounted(l) ==
  /\ UNCHANGED attempt
  /\ CallTask(l) /\ EnterRace(l) /\ Goto(l, "racing", "none")

\* The task is called, then raced with the handle.  When onRetry, which a first
\* attempt does not call, or the task itself aborts the handle, the task has
\* been called all the same and the race is lost at once.  When onRetry throws,
\* the task is not called.
BeginAttempt(l) ==
  /\ CountAttempt(l)
  /\ \/ CallTask(l) /\ EnterRace(l) /\ Goto(l, "racing", "none")
     \/ CallTask(l) /\ Abort /\ Goto(l, "raced", "ABORT")
     \/ attempt[l] > 0 /\ CatchError(l, attempt'[l])

\* Mutant: the handle is looked at neither here nor by the race.
LoopTopUnchecked(l) ==
  \/ ~MoreAttempts(l, attempt[l]) /\ Settle(l, "ended") /\ UNCHANGED <<handleVars, attempt>>
  \/ /\ MoreAttempts(l, attempt[l])
     /\ CountAttempt(l) /\ CallTask(l) /\ Goto(l, "racing", "none")
     /\ handles' = handles \cup {l}
     /\ UNCHANGED <<aborted, signalled>>

\* The head of the while loop.
LoopTop(l) ==
  \/ /\ ~MoreAttempts(l, attempt[l])
     /\ Settle(l, "ended")
     /\ UNCHANGED <<handleVars, attempt>>
  \/ /\ MoreAttempts(l, attempt[l]) /\ aborted
     /\ Settle(l, "RETRY_ABORT")
     /\ UNCHANGED <<handleVars, attempt>>
  \/ MoreAttempts(l, attempt[l]) /\ ~aborted /\ BeginAttempt(l)

\* retry() runs to its first await.
Start(l) ==
  /\ pc[l] = "idle"
  /\ LoopTop(l)
------------------------------------------------------------------------------
\* A race of loop l is over.
EndRace(l, next, e) ==
  /\ LeaveRace(l)
  /\ Goto(l, next, e)
  /\ UNCHANGED <<attempt, elapsed, result>>

\* The task settles.  If the loop still races it, the race may have that
\* outcome even when abort() has been called since: the abort promise is a
\* thenable whose rejection arrives some microtasks later.
TaskSettles(l, o) ==
  /\ pc[l] = "racing"
  /\ running' = [running EXCEPT ![l] = @ - 1]
  /\ EndRace(l, "raced", o)

AbortWins(l) ==
  /\ l \in signalled
  /\ \/ pc[l] = "racing" /\ EndRace(l, "raced", "ABORT")
     \/ pc[l] = "sleeping" /\ EndRace(l, "slept", "ABORT")
  /\ UNCHANGED running

\* Mutant: the wait for the next attempt does not wait for the failure.
SleepEndsEarly(l) ==
  /\ pc[l] \in Awaiting
  /\ EndRace(l, "slept", "value")
  /\ UNCHANGED running

SleepEnds(l) ==
  /\ pc[l] = "sleeping"
  /\ EndRace(l, "slept", "value")
  /\ UNCHANGED running

\* The task an aborted loop no longer waits for settles.
AbandonedTaskSettles(l) ==
  /\ running[l] > 0
  /\ pc[l] # "racing"
  /\ running' = [running EXCEPT ![l] = @ - 1]
  /\ UNCHANGED <<handleVars, pc, event, attempt, elapsed, result>>
------------------------------------------------------------------------------
\* The continuation of `await abortHandle.race(task())`.  onError hears of an
\* abort signal too.
AfterRace(l) ==
  /\ pc[l] = "raced"
  /\ \/ event[l] = "value" /\ Settle(l, "value") /\ UNCHANGED handleVars
     \/ event[l] = "ABORT" /\ Settle(l, "RETRY_ABORT") /\ MayAbort
     \/ event[l] = "ABORT" /\ Settle(l, "thrown") /\ MayAbort
     \/ event[l] = "error" /\ CatchError(l, attempt[l])
  /\ UNCHANGED attempt

\* The continuation of `await abortHandle.race(sleep(waitTime))`, which is in
\* the catch block: its rejection leaves the loop as it is.
AfterSleep(l) ==
  /\ pc[l] = "slept"
  /\ \/ event[l] = "ABORT" /\ Settle(l, "ABORT") /\ UNCHANGED <<handleVars, attempt>>
     \/ event[l] = "value" /\ LoopTop(l)

\* Time passes for a loop that is under way.
Tick(l) ==
  /\ pc[l] \notin {"idle", "done"}
  /\ IF Timeout[l] = Infinity THEN FALSE ELSE elapsed[l] <= Timeout[l]
  /\ elapsed' = [elapsed EXCEPT ![l] = @ + 1]
  /\ UNCHANGED <<handleVars, pc, event, attempt, running, result>>

\* Code outside of the loops calls abort().
AbortAll ==
  /\ ~aborted
  /\ Abort
  /\ UNCHANGED loopVars

LoopStep(l) ==
  \/ Start(l)
  \/ \E o \in Outcomes : TaskSettles(l, o)
  \/ AbortWins(l)
  \/ SleepEnds(l)
  \/ AbandonedTaskSettles(l)
  \/ AfterRace(l)
  \/ AfterSleep(l)
  \/ Tick(l)

Next == AbortAll \/ \E l \in Loops : LoopStep(l)

Spec == Init /\ [][Next]_vars

\* Promise reactions and timers run, and time passes; a task need not settle.
Fairness == \A l \in Loops :
  /\ WF_vars(AfterRace(l)) /\ WF_vars(AfterSleep(l))
  /\ WF_vars(AbortWins(l)) /\ WF_vars(SleepEnds(l))
  /\ WF_vars(Tick(l))
FairSpec == Spec /\ Fairness

\* Tasks settle: fetch answers or fails.
TasksSettle == \A l \in Loops : WF_vars(\E o \in Outcomes : TaskSettles(l, o))
------------------------------------------------------------------------------
(***************************************************************************)
(* Properties                                                              *)
(***************************************************************************)
TypeOK ==
  /\ HandleTypeOK
  /\ pc \in [Loops -> Awaiting \cup {"idle", "raced", "slept", "done"}]
  /\ event \in [Loops -> Outcomes \cup {"none"}]
  /\ attempt \in [Loops -> 0..AttemptCap]
  /\ running \in [Loops -> Nat]
  /\ elapsed \in [Loops -> Nat]
  /\ result \in [Loops -> Results]

\* The abort handle of a loop is registered exactly while the loop awaits a
\* race that abort() has not reached: no await is out of abort()'s reach, and
\* a loop that is over leaves nothing behind in the handle (abort.ts:77-85).
EveryAwaitIsAbortable ==
  /\ handles = {l \in Loops : pc[l] \in Awaiting /\ ~aborted}
  /\ signalled = {l \in Loops : pc[l] \in Awaiting /\ aborted}

\* The attempts of a loop never overlap: while one is awaited exactly its
\* task runs, a wait begins only after the task has failed, and only an abort
\* leaves a task behind (retry.ts:70, 91).
AttemptsDoNotOverlap ==
  \A l \in Loops :
    /\ pc[l] = "racing" => running[l] = 1
    /\ pc[l] \in {"idle", "sleeping", "slept"} => running[l] = 0
    /\ running[l] <= 1
    /\ (pc[l] = "done" /\ running[l] = 1) =>
         (aborted /\ result[l] \in {"RETRY_ABORT", "thrown"})

\* The promise of a loop settles with an outcome the loop has met: an error
\* only when every attempt was used, a timeout only after the time was over,
\* ABORT only when the handle has fired, and never by running out of the loop
\* unless no attempt was asked for (retry.ts:77-97).
OutcomeIsEarned ==
  \A l \in Loops :
    /\ result[l] = "error" => attempt[l] = Attempts[l]
    /\ result[l] = "timeout" => TimedOut(l)
    /\ result[l] = "ABORT" => aborted
    /\ result[l] = "ended" => Attempts[l] = 0
    /\ Attempts[l] # Infinity => attempt[l] <= Attempts[l]

\* After abort() no attempt begins and no loop starts to wait: at the head
\* of the loop and in the catch block the handle is looked at after the last
\* await (retry.ts:58, 82).  What the abort of a loop's own callback does not
\* stop is the task of that very attempt (retry.ts:68-70), which is not waited
\* for.
AbortIsHeeded ==
  [][aborted' => \A l \in Loops :
       /\ aborted => attempt'[l] = attempt[l] /\ running'[l] <= running[l]
       /\ running'[l] > running[l] => pc'[l] = "raced" /\ event'[l] = "ABORT"
       /\ pc'[l] \in Awaiting => pc[l] = pc'[l]]_vars

\* abort() settles every loop that was under way, tasks that hang included
\* (abort.ts:68-74).
AbortSettles == \A l \in Loops : (aborted /\ pc[l] # "idle") ~> (pc[l] = "done")

\* A loop whose tasks settle comes to its end when its attempts are limited,
\* as the scraper's are (scrape.ts:122), or its time is, as those of the HEC
\* client's waitUntilAvailable() are (client.ts:217; retry.ts:57, 85).
RetryEnds == TasksSettle =>
  \A l \in Loops : Attempts[l] # Infinity \/ Timeout[l] # Infinity =>
    (pc[l] # "idle" ~> pc[l] = "done")
=============================================================================
