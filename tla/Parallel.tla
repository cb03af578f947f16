------------------------------ MODULE Parallel ------------------------------
(***************************************************************************)
(* parallel() of packages/async-tasks/src/parallel.ts: a list of tasks of  *)
(* which at most maxConcurrent run at a time, under an abort handle.       *)
(*                                                                         *)
(* next() runs to completion: it starts tasks, in their order, until no    *)
(* slot is free.  A task that is started may abort the handle or throw     *)
(* before it returns its promise; both end next() early.  The promise of a *)
(* task settles some microtasks before the callback that frees its slot,   *)
(* so the two are steps of their own.                                      *)
(***************************************************************************)
EXTENDS AbortHandle, Integers, FiniteSets

CONSTANTS
  NumTasks,         \* tasks.length
  MaxConcurrent,    \* options.maxConcurrent
  MayThrow          \* whether a task may throw instead of returning a promise

\* The one race under the handle is that of the promise parallel() returns.
All == "all"

ASSUME ParallelAssumption ==
  /\ Racers = {All}
  /\ NumTasks \in Nat
  /\ MaxConcurrent \in Nat
  /\ MayThrow \in BOOLEAN

VARIABLES
  called,           \* whether parallel() has been called
  started,          \* how many tasks were taken from the queue
  status,           \* per task: what it and its promise are doing
  freed,            \* the tasks whose callback has run
  running,          \* the counter of parallel()
  result            \* how the promise of parallel() settled

poolVars == <<called, started, status, freed, running>>
vars == <<handleVars, poolVars, result>>

Task    == 1..NumTasks
pending == NumTasks - started
Is(s)   == {t \in Task : status[t] = s}
Over    == Is("fulfilled") \cup Is("rejected")

Least(m, n) == IF m < n THEN m ELSE n

Init ==
  /\ HandleInit
  /\ called = FALSE
  /\ started = 0
  /\ status = [t \in Task |-> "queued"]
  /\ freed = {}
  /\ running = 0
  /\ result = "none"
------------------------------------------------------------------------------
\* n tasks are started, the last of them with status s.
Take(n, s) ==
  /\ started' = started + n
  /\ status' = [t \in Task |-> IF t = started + n /\ n > 0 THEN s
                               ELSE IF t \in started + 1 .. started + n THEN "running"
                               ELSE status[t]]

\* Mutant: a slot too many is thought to be free.
RoomPlusOne(r) == IF r > MaxConcurrent THEN 0 ELSE Least(MaxConcurrent + 1 - r, pending)

\* How many tasks the loop of next() starts when r slots are taken.
Room(r) == IF r >= MaxConcurrent THEN 0 ELSE Least(MaxConcurrent - r, pending)

\* Mutant: next() does not look at the handle.
NextUnchecked(r) ==
  /\ Take(Room(r), "running")
  /\ running' = r + Room(r)
  /\ UNCHANGED handleVars

\* next(), called with r slots taken.
NextTasks(r) ==
  LET k == IF aborted THEN 0 ELSE Room(r) IN
  \/ /\ Take(k, "running")
     /\ running' = r + k
     /\ UNCHANGED handleVars
  \/ \E n \in 1..k :
       /\ Take(n, "running")
       /\ running' = r + n
       /\ Abort
  \/ /\ MayThrow
     /\ \E n \in 1..k :
          /\ Take(n, "threw")
          /\ running' = r + n
     /\ UNCHANGED handleVars

\* parallel(): the race is entered before the first task starts.  When a task
\* throws here parallel() throws too, and its promise is never seen.
Call ==
  /\ ~called
  /\ called' = TRUE
  /\ UNCHANGED freed
  /\ \/ /\ aborted
        /\ result' = "ABORT"
        /\ UNCHANGED <<handleVars, started, status, running>>
     \/ /\ ~aborted
        /\ Take(Room(0), "running")
        /\ running' = Room(0)
        /\ handles' = {All}
        /\ UNCHANGED <<aborted, signalled, result>>
     \/ /\ ~aborted
        /\ \E n \in 1..Room(0) : Take(n, "running") /\ running' = n
        /\ aborted' = TRUE
        /\ signalled' = {All}
        /\ UNCHANGED <<handles, result>>
     \/ /\ ~aborted /\ MayThrow
        /\ \E n \in 1..Room(0) : Take(n, "threw") /\ running' = n
        /\ handles' = {All}
        /\ result' = "threw"
        /\ UNCHANGED <<aborted, signalled>>

TaskSettles(t, s) ==
  /\ status[t] = "running"
  /\ status' = [status EXCEPT ![t] = s]
  /\ UNCHANGED <<handleVars, called, started, freed, running, result>>

\* Mutants: a rejected task keeps its slot; the slot is not passed on.
CallbackOnSuccess(t) ==
  /\ status[t] = "fulfilled" /\ t \notin freed
  /\ freed' = freed \cup {t}
  /\ NextTasks(running - 1)
  /\ UNCHANGED <<called, result>>
CallbackOnly(t) ==
  /\ t \in Over \ freed
  /\ freed' = freed \cup {t}
  /\ running' = running - 1
  /\ UNCHANGED <<handleVars, called, started, status, result>>

\* The callback given to task.run(), after the task has settled either way.
Callback(t) ==
  /\ t \in Over \ freed
  /\ freed' = freed \cup {t}
  /\ NextTasks(running - 1)
  /\ UNCHANGED <<called, result>>

AllFulfilled == Is("fulfilled") = Task

\* The promise of parallel() settles: Promise.all of the tasks' promises,
\* raced with the handle.  When both are about to settle either may be first.
ResultSettles ==
  /\ called /\ result = "none"
  /\ \/ AllFulfilled /\ result' = "values"
     \/ Is("rejected") # {} /\ result' = "error"
     \/ All \in signalled /\ result' = "ABORT"
  /\ LeaveRace(All)
  /\ UNCHANGED poolVars

AbortAll ==
  /\ ~aborted
  /\ Abort
  /\ UNCHANGED <<poolVars, result>>

Next ==
  \/ Call
  \/ AbortAll
  \/ ResultSettles
  \/ \E t \in Task :
       \/ \E s \in {"fulfilled", "rejected"} : TaskSettles(t, s)
       \/ Callback(t)

Spec == Init /\ [][Next]_vars

\* Promise reactions run; a task need not settle.
Fairness == WF_vars(ResultSettles) /\ \A t \in Task : WF_vars(Callback(t))
FairSpec == Spec /\ Fairness

TasksSettle == \A t \in Task : WF_vars(\E s \in {"fulfilled", "rejected"} : TaskSettles(t, s))
------------------------------------------------------------------------------
(***************************************************************************)
(* Properties                                                              *)
(***************************************************************************)
\* The types of the pool; its counter of running tasks never becomes negative.
TypeOK ==
  /\ HandleTypeOK
  /\ called \in BOOLEAN
  /\ started \in 0..NumTasks
  /\ status \in [Task -> {"queued", "running", "fulfilled", "rejected", "threw"}]
  /\ freed \subseteq Task
  /\ running \in Nat
  /\ result \in {"none", "values", "error", "ABORT", "threw"}

\* At no time do more than maxConcurrent tasks run (parallel.ts:45); the
\* counter, which lags behind a settled task and keeps the slot of one that
\* threw, stands for exactly the tasks that were taken and not given back.
ConcurrencyLimit ==
  /\ Cardinality(Is("running")) <= MaxConcurrent
  /\ running = started - Cardinality(freed)
  /\ running <= MaxConcurrent

\* A task waits in the queue only while every slot is taken: no completion is
\* lost on the way to the next task (parallel.ts:60-64).
NoIdleSlot ==
  (called /\ ~aborted /\ Is("threw") = {}) => (pending = 0 \/ running = MaxConcurrent)

\* Tasks start in the order of the list, each once, and none after the handle
\* has fired, not even in a loop of next() that was under way when it did
\* (parallel.ts:45-46).
StartsInOrderUntilAbort ==
  [][/\ started' # started => ~aborted
     /\ \A t \in Task : (status[t] = "queued" /\ status'[t] # "queued")
                        => (started < t /\ t <= started')]_vars

\* When tasks settle every one of them is run, also after another was
\* rejected, unless the handle fires or a task throws; then the promise
\* settles (parallel.ts:44-67).
EveryTaskIsRun == TasksSettle =>
  (called ~> \/ aborted \/ Is("threw") # {}
             \/ Over = Task /\ running = 0 /\ result # "none")
=============================================================================
