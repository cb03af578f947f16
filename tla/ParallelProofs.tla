--------------------------- MODULE ParallelProofs ---------------------------
(***************************************************************************)
(* Proofs about Parallel, for every number of tasks and slots, and about   *)
(* the race around it.                                                     *)
(***************************************************************************)
EXTENDS RaceAll, FiniteSetTheorems, TLAPS

\* The tasks are taken in the order of the list.
TakenInOrder == \A t \in Task : status[t] = "queued" <=> t > started

\* A slot is given back by a task that is over, and counted otherwise.
SlotsCounted ==
  /\ freed \subseteq Over
  /\ running = started - Cardinality(freed)
  /\ running <= MaxConcurrent

NothingBeforeCall == ~called => started = 0 /\ freed = {}

PoolInv == TypeOK /\ TakenInOrder /\ SlotsCounted /\ NothingBeforeCall

\* Sets of tasks are finite.
LEMMA TasksFinite ==
  ASSUME NEW S \in SUBSET Task
  PROVE  IsFiniteSet(S) /\ Cardinality(S) \in Nat
<1>1. IsFiniteSet(Task)
  BY ParallelAssumption, FS_Interval DEF Task
<1> QED BY <1>1, FS_Subset, FS_CardinalityType

\* The tasks that hold a slot are those taken and not given back.
LEMMA SlotHolders ==
  ASSUME PoolInv, NEW S \in SUBSET Task, S \subseteq 1..started, S \cap freed = {}
  PROVE  Cardinality(S) <= running
<1>1. started \in Nat /\ freed \subseteq Task /\ running = started - Cardinality(freed)
  BY ParallelAssumption DEF PoolInv, TypeOK, SlotsCounted
<1>2. IsFiniteSet(1..started) /\ Cardinality(1..started) = started
  BY <1>1, FS_Interval
<1>3. freed \subseteq 1..started
  BY ParallelAssumption DEF PoolInv, TypeOK, SlotsCounted, TakenInOrder, Over, Is, Task
<1> DEFINE Holders == (1..started) \ freed
<1>4. IsFiniteSet(Holders) /\ Cardinality(Holders) = running
  <2>1. (1..started) \cap freed = freed
    BY <1>3
  <2>2. /\ IsFiniteSet(Holders)
        /\ Cardinality(Holders) = Cardinality(1..started) - Cardinality((1..started) \cap freed)
    BY <1>2, FS_Difference
  <2> QED BY <1>1, <1>2, <2>1, <2>2
<1>5. S \in SUBSET Holders
  OBVIOUS
<1> HIDE DEF Holders
<1> QED BY <1>4, <1>5, FS_Subset

\* The counter never lets more tasks run than there are slots.
LEMMA LimitFollows == PoolInv => ConcurrencyLimit
<1> SUFFICES ASSUME PoolInv PROVE ConcurrencyLimit
  OBVIOUS
<1>1. Is("running") \in SUBSET Task /\ Is("running") \subseteq 1..started
  BY ParallelAssumption DEF PoolInv, TypeOK, TakenInOrder, Is, Task
<1>2. Is("running") \cap freed = {}
  BY DEF PoolInv, SlotsCounted, Over, Is
<1>3. Cardinality(Is("running")) <= running
  BY <1>1, <1>2, SlotHolders
<1>4. Cardinality(Is("running")) \in Nat
  BY <1>1, TasksFinite
<1> QED BY <1>3, <1>4, ParallelAssumption DEF PoolInv, TypeOK, SlotsCounted, ConcurrencyLimit

\* A task that is over and has not given its slot back holds one.
LEMMA HolderMeansRunning ==
  ASSUME PoolInv, NEW t \in Over \ freed
  PROVE  running - 1 \in Nat
<1>1. {t} \in SUBSET Task /\ {t} \subseteq 1..started /\ {t} \cap freed = {}
  BY ParallelAssumption DEF PoolInv, TypeOK, TakenInOrder, Over, Is, Task
<1>2. Cardinality({t}) <= running
  BY <1>1, SlotHolders
<1>3. Cardinality({t}) = 1
  BY FS_Singleton
<1> QED BY <1>2, <1>3 DEF PoolInv, TypeOK
------------------------------------------------------------------------------
\* n tasks are taken from the queue: those before them stay as they are.
LEMMA TakeKeeps ==
  ASSUME PoolInv, NEW n \in 0..pending, NEW s \in {"running", "threw"}, Take(n, s)
  PROVE  /\ started' \in 0..NumTasks /\ started' = started + n
         /\ status' \in [Task -> {"queued", "running", "fulfilled", "rejected", "threw"}]
         /\ \A t \in Task : t <= started => status'[t] = status[t]
         /\ n > 0 => started + n \in Task /\ status'[started + n] = s
         /\ TakenInOrder'
         /\ Over' = Over
<1>1. /\ started \in 0..NumTasks /\ NumTasks \in Nat /\ n \in Nat /\ started + n <= NumTasks
      /\ status \in [Task -> {"queued", "running", "fulfilled", "rejected", "threw"}]
      /\ \A t \in Task : t \in Int /\ (status[t] = "queued" <=> t > started)
  BY ParallelAssumption DEF PoolInv, TypeOK, TakenInOrder, pending, Task
<1>2. /\ started' = started + n /\ started' \in 0..NumTasks
      /\ status' = [t \in Task |-> IF t = started + n /\ n > 0 THEN s
                                   ELSE IF t \in started + 1 .. started + n THEN "running"
                                   ELSE status[t]]
  BY <1>1 DEF Take
<1>3. \A t \in Task : /\ t <= started => status'[t] = status[t]
                      /\ t > started /\ t <= started + n => status'[t] \in {"running", "threw"}
                      /\ t > started + n => status'[t] = "queued"
  BY <1>1, <1>2
<1>4. status' \in [Task -> {"queued", "running", "fulfilled", "rejected", "threw"}]
  BY <1>1, <1>2
<1>5. n > 0 => started + n \in Task /\ status'[started + n] = s
  BY <1>1, <1>2 DEF Task
<1>6. TakenInOrder'
  BY <1>1, <1>2, <1>3 DEF TakenInOrder
<1>7. Over' = Over
  BY <1>1, <1>3 DEF Over, Is
<1> QED BY <1>2, <1>3, <1>4, <1>5, <1>6, <1>7

\* How many tasks there is room for.
LEMMA RoomBounds ==
  ASSUME PoolInv, NEW r \in Nat, r <= MaxConcurrent
  PROVE  /\ Room(r) \in 0..pending
         /\ r + Room(r) <= MaxConcurrent
         /\ Room(r) = pending \/ r + Room(r) = MaxConcurrent
  BY ParallelAssumption DEF PoolInv, TypeOK, Room, Least, pending

\* Some tasks are taken when r slots are, and unless the handle fires or a task
\* throws, as many as there is room for.
Filled(r) ==
  \E n \in 0..pending, s \in {"running", "threw"} :
    /\ Take(n, s) /\ running' = r + n /\ r + n <= MaxConcurrent
    /\ \/ aborted'
       \/ s = "threw" /\ n > 0
       \/ n = pending \/ r + n = MaxConcurrent

LEMMA NextFills ==
  ASSUME PoolInv, NEW r \in Nat, r <= MaxConcurrent, NextTasks(r)
  PROVE  Filled(r) /\ HandleTypeOK'
<1> DEFINE k == IF aborted THEN 0 ELSE Room(r)
<1>1. /\ k \in 0..pending /\ k \in Nat /\ r + k <= MaxConcurrent /\ MaxConcurrent \in Nat
      /\ aborted \/ k = pending \/ r + k = MaxConcurrent
      /\ pending \in Nat
  BY RoomBounds, ParallelAssumption DEF PoolInv, TypeOK, pending
<1>2. HandleTypeOK
  BY DEF PoolInv, TypeOK
<1>3. CASE Take(k, "running") /\ running' = r + k /\ UNCHANGED handleVars
  <2>1. Filled(r)
    BY <1>1, <1>3 DEF Filled, handleVars
  <2> QED BY <1>2, <1>3, <2>1 DEF HandleTypeOK, handleVars
<1>4. ASSUME NEW n \in 1..k, Take(n, "running"), running' = r + n, Abort
      PROVE  Filled(r) /\ HandleTypeOK'
  <2>1. aborted' = TRUE /\ handles' \subseteq Racers /\ signalled' \subseteq Racers
    BY <1>2, <1>4 DEF Abort, HandleTypeOK
  <2>2. aborted' \in BOOLEAN /\ aborted'
    BY <2>1, Zenon
  <2>3. n \in 0..pending /\ r + n <= MaxConcurrent
    BY <1>1
  <2>4. Filled(r)
    BY <1>4, <2>2, <2>3 DEF Filled
  <2> QED BY <2>1, <2>2, <2>4 DEF HandleTypeOK
<1>5. ASSUME NEW n \in 1..k, Take(n, "threw"), running' = r + n, UNCHANGED handleVars
      PROVE  Filled(r) /\ HandleTypeOK'
  <2>1. n \in 0..pending /\ r + n <= MaxConcurrent /\ n > 0
    BY <1>1
  <2>2. Filled(r)
    BY <1>5, <2>1 DEF Filled
  <2> QED BY <1>2, <1>5, <2>2 DEF HandleTypeOK, handleVars
<1> QED BY <1>3, <1>4, <1>5 DEF NextTasks

\* What a filled pool keeps of the invariant, when the slots that are given back
\* belong to tasks that are over and r counts the others.
LEMMA FilledKeeps ==
  ASSUME PoolInv, NEW r \in Nat, Filled(r), freed' \subseteq Over,
         r = started - Cardinality(freed')
  PROVE  /\ started' \in 0..NumTasks /\ running' \in Nat
         /\ status' \in [Task -> {"queued", "running", "fulfilled", "rejected", "threw"}]
         /\ TakenInOrder' /\ SlotsCounted'
<1>1. PICK n \in 0..pending, s \in {"running", "threw"} :
        Take(n, s) /\ running' = r + n /\ r + n <= MaxConcurrent
  BY DEF Filled
<1>2. /\ started' \in 0..NumTasks /\ started' = started + n
      /\ status' \in [Task -> {"queued", "running", "fulfilled", "rejected", "threw"}]
      /\ TakenInOrder' /\ Over' = Over
  BY <1>1, TakeKeeps
<1>3. started \in Nat /\ n \in Nat /\ Cardinality(freed') \in Nat
  <2>1. freed' \in SUBSET Task
    BY DEF Over, Is
  <2> QED BY <2>1, TasksFinite, ParallelAssumption DEF PoolInv, TypeOK, pending
<1>4. running' \in Nat /\ running' = started' - Cardinality(freed') /\ running' <= MaxConcurrent
  BY <1>1, <1>2, <1>3
<1> QED BY <1>2, <1>4 DEF SlotsCounted
------------------------------------------------------------------------------
\* Nothing is taken before the call.
LEMMA InitHolds == Init => PoolInv /\ NoIdleSlot
<1> SUFFICES ASSUME Init PROVE PoolInv /\ NoIdleSlot
  OBVIOUS
<1>1. TypeOK
  <2>1. aborted = FALSE /\ called = FALSE
    BY DEF Init, HandleInit
  <2>2. aborted \in BOOLEAN /\ called \in BOOLEAN
    BY <2>1, Zenon
  <2> QED BY <2>2, ParallelAssumption DEF Init, HandleInit, HandleTypeOK, TypeOK
<1>2. TakenInOrder
  BY ParallelAssumption DEF Init, TakenInOrder, Task
<1>3. SlotsCounted
  <2>1. started = 0 /\ freed = {} /\ running = 0 /\ Cardinality(freed) = 0
    BY FS_EmptySet DEF Init
  <2> QED BY <2>1, ParallelAssumption DEF SlotsCounted
<1> QED BY <1>1, <1>2, <1>3 DEF Init, PoolInv, NothingBeforeCall, NoIdleSlot

\* The first tasks start, or none under an aborted handle.
LEMMA CallFills ==
  ASSUME PoolInv, Call
  PROVE  /\ HandleTypeOK' /\ called' = TRUE /\ freed' = freed
         /\ result' \in {"none", "values", "error", "ABORT", "threw"}
         /\ Filled(0) \/ (aborted' /\ UNCHANGED <<started, status, running>>)
<1>1. HandleTypeOK /\ result \in {"none", "values", "error", "ABORT", "threw"} /\ 0 \in Nat
  BY DEF PoolInv, TypeOK
<1>2. 0 <= MaxConcurrent /\ pending \in Nat
  BY ParallelAssumption DEF PoolInv, TypeOK, pending
<1>3. /\ Room(0) \in 0..pending /\ 0 + Room(0) <= MaxConcurrent
      /\ Room(0) = pending \/ 0 + Room(0) = MaxConcurrent
  BY <1>1, <1>2, RoomBounds
<1>4. called' = TRUE /\ freed' = freed
  BY DEF Call
<1>5. CASE aborted /\ result' = "ABORT" /\ UNCHANGED <<handleVars, started, status, running>>
  BY <1>1, <1>4, <1>5 DEF HandleTypeOK, handleVars
<1>6. CASE /\ Take(Room(0), "running") /\ running' = Room(0)
           /\ handles' = {All} /\ UNCHANGED <<aborted, signalled, result>>
  <2>1. Room(0) \in Nat /\ running' = 0 + Room(0)
    BY <1>2, <1>3, <1>6
  <2>2. Filled(0)
    BY <1>3, <1>6, <2>1 DEF Filled
  <2> QED BY <1>1, <1>4, <1>6, <2>2, ParallelAssumption DEF HandleTypeOK
<1>7. ASSUME NEW n \in 1..Room(0), Take(n, "running"), running' = n,
             aborted' = TRUE, signalled' = {All}, UNCHANGED <<handles, result>>
      PROVE  /\ HandleTypeOK' /\ result' \in {"none", "values", "error", "ABORT", "threw"}
             /\ Filled(0)
  <2>1. aborted' \in BOOLEAN /\ aborted'
    BY <1>7, Zenon
  <2>2. n \in 0..pending /\ 0 + n <= MaxConcurrent /\ running' = 0 + n
    BY <1>2, <1>3, <1>7, ParallelAssumption
  <2>3. Filled(0)
    BY <1>7, <2>1, <2>2 DEF Filled
  <2> QED BY <1>1, <1>7, <2>1, <2>3, ParallelAssumption DEF HandleTypeOK
<1>8. ASSUME NEW n \in 1..Room(0), Take(n, "threw"), running' = n,
             handles' = {All}, result' = "threw", UNCHANGED <<aborted, signalled>>
      PROVE  HandleTypeOK' /\ Filled(0)
  <2>1. n \in 0..pending /\ 0 + n <= MaxConcurrent /\ running' = 0 + n /\ n > 0
    BY <1>2, <1>3, <1>8, ParallelAssumption
  <2>2. Filled(0)
    BY <1>8, <2>1 DEF Filled
  <2> QED BY <1>1, <1>8, <2>2, ParallelAssumption DEF HandleTypeOK
<1> QED BY <1>4, <1>5, <1>6, <1>7, <1>8 DEF Call

LEMMA CallOK == PoolInv /\ Call => PoolInv'
<1> SUFFICES ASSUME PoolInv, Call PROVE PoolInv'
  OBVIOUS
<1>1. /\ HandleTypeOK' /\ called' = TRUE /\ freed' = freed
      /\ result' \in {"none", "values", "error", "ABORT", "threw"}
      /\ Filled(0) \/ (aborted' /\ UNCHANGED <<started, status, running>>)
  BY CallFills
<1>2. started = 0 /\ freed = {} /\ freed \subseteq Task
  BY DEF PoolInv, Call, NothingBeforeCall
<1>3. called' \in BOOLEAN /\ called'
  BY <1>1, Zenon
<1>4. CASE Filled(0)
  <2>1. freed' \subseteq Over /\ 0 = started - Cardinality(freed')
    BY <1>1, <1>2, FS_EmptySet
  <2>2. /\ started' \in 0..NumTasks /\ running' \in Nat
        /\ status' \in [Task -> {"queued", "running", "fulfilled", "rejected", "threw"}]
        /\ TakenInOrder' /\ SlotsCounted'
    BY <1>4, <2>1, FilledKeeps
  <2> QED BY <1>1, <1>2, <1>3, <2>2 DEF PoolInv, TypeOK, NothingBeforeCall
<1>5. CASE UNCHANGED <<started, status, running>>
  <2>1. TakenInOrder' /\ SlotsCounted'
    BY <1>1, <1>5 DEF PoolInv, TakenInOrder, SlotsCounted, Over, Is
  <2> QED BY <1>1, <1>2, <1>3, <1>5, <2>1 DEF PoolInv, TypeOK, NothingBeforeCall
<1> QED BY <1>1, <1>4, <1>5

\* The callback gives one slot back before next() counts.
LEMMA CallbackFills ==
  ASSUME PoolInv, NEW t \in Task, Callback(t)
  PROVE  /\ running - 1 \in Nat /\ running - 1 <= MaxConcurrent
         /\ Filled(running - 1) /\ HandleTypeOK'
         /\ freed' = freed \cup {t} /\ freed' \subseteq Over
         /\ running - 1 = started - Cardinality(freed')
         /\ called' = called /\ result' = result
<1>1. t \in Over \ freed /\ freed' = freed \cup {t} /\ NextTasks(running - 1)
      /\ called' = called /\ result' = result
  BY DEF Callback
<1>2. running - 1 \in Nat /\ running - 1 <= MaxConcurrent
  BY <1>1, HolderMeansRunning, ParallelAssumption DEF PoolInv, TypeOK, SlotsCounted
<1>3. Filled(running - 1) /\ HandleTypeOK'
  BY <1>1, <1>2, NextFills
<1>4. Cardinality(freed') = Cardinality(freed) + 1 /\ Cardinality(freed) \in Nat
  <2>1. freed \in SUBSET Task
    BY DEF PoolInv, TypeOK
  <2>2. IsFiniteSet(freed) /\ Cardinality(freed) \in Nat
    BY <2>1, TasksFinite
  <2> QED BY <1>1, <2>2, FS_AddElement
<1>5. running - 1 = started - Cardinality(freed') /\ freed' \subseteq Over
  BY <1>1, <1>4, ParallelAssumption DEF PoolInv, TypeOK, SlotsCounted
<1> QED BY <1>1, <1>2, <1>3, <1>5

LEMMA CallbackOK == ASSUME PoolInv, NEW t \in Task, Callback(t) PROVE PoolInv'
<1>1. /\ running - 1 \in Nat /\ Filled(running - 1) /\ HandleTypeOK'
      /\ freed' = freed \cup {t} /\ freed' \subseteq Over
      /\ running - 1 = started - Cardinality(freed')
      /\ called' = called /\ result' = result
  BY CallbackFills
<1>2. /\ started' \in 0..NumTasks /\ running' \in Nat
      /\ status' \in [Task -> {"queued", "running", "fulfilled", "rejected", "threw"}]
      /\ TakenInOrder' /\ SlotsCounted'
  BY <1>1, FilledKeeps
<1>3. called
  \* Before the call no task is over.
  BY <1>1, ParallelAssumption
     DEF PoolInv, TypeOK, NothingBeforeCall, TakenInOrder, Over, Is, Task
<1> QED BY <1>1, <1>2, <1>3 DEF PoolInv, TypeOK, NothingBeforeCall

\* The steps that take no task: one settles, the promise settles, the handle fires.
LEMMA TaskSettlesOK ==
  ASSUME PoolInv, NEW t \in Task, NEW s \in {"fulfilled", "rejected"}, TaskSettles(t, s)
  PROVE  PoolInv'
<1>1. /\ status[t] = "running" /\ status' = [status EXCEPT ![t] = s]
      /\ UNCHANGED <<handleVars, called, started, freed, running, result>>
  BY DEF TaskSettles
<1>2. Over \subseteq Over'
  BY <1>1 DEF PoolInv, TypeOK, Over, Is
<1>3. TypeOK' /\ TakenInOrder'
  BY <1>1 DEF PoolInv, TypeOK, TakenInOrder, HandleTypeOK, handleVars
<1> QED BY <1>1, <1>2, <1>3 DEF PoolInv, SlotsCounted, NothingBeforeCall

LEMMA OtherStepsOK ==
  ASSUME PoolInv, ResultSettles \/ AbortAll \/ UNCHANGED vars
  PROVE  PoolInv'
<1>1. HandleTypeOK' /\ result' \in {"none", "values", "error", "ABORT", "threw"}
  <2>1. HandleTypeOK /\ result \in {"none", "values", "error", "ABORT", "threw"}
    BY DEF PoolInv, TypeOK
  <2>2. CASE ResultSettles \/ UNCHANGED vars
    BY <2>1, <2>2 DEF ResultSettles, LeaveRace, HandleTypeOK, vars, handleVars
  <2>3. CASE AbortAll
    <3>1. /\ aborted' = TRUE /\ handles' \subseteq Racers /\ signalled' \subseteq Racers
          /\ result' = result
      BY <2>1, <2>3 DEF AbortAll, Abort, HandleTypeOK
    <3>2. aborted' \in BOOLEAN
      BY <3>1, Zenon
    <3> QED BY <2>1, <3>1, <3>2 DEF HandleTypeOK
  <2> QED BY <2>2, <2>3
<1>2. UNCHANGED poolVars
  BY DEF ResultSettles, AbortAll, vars
<1> QED BY <1>1, <1>2
        DEF PoolInv, TypeOK, TakenInOrder, SlotsCounted, NothingBeforeCall, Over, Is, poolVars

\* Every step keeps the invariant.
LEMMA StepHolds == PoolInv /\ [Next]_vars => PoolInv'
  BY CallOK, CallbackOK, TaskSettlesOK, OtherStepsOK DEF Next

LEMMA PoolInvariance == Spec => []PoolInv
  BY InitHolds, StepHolds, PTL DEF Spec

\* The counter of running tasks stays a natural number, whatever the number of
\* tasks and slots.
THEOREM ParallelTypeCorrect == Spec => []TypeOK
<1>1. PoolInv => TypeOK
  BY DEF PoolInv
<1> QED BY <1>1, PoolInvariance, PTL

\* No more than maxConcurrent tasks run, for every maxConcurrent (parallel.ts:45).
THEOREM LimitHolds == Spec => []ConcurrencyLimit
  BY LimitFollows, PoolInvariance, PTL
------------------------------------------------------------------------------
\* A slot that is filled as far as there are tasks is not idle.
LEMMA FilledIsNotIdle ==
  ASSUME PoolInv, NEW r \in Nat, Filled(r)
  PROVE  NoIdleSlot'
<1>1. PICK n \in 0..pending, s \in {"running", "threw"} :
        /\ Take(n, s) /\ running' = r + n /\ r + n <= MaxConcurrent
        /\ aborted' \/ (s = "threw" /\ n > 0) \/ n = pending \/ r + n = MaxConcurrent
  BY DEF Filled
<1>2. started' = started + n /\ (n > 0 => started + n \in Task /\ status'[started + n] = s)
  BY <1>1, TakeKeeps
<1>3. CASE aborted'
  BY <1>3 DEF NoIdleSlot
<1>4. CASE s = "threw" /\ n > 0
  BY <1>2, <1>4 DEF NoIdleSlot, Is
<1>5. CASE n = pending
  BY <1>2, <1>5, ParallelAssumption DEF PoolInv, TypeOK, NoIdleSlot, pending
<1>6. CASE r + n = MaxConcurrent
  BY <1>1, <1>6 DEF NoIdleSlot
<1> QED BY <1>1, <1>3, <1>4, <1>5, <1>6

LEMMA IdleStep == PoolInv /\ NoIdleSlot /\ [Next]_vars => NoIdleSlot'
<1> SUFFICES ASSUME PoolInv, NoIdleSlot, [Next]_vars PROVE NoIdleSlot'
  OBVIOUS
<1>1. CASE Call
  BY <1>1, CallFills, FilledIsNotIdle DEF NoIdleSlot
<1>2. ASSUME NEW t \in Task, Callback(t) PROVE NoIdleSlot'
  BY <1>2, CallbackFills, FilledIsNotIdle
<1>3. ASSUME NEW t \in Task, NEW s \in {"fulfilled", "rejected"}, TaskSettles(t, s)
      PROVE  NoIdleSlot'
  <2>1. \A u \in Task : status'[u] = "threw" <=> status[u] = "threw"
    BY <1>3 DEF TaskSettles, PoolInv, TypeOK
  <2>2. Is("threw")' = Is("threw")
    BY <2>1 DEF Is
  <2> QED BY <1>3, <2>2 DEF TaskSettles, NoIdleSlot, pending, handleVars
<1>4. CASE ResultSettles \/ UNCHANGED vars
  BY <1>4 DEF ResultSettles, LeaveRace, NoIdleSlot, Is, pending, poolVars, handleVars, vars
<1>5. CASE AbortAll
  BY <1>5 DEF AbortAll, Abort, NoIdleSlot
<1> QED BY <1>1, <1>2, <1>3, <1>4, <1>5 DEF Next

\* No completion is lost on the way to the next task (parallel.ts:60-64).
THEOREM SlotsAreUsed == Spec => []NoIdleSlot
  BY InitHolds, StepHolds, IdleStep, PTL DEF Spec

\* What StartsInOrderUntilAbort says of a step.
InOrder ==
  /\ started' # started => ~aborted
  /\ \A t \in Task : (status[t] = "queued" /\ status'[t] # "queued")
                     => (started < t /\ t <= started')

\* Only next() takes tasks, and it looks at the handle first.
LEMMA StepInOrder == PoolInv /\ [Next]_vars => InOrder
<1> SUFFICES ASSUME PoolInv, [Next]_vars PROVE InOrder
  OBVIOUS
<1>1. PoolInv'
  BY StepHolds
<1>2. \A t \in Task : (status[t] = "queued" /\ status'[t] # "queued")
                      => (started < t /\ t <= started')
  BY <1>1, ParallelAssumption DEF PoolInv, TypeOK, TakenInOrder, Task
<1>3. CASE Call
  BY <1>2, <1>3 DEF Call, InOrder
<1>4. ASSUME NEW t \in Task, Callback(t) PROVE InOrder
  <2>1. NextTasks(running - 1)
    BY <1>4 DEF Callback
  <2>2. CASE aborted
    <3>1. Take(0, "running")
      BY <2>1, <2>2 DEF NextTasks
    <3>2. started' = started
      BY <3>1, ParallelAssumption DEF Take, PoolInv, TypeOK
    <3> QED BY <1>2, <3>2 DEF InOrder
  <2> QED BY <1>2, <2>2 DEF InOrder
<1>5. CASE UNCHANGED started
  BY <1>2, <1>5 DEF InOrder
<1> QED BY <1>3, <1>4, <1>5
        DEF Next, TaskSettles, ResultSettles, AbortAll, poolVars, vars

\* The list is worked off in its order and none of it after the handle has fired
\* (parallel.ts:45-46).
THEOREM TasksStartInOrder == Spec => StartsInOrderUntilAbort
  BY PoolInvariance, StepInOrder, PTL DEF Spec, StartsInOrderUntilAbort, InOrder
------------------------------------------------------------------------------
(***************************************************************************)
(* The race around the pool                                                *)
(***************************************************************************)
\* An aborted handle holds no promise, so that to abort it again changes nothing; and
\* whatever ends the contest has aborted it.
RaceInv ==
  /\ aborted \/ ~called => handles = {}
  /\ race # "racing" \/ hooked => aborted

\* To abort is a step of the pool, or none.
LEMMA AbortIsPoolStep ==
  ASSUME RaceInv, aborted \in BOOLEAN, Abort, UNCHANGED <<poolVars, result>>
  PROVE  [Next]_vars
<1>1. CASE aborted
  BY <1>1 DEF RaceInv, Abort, vars, handleVars
<1>2. CASE ~aborted
  BY <1>2 DEF AbortAll, Next
<1> QED BY <1>1, <1>2

\* A step of the race is one of the pool, or leaves it alone.
LEMMA RaceStepIsPoolStep ==
  ASSUME RaceInv, aborted \in BOOLEAN, [RaceNext]_raceVars
  PROVE  [Next]_vars
<1>1. CASE OuterAborts \/ RaceSettles
  BY <1>1, AbortIsPoolStep DEF OuterAborts, RaceSettles
<1>2. CASE RivalSettles \/ OuterSettles \/ UNCHANGED raceVars
  BY <1>2 DEF RivalSettles, OuterSettles, raceVars
<1> QED BY <1>1, <1>2 DEF RaceNext, ContestStep, PoolStep

\* Steps of the pool keep what the race needs of the handle.
LEMMA PoolKeepsHandle ==
  ASSUME RaceInv, PoolInv, Next
  PROVE  (aborted' \/ ~called' => handles' = {}) /\ (aborted => aborted')
<1>1. CASE Call
  BY <1>1 DEF Call, RaceInv, handleVars
<1>2. CASE AbortAll
  BY <1>2 DEF AbortAll, Abort
<1>3. CASE ResultSettles
  BY <1>3 DEF ResultSettles, LeaveRace, RaceInv, poolVars
<1>4. ASSUME NEW t \in Task, NEW s, TaskSettles(t, s)
      PROVE  (aborted' \/ ~called' => handles' = {}) /\ (aborted => aborted')
  BY <1>4 DEF TaskSettles, RaceInv, handleVars
<1>5. ASSUME NEW t \in Task, Callback(t)
      PROVE  (aborted' \/ ~called' => handles' = {}) /\ (aborted => aborted')
  BY <1>5 DEF Callback, NextTasks, RaceInv, handleVars, Abort
<1> QED BY <1>1, <1>2, <1>3, <1>4, <1>5 DEF Next

LEMMA RaceInvHolds == RaceSpec => [](RaceInv /\ PoolInv)
<1>1. RaceInit => RaceInv /\ PoolInv
  BY InitHolds DEF RaceInit, Init, HandleInit, RaceInv
<1>2. RaceInv /\ PoolInv /\ [RaceNext]_raceVars => (RaceInv /\ PoolInv)'
  <2> SUFFICES ASSUME RaceInv, PoolInv, [RaceNext]_raceVars PROVE (RaceInv /\ PoolInv)'
    OBVIOUS
  <2>0. aborted \in BOOLEAN
    BY DEF PoolInv, TypeOK, HandleTypeOK
  <2>1. PoolInv'
    BY <2>0, RaceStepIsPoolStep, StepHolds
  <2>2. CASE PoolStep
    <3>1. (aborted' \/ ~called' => handles' = {}) /\ (aborted => aborted')
      BY <2>2, PoolKeepsHandle DEF PoolStep
    <3>2. race' = race /\ hooked' = hooked
      BY <2>2 DEF PoolStep, contestVars
    <3>3. race' # "racing" \/ hooked' => aborted'
      BY <3>1, <3>2, Zenon DEF RaceInv
    <3>4. RaceInv'
      BY <3>1, <3>3, Zenon DEF RaceInv
    <3> QED BY <2>1, <3>4
  <2>3. CASE OuterAborts \/ RaceSettles
    <3>1. aborted' = TRUE /\ handles' = {}
      BY <2>3 DEF OuterAborts, RaceSettles, Abort
    <3>2. RaceInv'
      BY <3>1, Zenon DEF RaceInv
    <3> QED BY <2>1, <3>2
  <2>4. CASE RivalSettles \/ OuterSettles \/ UNCHANGED raceVars
    <3>1. UNCHANGED <<aborted, handles, called, race, hooked>>
      BY <2>4 DEF RivalSettles, OuterSettles, raceVars, contestVars, vars, handleVars, poolVars
    <3>2. RaceInv'
      BY <3>1, Zenon DEF RaceInv
    <3> QED BY <2>1, <3>2
  <2> QED BY <2>1, <2>2, <2>3, <2>4 DEF RaceNext, ContestStep
<1> QED BY <1>1, <1>2, PTL DEF RaceSpec

\* Inside a race parallel() does what it does by itself: the race is one more caller of
\* abort() (abort.ts:68-125).
THEOREM RaceImplementsParallel == RaceSpec => Spec
<1>1. RaceInit => Init
  BY DEF RaceInit
<1>2. RaceInv /\ PoolInv /\ [RaceNext]_raceVars => [Next]_vars
  BY RaceStepIsPoolStep DEF PoolInv, TypeOK, HandleTypeOK
<1> QED BY <1>1, <1>2, RaceInvHolds, PTL DEF Spec, RaceSpec

\* Once the race is over, or the promise of withAbort(), no further task starts
\* (abort.ts:100-120).
THEOREM LosersAreIdle == RaceSpec => LosersStartNothing
<1>1. RaceInv /\ PoolInv /\ [RaceNext]_raceVars =>
        [race # "racing" \/ hooked => started' = started]_raceVars
  <2> SUFFICES ASSUME RaceInv, PoolInv, [RaceNext]_raceVars, race # "racing" \/ hooked
               PROVE  started' = started
    OBVIOUS
  <2>1. aborted
    BY DEF RaceInv
  <2>2. [Next]_vars
    BY RaceStepIsPoolStep DEF PoolInv, TypeOK, HandleTypeOK
  <2> QED BY <2>1, <2>2, StepInOrder DEF InOrder
<1>2. RaceSpec => [][RaceNext]_raceVars
  BY PTL DEF RaceSpec
<1> QED BY <1>1, <1>2, RaceInvHolds, PTL DEF LosersStartNothing
=============================================================================
