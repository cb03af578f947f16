---------------------------- MODULE ShutdownAll ----------------------------
(***************************************************************************)
(* shutdownAll() of packages/managed-resource/src/resource.ts: resources   *)
(* are shut down one after the other, each is told how much time it may    *)
(* take, and a rejection makes the whole shutdown dirty but stops nothing. *)
(* What a resource does when it is told, and when it settles, is up to the *)
(* module that extends this one.                                           *)
(***************************************************************************)
EXTENDS Integers

CONSTANTS
  Count,      \* how many resources there are
  MaxTime,    \* the argument maxTime
  TimeCap,    \* bound: where the clock stops
  NoLimit     \* JavaScript's undefined, given as a time limit

ASSUME ShutdownAssumption ==
  /\ Count \in Nat \ {0}
  /\ MaxTime \in Nat
  /\ TimeCap \in Nat
  /\ NoLimit \notin Int

VARIABLES
  current,    \* the resource that is awaited; 0 before, Count + 1 after
  limit,      \* per resource: the time limit it was told
  clean,      \* cleanShutdown
  now         \* time since shutdownAll() was called

shutdownVars == <<current, limit, clean, now>>

Resource == 1..Count
Returned == current = Count + 1

ShutdownInit ==
  /\ current = 0
  /\ limit = [r \in Resource |-> NoLimit]
  /\ clean = TRUE
  /\ now = 0

ShutdownTypeOK ==
  /\ current \in 0..(Count + 1)
  /\ limit \in [Resource -> Nat \cup {NoLimit}]
  /\ clean \in BOOLEAN
  /\ now \in 0..TimeCap

remainingShutdownTime == now - MaxTime

LimitNow ==
  IF remainingShutdownTime > 0 THEN remainingShutdownTime ELSE NoLimit

\* The call of shutdown() of resource r.
Tell(r) ==
  /\ current' = r
  /\ limit' = [limit EXCEPT ![r] = LimitNow]

ShutdownStarts ==
  /\ current = 0
  /\ Tell(1)
  /\ UNCHANGED <<clean, now>>

\* Mutant: a rejection is not noted.
ResourceSettlesQuietly(r, ok) ==
  /\ current = r
  /\ IF r < Count THEN Tell(r + 1) ELSE current' = r + 1 /\ UNCHANGED limit
  /\ UNCHANGED <<clean, now>>

\* The promise of resource r is fulfilled, or is rejected (~ok).
ResourceSettles(r, ok) ==
  /\ current = r
  /\ clean' = (clean /\ ok)
  /\ IF r < Count THEN Tell(r + 1) ELSE current' = r + 1 /\ UNCHANGED limit
  /\ UNCHANGED now

\* Time that passes while a resource shuts down.
Tick ==
  /\ current \in Resource
  /\ now < TimeCap
  /\ now' = now + 1
  /\ UNCHANGED <<current, limit, clean>>
=============================================================================
