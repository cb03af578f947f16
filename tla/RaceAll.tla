------------------------------- MODULE RaceAll -------------------------------
(***************************************************************************)
(* raceAll() and withAbort() of packages/async-tasks/src/abort.ts around a *)
(* parallel(): raceAll() races withAbort(h => ... parallel(tasks, {        *)
(* abortHandle: h })) with another contestant and aborts both once one has *)
(* settled.  The function given to withAbort() may have work of its own    *)
(* before it calls parallel().                                             *)
(***************************************************************************)
EXTENDS Parallel

VARIABLES
  form,             \* what is raced: the promise with its abort(), or the
                    \* object that withAbort() returns
  signals,          \* whether the other contestant is rejectOnFirstSignal()
  rival,            \* the other contestant
  outer,            \* the promise `p` of withAbort()
  hooked,           \* whether p.then(handle.abort, handle.abort) has run
  race              \* the promise of raceAll()

contestVars == <<form, signals, rival, outer, hooked, race>>
raceVars == <<vars, contestVars>>

RaceInit ==
  /\ Init
  /\ form \in {"promise", "object"}
  /\ signals \in BOOLEAN
  /\ rival = "pending"
  /\ outer = "pending"
  /\ hooked = FALSE
  /\ race = "racing"

\* What the other side of the race knows of: parallel() and its tasks.
PoolStep ==
  /\ Next
  /\ UNCHANGED contestVars

\* The other contestant settles.  The handlers of rejectOnFirstSignal() are
\* never given to process.once(), so that no signal reaches it.
RivalSettles ==
  /\ rival = "pending" /\ ~signals
  /\ rival' \in {"fulfilled", "rejected"}
  /\ UNCHANGED <<vars, form, signals, outer, hooked, race>>

\* handle.race(fn(handle)): the outcome of the function, or ABORT.
OuterSettles ==
  /\ outer = "pending"
  /\ \/ result # "none" /\ outer' = IF result = "threw" THEN "error" ELSE result
     \/ aborted /\ outer' = "ABORT"
  /\ UNCHANGED <<vars, form, signals, rival, hooked, race>>

\* Mutant: the handle is not told that its promise is over.
OuterAbortsNot ==
  /\ outer # "pending" /\ ~hooked
  /\ hooked' = TRUE
  /\ UNCHANGED <<vars, form, signals, rival, outer, race>>

\* Whatever else runs under the handle ends with the promise.
OuterAborts ==
  /\ outer # "pending" /\ ~hooked
  /\ hooked' = TRUE
  /\ Abort
  /\ UNCHANGED <<poolVars, result, form, signals, rival, outer, race>>

\* What await Promise.race(promises) may see.  The object of withAbort() has
\* `then` without its promise, so that to await it throws a TypeError.
Outcome ==
  (IF rival # "pending" THEN {rival} ELSE {})
    \cup (IF form = "promise" /\ outer # "pending" THEN {outer} ELSE {})
    \cup (IF form = "object" \/ signals THEN {"TypeError"} ELSE {})

\* Mutant: the losers of a rejected race are left alone.
RaceSettlesOnly ==
  /\ race = "racing"
  /\ race' \in Outcome
  /\ IF race' \in {"fulfilled", "values"} THEN Abort ELSE UNCHANGED handleVars
  /\ UNCHANGED <<poolVars, result, form, signals, rival, outer, hooked>>

\* The race is over and every abortable contestant is aborted, whether or not
\* it has settled.
RaceSettles ==
  /\ race = "racing"
  /\ race' \in Outcome
  /\ Abort
  /\ rival' = IF signals THEN "ABORT" ELSE rival
  /\ UNCHANGED <<poolVars, result, form, signals, outer, hooked>>

ContestStep == RivalSettles \/ OuterSettles \/ OuterAborts \/ RaceSettles

RaceNext == PoolStep \/ ContestStep

RaceSpec == RaceInit /\ [][RaceNext]_raceVars

\* As in Parallel, and the handle ends its race.  When raceAll() sees the end of
\* a contestant is left open, so that the rest of the tasks may go first.
RaceFairness ==
  /\ WF_raceVars(PoolStep /\ ResultSettles)
  /\ \A t \in Task : WF_raceVars(PoolStep /\ Callback(t))
  /\ WF_raceVars(OuterSettles)

FairRaceSpec == RaceSpec /\ RaceFairness
------------------------------------------------------------------------------
(***************************************************************************)
(* Properties                                                              *)
(***************************************************************************)
\* Once raceAll() has settled, by whichever contestant and either way, and
\* also once withAbort()'s own promise has, no further task of the parallel()
\* inside starts, though it may be called only then (abort.ts:100-114, 120).
LosersStartNothing ==
  [][race # "racing" \/ hooked => started' = started]_raceVars

\* When the race is over what was raced settles, too: the promise of
\* withAbort(), and that of parallel() if it was called (abort.ts:68-90).
LosersSettle ==
  race # "racing" ~> outer # "pending" /\ (called => result # "none")
==============================================================================
