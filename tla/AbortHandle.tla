---------------------------- MODULE AbortHandle ----------------------------
(***************************************************************************)
(* AbortHandle of packages/async-tasks/src/abort.ts: a handle that rejects *)
(* every race it is part of.  A race registers an abort promise of its own *)
(* while it runs; abort() rejects the registered ones and forgets them.    *)
(* The callers that share a handle (retry, parallel) extend this module.   *)
(***************************************************************************)
CONSTANT Racers     \* the callers that may race under the handle, once at a time

VARIABLES
  aborted,          \* AbortHandle.aborted
  handles,          \* the racers whose abort promise is registered
  signalled         \* the racers whose abort promise has been rejected

handleVars == <<aborted, handles, signalled>>

HandleInit ==
  /\ aborted = FALSE
  /\ handles = {}
  /\ signalled = {}

HandleTypeOK ==
  /\ aborted \in BOOLEAN
  /\ handles \subseteq Racers
  /\ signalled \subseteq Racers

\* race(): under an aborted handle the caller's promise is rejected at once
\* and nothing is registered.
EnterRace(r) ==
  /\ ~aborted
  /\ handles' = handles \cup {r}
  /\ signalled' = signalled \ {r}
  /\ UNCHANGED aborted

\* Mutant: the abort promise stays registered when its race is over.
LeaveRaceOnly(r) == signalled' = signalled \ {r} /\ UNCHANGED <<aborted, handles>>

\* The race is over, whichever side has won it.
LeaveRace(r) ==
  /\ handles' = handles \ {r}
  /\ signalled' = signalled \ {r}
  /\ UNCHANGED aborted

\* Mutant: the set is emptied before its members are told.
AbortForgets == aborted' = TRUE /\ handles' = {} /\ UNCHANGED signalled

Abort ==
  /\ aborted' = TRUE
  /\ signalled' = signalled \cup handles
  /\ handles' = {}
=============================================================================
