------------------------------ MODULE MCRetry ------------------------------
(* Retry with small constants for TLC.                                     *)
EXTENDS Retry

CONSTANTS ByAttempts, ByTime    \* a loop limited by its attempts, one by its time

AttemptsOf == [l \in Loops |-> IF l = ByAttempts THEN 2 ELSE Infinity]
TimeoutOf  == [l \in Loops |-> IF l = ByTime THEN 1 ELSE Infinity]
=============================================================================
