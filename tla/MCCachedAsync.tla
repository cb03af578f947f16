--------------------------- MODULE MCCachedAsync ---------------------------
(* CachedAsync with small constants for TLC.                               *)
EXTENDS CachedAsync, TLC

MCValues == 1..MaxFlights

\* Keys are interchangeable, and so are callers.
KeysAndCallers == Permutations(Keys) \cup Permutations(Callers)
=============================================================================
