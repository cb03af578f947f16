----------------------------- MODULE MCHecClient -----------------------------
(* HecClient with small constants for TLC.                                 *)
EXTENDS HecClient, TLC

NoEntryLimit == -1

\* Callers are interchangeable; used by the runs without liveness.
CallSymmetry == Permutations(Calls)
==============================================================================
