------------------------------ MODULE MCRaceAll ------------------------------
(* RaceAll with small constants for TLC.                                   *)
EXTENDS RaceAll
==============================================================================
