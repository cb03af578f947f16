-------------------------- MODULE MCStatsCollector --------------------------
(* StatsCollector with small constants for TLC.                            *)
EXTENDS StatsCollector

MCValue == <<3, 1, 3>>
=============================================================================
