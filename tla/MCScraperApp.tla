---------------------------- MODULE MCScraperApp ----------------------------
(* ScraperApp with small constants for TLC.                                *)
EXTENDS ScraperApp

NoEntryLimit == -1
=============================================================================
