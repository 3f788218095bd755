---------------------------- MODULE MCStatsFile ----------------------------
(* Model-checking instance of StatsFile: files of up to two bytes (lists   *)
(* of up to two pages, a truncation to remember), two inode numbers.       *)
EXTENDS StatsFile

MCStatsMaxSize == 2

MCInodes == {1, 2}

=============================================================================
