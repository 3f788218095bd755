--------------------------- MODULE MCThreadPoolMan ---------------------------
(* Two workers and two callers: enough for two jobs in the list at once, *)
(* for the two workers to race for permits, and for one worker to be in *)
(* each place of its loop while the other serves a job.                 *)
EXTENDS ThreadPoolMan

CONSTANTS c1, c2

MCWorkers == 1..2
MCCallers == {c1, c2}

\* worker_count starts at 2 (as the pool's default does at more than one);
\* the counts passed are the -1 of "keep worker_count", a refused 0, and
\* each valid size
MCDefaultCount == 2
MCCounts == {-1, 0, 1, 2}

=============================================================================
