CONSTANT MaxSize <- MCStatsMaxSize
CONSTANT Inodes <- MCInodes
CONSTANT Faults = {"short", "truncate"}
SPECIFICATION StatsSpec
INVARIANT RoundTrip
INVARIANT LoadOnlyForgets
