---------------------------- MODULE MCStatsFile ----------------------------
\* StatsFile for TLC.
EXTENDS StatsFile
=============================================================================
