----------------------------- MODULE MCStationDb -----------------------------
\* StationDb for TLC: the constants get their values in the .cfg files.
EXTENDS StationDb
=============================================================================
