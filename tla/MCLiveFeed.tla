----------------------------- MODULE MCLiveFeed -----------------------------
\* LiveFeed for TLC: the constants get their values in the .cfg files.
EXTENDS LiveFeed
=============================================================================
