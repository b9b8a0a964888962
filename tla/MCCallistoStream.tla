-------------------------- MODULE MCCallistoStream --------------------------
\* CallistoStream for TLC: the constants get their values in the .cfg files.
EXTENDS CallistoStream
=============================================================================
