----------------------------- MODULE MCUploader -----------------------------
\* Uploader for TLC: the constants get their values in the .cfg files.
EXTENDS Uploader
=============================================================================
