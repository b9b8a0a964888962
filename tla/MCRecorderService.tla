------------------------- MODULE MCRecorderService -------------------------
(* RecorderService on small instances. *)
EXTENDS RecorderService, TLC


\* Recordings are interchangeable; sound for the safety runs only.
RunSymmetry == Permutations(Runs)

=============================================================================
