-------------------------- MODULE MCStationConfig --------------------------
(* Constants of StationConfig for TLC. *)
EXTENDS StationConfig, TLC

Admin == [name |-> "ann", role |-> "admin", active |-> TRUE]
Plan == [name |-> "quiet", empty |-> FALSE]

\* A new station, and one in use.
Fresh == [user |-> <<>>, program |-> <<>>, instrument |-> <<>>, schedule |-> <<>>,
          station |-> FALSE]
InUse == [user |-> 1 :> Admin, program |-> 1 :> Plan,
          instrument |-> 1 :> [program |-> 1, calset |-> NoId],
          schedule |-> 1 :> [instrument |-> 1, program |-> NoId],
          station |-> TRUE]

MCScenarios == {Fresh, InUse}
MCFresh == {Fresh}

Symmetry == Permutations(Tokens) \cup Permutations(Posts)
=============================================================================
