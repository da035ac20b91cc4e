--------------------------- MODULE MCScholarFlow ---------------------------
(* Model-checking instance of ScholarFlow: papers and request slots are     *)
(* anonymous, so permuting them changes nothing a property can tell.        *)
EXTENDS JobProperties, TLC

Anonymous == Permutations(Papers) \cup Permutations(Requests)
=============================================================================
