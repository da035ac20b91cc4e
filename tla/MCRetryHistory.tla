--------------------------- MODULE MCRetryHistory ---------------------------
(* Model-checking instance of RetryHistory: papers and request slots are    *)
(* anonymous, so permuting them changes nothing a property can tell.        *)
EXTENDS RetryHistory, TLC

Anonymous == Permutations(Papers) \cup Permutations(Requests)
=============================================================================
