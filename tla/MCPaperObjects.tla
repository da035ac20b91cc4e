--------------------------- MODULE MCPaperObjects ---------------------------
(* Model-checking instance of PaperObjects: parses and results are          *)
(* anonymous.                                                              *)
EXTENDS ObjectProperties, TLC

Anonymous == Permutations(Parses) \cup Permutations(Results)
=============================================================================
