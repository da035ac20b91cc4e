----------------------------- MODULE MCHarvest -----------------------------
(* Model-checking instance of Harvest: arXiv ids and passes are anonymous. *)
EXTENDS HarvestProperties, TLC

Anonymous == Permutations(Entries) \cup Permutations(Harvesters)
=============================================================================
