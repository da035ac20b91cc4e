---------------------------- MODULE MCPaperCards ----------------------------
(* Model-checking instance of PaperCards.                                   *)
EXTENDS CardProperties, TLC
=============================================================================
