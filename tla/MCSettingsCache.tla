-------------------------- MODULE MCSettingsCache --------------------------
(* Model-checking instance of SettingsCache.                               *)
EXTENDS SettingsProperties
=============================================================================
