--------------------------- MODULE SettingLayers ---------------------------
(***************************************************************************)
(* How a setting gets its value from three layers, the row of app_settings *)
(* that overrides it, the environment and the default: rawWithSource and   *)
(* Snapshot of settings.Provider, and Build of internal/config.            *)
(*                                                                         *)
(* A raw text is known by what is left of it without the spaces around it  *)
(* (a word, a literal that parses for the setting's kind, or nothing) and  *)
(* whether it has such spaces.                                             *)
(***************************************************************************)
EXTENDS TLC

CONSTANTS Unset,       \* no row, no variable
          Literals     \* texts that parse

Cores == Literals \cup {"", "word"}
Raw == [core : Cores, padded : BOOLEAN]
Plain(literal) == [core |-> literal, padded |-> FALSE]

Kinds == {"string", "int", "bool", "csv"}
Applies == {"live", "restart", "bootstrap"}

Empty(raw) == raw.core = "" /\ ~raw.padded
TrimSpace(raw) == [raw EXCEPT !.padded = FALSE]

\* strconv.Atoi, ParseInt and ParseBool take no spaces.
Parses(raw) == raw.core \in Literals /\ ~raw.padded

\* validateKind
Accepts(kind, raw) == kind \in {"int", "bool"} => Parses(TrimSpace(raw))

\* The items of a list, trimmed; none when only spaces are left.
Items(raw) == IF raw.core = "" THEN {} ELSE {raw.core}
-----------------------------------------------------------------------------
\* A setting is [kind, apply, default, override, env].

\* rawWithSource: what GET /v1/settings shows, and the live settings use.
RawWithSource(s) ==
  CASE s.override # Unset -> [value |-> s.override, source |-> "db"]
    [] s.override = Unset /\ s.env # Unset /\ ~Empty(s.env) -> [value |-> s.env, source |-> "env"]
    [] OTHER -> [value |-> s.default, source |-> "default"]

\* A getter that takes any row.
AnyOverride(s) == IF s.override # Unset THEN s.override ELSE s.env

\* Snapshot's getter: a row for a bootstrap key is ignored.
Getter(s) == IF s.override # Unset /\ s.apply # "bootstrap" THEN s.override ELSE s.env

\* str, boolFrom, int64From and csvFrom.  A list has no default but the empty one.
From(s, raw) ==
  LET absent == raw = Unset \/ Empty(raw)
  IN CASE s.kind = "csv" -> (IF absent THEN {} ELSE Items(raw))
       [] s.kind \in {"int", "bool"} -> (IF absent \/ ~Parses(raw) THEN s.default ELSE raw).core
       [] OTHER -> IF absent THEN s.default ELSE raw

\* Build with the getter of Snapshot: what a process is configured with when it starts.
Snapshot(s) == From(s, Getter(s))

\* Int, Bool, CSV and String of the provider, for a raw text.
Meaning(s, raw) ==
  CASE s.kind = "csv" -> Items(raw)
    [] s.kind \in {"int", "bool"} ->
         (IF Parses(TrimSpace(raw)) THEN raw ELSE s.default).core
    [] OTHER -> raw
=============================================================================
