------------------------- MODULE SettingsProperties -------------------------
(***************************************************************************)
(* What makes the override cache correct.                                  *)
(***************************************************************************)
EXTENDS SettingsCache

Holding == {"list", "install", "copy"}

Calls ==
  [step : {"lock", "list", "copy"}, floor : Nat, stale : BOOLEAN]
  \cup [step : {"install"}, floor : Nat, data : Nat]
  \cup [step : {"write"}] \cup [step : {"bust"}, data : Nat] \cup {Idle}

\* Every variable has its type, and a goroutine between Lock and Unlock is the one
\* that holds the mutex.
CacheTypeOK ==
  /\ version \in Nat /\ cached \in Nat /\ acked \in Nat
  /\ loaded \in BOOLEAN /\ expired \in BOOLEAN
  /\ mutex \in Callers \cup {Nobody}
  /\ call \in [Callers -> Calls]
  /\ \A c \in Callers : call[c].step \in Holding <=> mutex = c
  /\ writes \in 0..MaxWrites /\ faults \in 0..MaxFaults

\* A Set or Reset that has answered is seen by every read that begins afterwards:
\* a read that listed the table before the write cannot bring its older map back
\* after the bust.  Only a read whose own List failed may be served less.
ServesAcknowledged ==
  \A c \in Callers : At(c, "copy") /\ ~call[c].stale => cached >= call[c].floor

\* The cache never goes back to an older state of the table, however reads, writes
\* and failing calls interleave.
CacheNeverGoesBack == [][cached' >= cached]_vars

\* Writes the provider is not told of (another process, SQL by hand, a Set whose
\* error hid a commit) arrive too, once the TTL has run out and a read comes.
WritesArrive == <>[](cached = version)
=============================================================================
