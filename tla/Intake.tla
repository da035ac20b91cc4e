------------------------------- MODULE Intake -------------------------------
(***************************************************************************)
(* What the server promises of a paper that comes in, whatever the calls,  *)
(* passes and goroutines are: it is not taken in while another of its      *)
(* source is there; it arrives once, by becoming ready for the worker with *)
(* its job and its task, or is stranded by a loss; and from then on        *)
(* nothing happens to it but that it is removed, for good.                 *)
(***************************************************************************)
EXTENDS Naturals

CONSTANTS Papers,
          Sources,    \* where papers come from
          None        \* no source

VARIABLES intake,     \* what has become of each paper: "none", Held or "removed"
          source,     \* the source of a paper that came in
          losses      \* calls that failed, passes that were lost

vars == <<intake, source, losses>>

\* The states of a paper that is there.
Held == {"arriving", "ready", "stranded"}

Init ==
  /\ intake = [p \in Papers |-> "none"]
  /\ source = [p \in Papers |-> None]
  /\ losses = 0

Become(p, state) == intake' = [intake EXCEPT ![p] = state]

TakenIn(s) == s # None /\ \E p \in Papers : intake[p] \in Held /\ source[p] = s

Arrive(p) ==
  /\ intake[p] = "none" /\ Become(p, "arriving")
  /\ \E s \in Sources \cup {None} : ~TakenIn(s) /\ source' = [source EXCEPT ![p] = s]
  /\ UNCHANGED losses

Complete(p) == intake[p] = "arriving" /\ Become(p, "ready") /\ UNCHANGED <<source, losses>>

Remove(p) == intake[p] \in Held /\ Become(p, "removed") /\ UNCHANGED <<source, losses>>

Strand(p) == intake[p] = "arriving" /\ Become(p, "stranded")

\* A loss may strand a paper that has not arrived.
Lose ==
  /\ losses' = losses + 1
  /\ UNCHANGED intake \/ \E p \in Papers : Strand(p)
  /\ UNCHANGED source

Next == Lose \/ \E p \in Papers : Arrive(p) \/ Complete(p) \/ Remove(p)

Spec == Init /\ [][Next]_vars
=============================================================================
