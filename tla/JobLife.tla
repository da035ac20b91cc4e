------------------------------ MODULE JobLife ------------------------------
(***************************************************************************)
(* What the server promises of a paper's job, whatever its statements,     *)
(* tasks and goroutines are: a job changes only while somebody works on    *)
(* it, whoever stops working on it leaves it finished unless something was *)
(* lost, and a job that has expired or been deleted does not come back.    *)
(***************************************************************************)
EXTENDS Naturals, FiniteSets

CONSTANT Papers

VARIABLES life,          \* what has become of each paper's job
          worked,        \* the papers a task or a request will still work on
          losses,        \* faults: steps that failed, last attempts that were lost
          redeliveries   \* tasks the queue took back from a worker

vars == <<life, worked, losses, redeliveries>>

\* The states of a job that is there; "open" is queued, processing, parsed or reading.
Standing == {"open", "completed", "failed"}

LifeTypeOK ==
  /\ life \in [Papers -> Standing \cup {"new", "expired", "deleted"}]
  /\ worked \subseteq Papers
  /\ losses \in Nat /\ redeliveries \in Nat

Init ==
  /\ life = [p \in Papers |-> "new"]
  /\ worked = {}
  /\ losses = 0 /\ redeliveries = 0

Become(p, state) == life' = [life EXCEPT ![p] = state]
Quiet == UNCHANGED <<losses, redeliveries>>

\* A client uploads a paper, or has its job run again.
Open(p) ==
  /\ life[p] \in Standing \cup {"new"}
  /\ Become(p, "open")
  /\ worked' = worked \cup {p}
  /\ Quiet

\* The job of a paper may vanish under a call that has just looked it up.
OpenTooLate(p) ==
  /\ life[p] \in {"expired", "deleted"}
  /\ worked' = worked \cup {p}
  /\ UNCHANGED life /\ Quiet

\* A worker reports progress or an outcome; the last to leave leaves an outcome.
Work(p) ==
  /\ p \in worked /\ life[p] \in Standing
  /\ \/ \E state \in Standing : Become(p, state) /\ UNCHANGED worked
     \/ /\ \E state \in Standing \ {"open"} : Become(p, state)
        /\ worked' = worked \ {p}
  /\ Quiet

\* It finds no job to report to.
GiveUp(p) ==
  /\ p \in worked /\ life[p] \in {"expired", "deleted"}
  /\ worked' = worked \ {p}
  /\ UNCHANGED life /\ Quiet

Expire(old) ==
  /\ old # {} /\ \A p \in old : life[p] = "failed"
  /\ life' = [p \in Papers |-> IF p \in old THEN "expired" ELSE life[p]]
  /\ UNCHANGED worked /\ Quiet

Delete(p) == Become(p, "deleted") /\ UNCHANGED worked /\ Quiet

Redeliver(p) ==
  /\ worked' \in {worked, worked \cup {p}}
  /\ redeliveries' = redeliveries + 1
  /\ UNCHANGED <<life, losses>>

\* A step that fails may end the work, or have it done once more.
Lose(p) ==
  /\ worked' \in {worked, worked \ {p}, worked \cup {p}}
  /\ losses' = losses + 1
  /\ UNCHANGED <<life, redeliveries>>

Next ==
  \/ \E p \in Papers : \/ Open(p) \/ OpenTooLate(p) \/ Work(p) \/ GiveUp(p)
                       \/ Delete(p) \/ Redeliver(p) \/ Lose(p)
  \/ \E old \in SUBSET Papers : Expire(old)

Spec == Init /\ [][Next]_vars
-----------------------------------------------------------------------------
\* A loss leaves at most one open job that nobody works on.
LossesStrandOneEach ==
  Cardinality({p \in Papers : life[p] = "open" /\ p \notin worked}) <= losses
=============================================================================
