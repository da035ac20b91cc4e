--------------------------- MODULE JobLifeProofs ---------------------------
(***************************************************************************)
(* What JobLife promises: a loss strands at most one open job.             *)
(***************************************************************************)
EXTENDS JobLife, FiniteSetTheorems, TLAPS

Stranded == {p \in Papers : life[p] = "open" /\ p \notin worked}

\* Every state a job is put in is one of its states: Become keeps the range of life.
LEMMA BecomeKeepsRange ==
  ASSUME LifeTypeOK, NEW p \in Papers, NEW state \in Standing \cup {"deleted"}, Become(p, state)
  PROVE  life' \in [Papers -> Standing \cup {"new", "expired", "deleted"}]
  BY DEF LifeTypeOK, Become

\* The types of JobLife are inductive: its jobs keep their states, the papers
\* worked on are papers, and the counts of faults and redeliveries only grow.
LEMMA LifeTypeCorrect == Spec => []LifeTypeOK
  <1> DEFINE Ranged  == life \in [Papers -> Standing \cup {"new", "expired", "deleted"}]
             Counted == losses \in Nat /\ redeliveries \in Nat
  <1>life. ASSUME LifeTypeOK, Next PROVE Ranged'
    <2>put. ASSUME NEW p \in Papers, Open(p) \/ Work(p) \/ Delete(p) PROVE Ranged'
      <3> PICK state \in Standing \cup {"deleted"} : Become(p, state)
        BY <2>put DEF Open, Work, Delete, Standing
      <3> QED
        BY <1>life, BecomeKeepsRange
    <2>old. ASSUME NEW old \in SUBSET Papers, Expire(old) PROVE Ranged'
      BY <1>life, <2>old DEF LifeTypeOK, Expire
    <2>kept. ASSUME NEW p \in Papers, OpenTooLate(p) \/ GiveUp(p) \/ Redeliver(p) \/ Lose(p)
             PROVE  Ranged'
      BY <1>life, <2>kept DEF LifeTypeOK, OpenTooLate, GiveUp, Redeliver, Lose
    <2> QED
      BY <1>life, <2>put, <2>old, <2>kept DEF Next
  <1>worked. ASSUME LifeTypeOK, Next PROVE worked' \subseteq Papers
    BY <1>worked DEF LifeTypeOK, Next, Open, OpenTooLate, Work, GiveUp, Delete, Redeliver, Lose, Expire
  <1>counts. ASSUME LifeTypeOK, Next PROVE Counted'
    BY <1>counts
    DEF LifeTypeOK, Next, Open, OpenTooLate, Work, GiveUp, Delete, Redeliver, Lose, Expire, Quiet
  <1>stays. LifeTypeOK /\ [Next]_vars => LifeTypeOK'
    BY <1>life, <1>worked, <1>counts DEF LifeTypeOK, vars
  <1>starts. Init => LifeTypeOK
    BY DEF Init, LifeTypeOK
  <1> QED
    BY <1>starts, <1>stays, PTL DEF Spec

\* A step that is no loss strands no one; a loss strands at most the paper it hits.
LEMMA StrandedStep ==
  ASSUME LifeTypeOK, [Next]_vars
  PROVE  \/ Stranded' \subseteq Stranded /\ losses' = losses
         \/ losses' = losses + 1 /\ \E p \in Papers : Stranded' \subseteq Stranded \cup {p}
  <1> USE DEF LifeTypeOK, Stranded
  <1>1. ASSUME NEW p \in Papers, Open(p) \/ OpenTooLate(p) \/ GiveUp(p) \/ Delete(p)
        PROVE  Stranded' \subseteq Stranded /\ losses' = losses
    BY <1>1 DEF Open, OpenTooLate, GiveUp, Delete, Become, Quiet, Standing
  <1>2. ASSUME NEW p \in Papers, Work(p)
        PROVE  Stranded' \subseteq Stranded /\ losses' = losses
    BY <1>2 DEF Work, Become, Quiet, Standing
  <1>3. ASSUME NEW p \in Papers, Redeliver(p)
        PROVE  Stranded' \subseteq Stranded /\ losses' = losses
    BY <1>3 DEF Redeliver
  <1>4. ASSUME NEW p \in Papers, Lose(p)
        PROVE  losses' = losses + 1 /\ Stranded' \subseteq Stranded \cup {p}
    BY <1>4 DEF Lose
  <1>5. ASSUME NEW old \in SUBSET Papers, Expire(old)
        PROVE  Stranded' \subseteq Stranded /\ losses' = losses
    BY <1>5 DEF Expire, Quiet
  <1>6. CASE UNCHANGED vars
    BY <1>6 DEF vars
  <1>7. QED
    BY <1>1, <1>2, <1>3, <1>4, <1>5, <1>6 DEF Next

\* Whoever implements JobLife leaves an open job without a worker at most once
\* for every step that failed or last attempt that was lost.
THEOREM LossesStrandOneEachHolds ==
  IsFiniteSet(Papers) => (Spec => []LossesStrandOneEach)
  <1> SUFFICES ASSUME IsFiniteSet(Papers)
               PROVE  Spec => []LossesStrandOneEach
    OBVIOUS
  <1> DEFINE Few == IsFiniteSet(Stranded) /\ Cardinality(Stranded) <= losses
  <1>1. Init => Few
    <2> SUFFICES ASSUME Init PROVE Stranded = {} /\ losses = 0
      BY FS_EmptySet
    <2> QED
      BY DEF Init, Stranded
  <1>2. LifeTypeOK /\ Few /\ [Next]_vars => Few'
    <2> SUFFICES ASSUME LifeTypeOK, Few, [Next]_vars
                 PROVE  Few'
      OBVIOUS
    <2>a. Cardinality(Stranded) \in Nat /\ losses \in Nat
      BY FS_CardinalityType DEF LifeTypeOK
    <2>1. CASE Stranded' \subseteq Stranded /\ losses' = losses
      <3>1. /\ IsFiniteSet(Stranded') /\ Cardinality(Stranded') <= Cardinality(Stranded)
            /\ Cardinality(Stranded') \in Nat
        BY <2>1, FS_Subset, FS_CardinalityType
      <3>2. QED
        BY <3>1, <2>a, <2>1
    <2>2. ASSUME losses' = losses + 1, NEW p \in Papers, Stranded' \subseteq Stranded \cup {p}
          PROVE  Few'
      <3>1. /\ IsFiniteSet(Stranded \cup {p})
            /\ \/ Cardinality(Stranded \cup {p}) = Cardinality(Stranded)
               \/ Cardinality(Stranded \cup {p}) = Cardinality(Stranded) + 1
        BY FS_AddElement
      <3>2. /\ IsFiniteSet(Stranded') /\ Cardinality(Stranded') <= Cardinality(Stranded \cup {p})
            /\ Cardinality(Stranded') \in Nat /\ Cardinality(Stranded \cup {p}) \in Nat
        BY <2>2, <3>1, FS_Subset, FS_CardinalityType
      <3>3. QED
        BY <3>1, <3>2, <2>a, <2>2
    <2>3. QED
      BY <2>1, <2>2, StrandedStep
  <1>3. Few => LossesStrandOneEach
    BY DEF Stranded, LossesStrandOneEach
  <1>4. QED
    BY <1>1, <1>2, <1>3, LifeTypeCorrect, PTL DEF Spec
=============================================================================
