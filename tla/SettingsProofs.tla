--------------------------- MODULE SettingsProofs ---------------------------
(***************************************************************************)
(* The proofs of the safety properties of the override cache.              *)
(***************************************************************************)
EXTENDS SettingsProperties, TLAPS

\* The shape of a call at each of its steps.
LEMMA CallShape ==
  ASSUME CacheTypeOK, NEW c \in Callers
  PROVE  /\ call[c] \in Calls
         /\ call[c].step \in {"lock", "list", "copy"} => call[c].stale \in BOOLEAN
         /\ call[c].step \in {"lock", "list", "install", "copy"} => call[c].floor \in Nat
         /\ call[c].step \in {"install", "bust"} => call[c].data \in Nat
  <1>1. call[c] \in Calls
    BY DEF CacheTypeOK
  <1>2. CASE call[c] \in [step : {"lock", "list", "copy"}, floor : Nat, stale : BOOLEAN]
    BY <1>1, <1>2
  <1>3. CASE call[c] \in [step : {"install"}, floor : Nat, data : Nat]
    BY <1>1, <1>3
  <1>4. CASE call[c] \in [step : {"write"}] \cup [step : {"bust"}, data : Nat] \cup {Idle}
    BY <1>1, <1>4 DEF Idle
  <1>5. QED
    BY <1>1, <1>2, <1>3, <1>4 DEF Calls

\* The calls the actions move to.
LEMMA NewCalls ==
  ASSUME CacheTypeOK, NEW c \in Callers
  PROVE  /\ Idle \in Calls /\ [step |-> "write"] \in Calls
         /\ \A n \in Nat : [step |-> "lock", floor |-> n, stale |-> FALSE] \in Calls
                           /\ [step |-> "bust", data |-> n] \in Calls
         /\ call[c].floor \in Nat =>
              /\ Listed(c) \in Calls
              /\ \A s \in {"list", "copy"}, b \in BOOLEAN : Reading(c, s, b) \in Calls
  BY DEF CacheTypeOK, Calls, Listed, Reading

\* A goroutine that moves keeps the types and the mutex's holder in agreement, when
\* it takes the mutex, gives it back, or leaves it alone.
LEMMA Moves ==
  ASSUME CacheTypeOK, NEW c \in Callers, NEW r \in Calls, Goto(c, r),
         \/ mutex' = mutex /\ (r.step \in Holding <=> call[c].step \in Holding)
         \/ mutex = Nobody /\ mutex' = c /\ r.step \in Holding
         \/ mutex = c /\ mutex' = Nobody /\ r.step \notin Holding
  PROVE  /\ call' \in [Callers -> Calls] /\ mutex' \in Callers \cup {Nobody}
         /\ \A d \in Callers : call'[d].step \in Holding <=> mutex' = d
  <1>1. \A d \in Callers : call'[d] = IF d = c THEN r ELSE call[d]
    BY DEF CacheTypeOK, Goto
  <1>2. call' \in [Callers -> Calls]
    BY DEF CacheTypeOK, Goto
  <1>3. \A d \in Callers : call'[d].step \in Holding <=> mutex' = d
    BY <1>1, CallersAssumption DEF CacheTypeOK
  <1>4. QED
    BY <1>2, <1>3 DEF CacheTypeOK

\* The types, and that a goroutine between Lock and Unlock is the one that holds
\* the mutex, for any number of goroutines, writes and faults.
THEOREM CacheTypeCorrect == Spec => []CacheTypeOK
  <1>1. Init => CacheTypeOK
    <2> SUFFICES ASSUME Init PROVE CacheTypeOK
      OBVIOUS
    <2>1. Idle \in Calls /\ Idle.step \notin Holding
      BY DEF Idle, Calls, Holding
    <2>2. call \in [Callers -> Calls] /\ \A c \in Callers : call[c].step \in Holding <=> mutex = c
      BY <2>1, CallersAssumption DEF Init
    <2>3. loaded \in BOOLEAN /\ expired \in BOOLEAN
      BY DEF Init
    <2>4. version \in Nat /\ cached \in Nat /\ acked \in Nat /\ mutex \in Callers \cup {Nobody}
      BY DEF Init
    <2>5. writes \in 0..MaxWrites /\ faults \in 0..MaxFaults
      BY BoundAssumption DEF Init
    <2>6. QED
      BY <2>2, <2>3, <2>4, <2>5 DEF CacheTypeOK
  <1>2. ASSUME CacheTypeOK, [Next]_vars
        PROVE  CacheTypeOK'
    <2> USE <1>2, CallersAssumption, BoundAssumption
    <2>1. ASSUME NEW c \in Callers, BeginRead(c) PROVE CacheTypeOK'
      <3> DEFINE r == [step |-> "lock", floor |-> acked, stale |-> FALSE]
      <3>1. r \in Calls
        BY <2>1, CallShape, NewCalls DEF BeginRead, At, CacheTypeOK
      <3>2. r.step = "lock"
        OBVIOUS
      <3>3. Goto(c, r)
        BY <2>1 DEF BeginRead
      <3> HIDE DEF r
      <3>4. /\ call' \in [Callers -> Calls] /\ mutex' \in Callers \cup {Nobody}
            /\ \A d \in Callers : call'[d].step \in Holding <=> mutex' = d
        BY <2>1, <3>1, <3>2, <3>3, Moves DEF BeginRead, At, Holding, CacheTypeOK
      <3>5. QED
        BY <2>1, <3>4, CallShape DEF BeginRead, At, Quiet, CacheTypeOK
    <2>2. ASSUME NEW c \in Callers, Lock(c) PROVE CacheTypeOK'
      <3> DEFINE r == Reading(c, IF loaded /\ ~expired THEN "copy" ELSE "list", FALSE)
      <3>1. r \in Calls
        BY <2>2, CallShape, NewCalls DEF Lock, At, CacheTypeOK
      <3>2. r.step = IF loaded /\ ~expired THEN "copy" ELSE "list"
        BY DEF Reading
      <3>3. Goto(c, r)
        BY <2>2 DEF Lock
      <3> HIDE DEF r
      <3>4. /\ call' \in [Callers -> Calls] /\ mutex' \in Callers \cup {Nobody}
            /\ \A d \in Callers : call'[d].step \in Holding <=> mutex' = d
        BY <2>2, <3>1, <3>2, <3>3, Moves DEF Lock, At, Holding, CacheTypeOK
      <3>5. QED
        BY <2>2, <3>4, CallShape DEF Lock, At, Quiet, CacheTypeOK
    <2>3. ASSUME NEW c \in Callers, List(c) PROVE CacheTypeOK'
      <3> DEFINE r == Listed(c)
      <3>1. r \in Calls
        BY <2>3, CallShape, NewCalls DEF List, At, CacheTypeOK
      <3>2. r.step = "install"
        BY DEF Listed
      <3>3. Goto(c, r)
        BY <2>3 DEF List
      <3> HIDE DEF r
      <3>4. /\ call' \in [Callers -> Calls] /\ mutex' \in Callers \cup {Nobody}
            /\ \A d \in Callers : call'[d].step \in Holding <=> mutex' = d
        BY <2>3, <3>1, <3>2, <3>3, Moves DEF List, At, Holding, CacheTypeOK
      <3>5. QED
        BY <2>3, <3>4, CallShape DEF List, At, Quiet, CacheTypeOK
    <2>4. ASSUME NEW c \in Callers, ListFails(c) PROVE CacheTypeOK'
      <3> DEFINE r == Reading(c, "copy", TRUE)
      <3>1. r \in Calls
        BY <2>4, CallShape, NewCalls DEF ListFails, At, CacheTypeOK
      <3>2. r.step = "copy"
        BY DEF Reading
      <3>3. Goto(c, r)
        BY <2>4 DEF ListFails
      <3> HIDE DEF r
      <3>4. /\ call' \in [Callers -> Calls] /\ mutex' \in Callers \cup {Nobody}
            /\ \A d \in Callers : call'[d].step \in Holding <=> mutex' = d
        BY <2>4, <3>1, <3>2, <3>3, Moves DEF ListFails, At, Holding, CacheTypeOK
      <3>5. QED
        BY <2>4, <3>4, CallShape DEF ListFails, At, Fault, CacheTypeOK
    <2>5. ASSUME NEW c \in Callers, Install(c) PROVE CacheTypeOK'
      <3> DEFINE r == Reading(c, "copy", FALSE)
      <3>1. r \in Calls
        BY <2>5, CallShape, NewCalls DEF Install, At, CacheTypeOK
      <3>2. r.step = "copy"
        BY DEF Reading
      <3>3. Goto(c, r)
        BY <2>5 DEF Install
      <3> HIDE DEF r
      <3>4. /\ call' \in [Callers -> Calls] /\ mutex' \in Callers \cup {Nobody}
            /\ \A d \in Callers : call'[d].step \in Holding <=> mutex' = d
        BY <2>5, <3>1, <3>2, <3>3, Moves DEF Install, At, Holding, CacheTypeOK
      <3>5. QED
        BY <2>5, <3>4, CallShape DEF Install, At, Quiet, CacheTypeOK
    <2>6. ASSUME NEW c \in Callers, Copy(c) PROVE CacheTypeOK'
      <3> DEFINE r == Idle
      <3>1. r \in Calls
        BY <2>6, CallShape, NewCalls DEF Copy, At, CacheTypeOK
      <3>2. r.step = "idle"
        BY DEF Idle
      <3>3. Goto(c, r)
        BY <2>6 DEF Copy, Return
      <3> HIDE DEF r
      <3>4. /\ call' \in [Callers -> Calls] /\ mutex' \in Callers \cup {Nobody}
            /\ \A d \in Callers : call'[d].step \in Holding <=> mutex' = d
        BY <2>6, <3>1, <3>2, <3>3, Moves DEF Copy, At, Holding, CacheTypeOK
      <3>5. QED
        BY <2>6, <3>4, CallShape DEF Copy, At, Quiet, CacheTypeOK
    <2>7. ASSUME NEW c \in Callers, BeginWrite(c) PROVE CacheTypeOK'
      <3> DEFINE r == [step |-> "write"]
      <3>1. r \in Calls
        BY <2>7, CallShape, NewCalls DEF BeginWrite, At, CacheTypeOK
      <3>2. r.step = "write"
        OBVIOUS
      <3>3. Goto(c, r)
        BY <2>7 DEF BeginWrite
      <3> HIDE DEF r
      <3>4. /\ call' \in [Callers -> Calls] /\ mutex' \in Callers \cup {Nobody}
            /\ \A d \in Callers : call'[d].step \in Holding <=> mutex' = d
        BY <2>7, <3>1, <3>2, <3>3, Moves DEF BeginWrite, At, Holding, CacheTypeOK
      <3>5. QED
        BY <2>7, <3>4, CallShape DEF BeginWrite, At, Another, CacheTypeOK
    <2>8. ASSUME NEW c \in Callers, Write(c) PROVE CacheTypeOK'
      <3> DEFINE r == [step |-> "bust", data |-> version + 1]
      <3>1. r \in Calls
        <4>1. version + 1 \in Nat
          BY DEF CacheTypeOK
        <4>2. QED
          BY <2>8, <4>1, NewCalls
      <3>2. r.step = "bust"
        OBVIOUS
      <3>3. Goto(c, r)
        BY <2>8 DEF Write
      <3> HIDE DEF r
      <3>4. /\ call' \in [Callers -> Calls] /\ mutex' \in Callers \cup {Nobody}
            /\ \A d \in Callers : call'[d].step \in Holding <=> mutex' = d
        BY <2>8, <3>1, <3>2, <3>3, Moves DEF Write, At, Holding, CacheTypeOK
      <3>5. QED
        BY <2>8, <3>4, CallShape DEF Write, At, Quiet, CacheTypeOK
    <2>9. ASSUME NEW c \in Callers, WriteFails(c) PROVE CacheTypeOK'
      <3> DEFINE r == Idle
      <3>1. r \in Calls
        BY <2>9, CallShape, NewCalls DEF WriteFails, At, CacheTypeOK
      <3>2. r.step = "idle"
        BY DEF Idle
      <3>3. Goto(c, r)
        BY <2>9 DEF WriteFails, Return
      <3> HIDE DEF r
      <3>4. /\ call' \in [Callers -> Calls] /\ mutex' \in Callers \cup {Nobody}
            /\ \A d \in Callers : call'[d].step \in Holding <=> mutex' = d
        BY <2>9, <3>1, <3>2, <3>3, Moves DEF WriteFails, At, Holding, CacheTypeOK
      <3>5. QED
        BY <2>9, <3>4, CallShape DEF WriteFails, At, Fault, CacheTypeOK
    <2>10. ASSUME NEW c \in Callers, Bust(c) PROVE CacheTypeOK'
      <3> DEFINE r == Idle
      <3>1. r \in Calls
        BY <2>10, CallShape, NewCalls DEF Bust, At, CacheTypeOK
      <3>2. r.step = "idle"
        BY DEF Idle
      <3>3. Goto(c, r)
        BY <2>10 DEF Bust, Return
      <3> HIDE DEF r
      <3>4. /\ call' \in [Callers -> Calls] /\ mutex' \in Callers \cup {Nobody}
            /\ \A d \in Callers : call'[d].step \in Holding <=> mutex' = d
        BY <2>10, <3>1, <3>2, <3>3, Moves DEF Bust, At, Holding, CacheTypeOK
      <3>5. QED
        BY <2>10, <3>4, CallShape DEF Bust, At, Quiet, CacheTypeOK
    <2>11. CASE WriteElsewhere
      BY <2>11 DEF WriteElsewhere, Another, CacheTypeOK
    <2>12. CASE TimePasses
      BY <2>12 DEF TimePasses, Quiet, CacheTypeOK
    <2>13. CASE UNCHANGED vars
      BY <2>13 DEF vars, CacheTypeOK
    <2>14. QED
      BY <2>1, <2>2, <2>3, <2>4, <2>5, <2>6, <2>7, <2>8, <2>9, <2>10, <2>11, <2>12, <2>13
         DEF Next, Step
  <1>3. QED
    BY <1>1, <1>2, PTL DEF Spec
-----------------------------------------------------------------------------
(* What a read is known to hold while nothing can be acknowledged, because it *)
(* has the mutex and Bust needs it.                                           *)

KnownAt(c) ==
  /\ call[c].step \in {"lock", "list", "install", "copy"} => call[c].floor <= acked
  /\ At(c, "install") => /\ call[c].data <= version
                         /\ call[c].data >= acked /\ call[c].data >= cached
  /\ At(c, "bust") => call[c].data <= version
  /\ At(c, "copy") /\ ~call[c].stale => cached >= acked

\* The table is never behind the cache or an acknowledgement, and a map that counts
\* as loaded is not behind an acknowledgement.
CacheBounds ==
  /\ acked <= version /\ cached <= version
  /\ loaded => cached >= acked

CacheInv == CacheBounds /\ \A c \in Callers : KnownAt(c)

\* A step of one goroutine leaves the others where they are.
LEMMA OthersStay ==
  ASSUME CacheTypeOK, NEW c \in Callers, NEW r, Goto(c, r)
  PROVE  /\ call'[c] = r
         /\ \A d \in Callers : d # c => call'[d] = call[d]
  BY DEF CacheTypeOK, Goto

\* What is known of a goroutine that does not move stays true when the table's
\* version, the cache and the acknowledgements only grow, and the last two only
\* while it is not between Lock and Unlock.
LEMMA KnownStays ==
  ASSUME CacheTypeOK, CacheTypeOK', NEW d \in Callers, KnownAt(d), call'[d] = call[d],
         version' >= version, acked' >= acked,
         call[d].step \in Holding => acked' = acked /\ cached' = cached
  PROVE  KnownAt(d)'
  BY CallShape DEF KnownAt, CacheTypeOK, At, Holding

\* CacheInv holds at first and every step keeps it.
LEMMA CacheInvHolds == Spec => [](CacheTypeOK /\ CacheInv)
  <1>1. Init => CacheInv
    BY DEF Init, CacheInv, CacheBounds, KnownAt, Idle, At
  <1>2. ASSUME CacheTypeOK, CacheTypeOK', CacheInv, [Next]_vars
        PROVE  CacheInv'
    <2> USE <1>2
    <2>1. ASSUME NEW c \in Callers, NEW r, Goto(c, r), version' >= version, acked' >= acked,
                 mutex = c \/ mutex = Nobody \/ (acked' = acked /\ cached' = cached),
                 CacheBounds', KnownAt(c)'
          PROVE  CacheInv'
      <3>1. ASSUME NEW d \in Callers, d # c PROVE KnownAt(d)'
        <4>1. call'[d] = call[d]
          BY <2>1, <3>1, OthersStay
        <4>2. call[d].step \in Holding => acked' = acked /\ cached' = cached
          BY <2>1, <3>1, CallersAssumption DEF CacheTypeOK
        <4>3. QED
          BY <2>1, <4>1, <4>2, KnownStays DEF CacheInv
      <3>2. QED
        BY <2>1, <3>1 DEF CacheInv
    <2>2. ASSUME NEW c \in Callers, BeginRead(c) PROVE CacheInv'
      <3> DEFINE r == [step |-> "lock", floor |-> acked, stale |-> FALSE]
      <3>1. Goto(c, r) /\ call'[c] = r
        BY <2>2, OthersStay DEF BeginRead
      <3>2. CacheBounds' /\ version' >= version /\ acked' >= acked
        BY <2>2, CallShape DEF BeginRead, Quiet, At, CacheInv, CacheBounds, KnownAt, CacheTypeOK
      <3>3. KnownAt(c)'
        BY <2>2, <3>1, CallShape DEF BeginRead, Quiet, At, CacheInv, CacheBounds, KnownAt, CacheTypeOK
      <3>4. QED
        BY <2>1, <2>2, <3>1, <3>2, <3>3 DEF BeginRead, Quiet, At, Holding, CacheTypeOK
    <2>3. ASSUME NEW c \in Callers, Lock(c) PROVE CacheInv'
      <3> DEFINE r == Reading(c, IF loaded /\ ~expired THEN "copy" ELSE "list", FALSE)
      <3>1. Goto(c, r) /\ call'[c] = r
        BY <2>3, OthersStay DEF Lock
      <3>2. CacheBounds' /\ version' >= version /\ acked' >= acked
        BY <2>3, CallShape DEF Lock, Quiet, At, CacheInv, CacheBounds, KnownAt, CacheTypeOK
      <3>3. KnownAt(c)'
        BY <2>3, <3>1, CallShape DEF Lock, Quiet, Reading, At, CacheInv, CacheBounds, KnownAt, CacheTypeOK
      <3>4. QED
        BY <2>1, <2>3, <3>1, <3>2, <3>3 DEF Lock, Quiet, At, Holding, CacheTypeOK
    <2>4. ASSUME NEW c \in Callers, List(c) PROVE CacheInv'
      <3> DEFINE r == Listed(c)
      <3>1. Goto(c, r) /\ call'[c] = r
        BY <2>4, OthersStay DEF List
      <3>2. CacheBounds' /\ version' >= version /\ acked' >= acked
        BY <2>4, CallShape DEF List, Quiet, At, CacheInv, CacheBounds, KnownAt, CacheTypeOK
      <3>3. KnownAt(c)'
        BY <2>4, <3>1, CallShape DEF List, Quiet, Listed, At, CacheInv, CacheBounds, KnownAt, CacheTypeOK
      <3>4. QED
        BY <2>1, <2>4, <3>1, <3>2, <3>3 DEF List, Quiet, At, Holding, CacheTypeOK
    <2>5. ASSUME NEW c \in Callers, ListFails(c) PROVE CacheInv'
      <3> DEFINE r == Reading(c, "copy", TRUE)
      <3>1. Goto(c, r) /\ call'[c] = r
        BY <2>5, OthersStay DEF ListFails
      <3>2. CacheBounds' /\ version' >= version /\ acked' >= acked
        BY <2>5, CallShape DEF ListFails, Fault, At, CacheInv, CacheBounds, KnownAt, CacheTypeOK
      <3>3. KnownAt(c)'
        BY <2>5, <3>1, CallShape DEF ListFails, Fault, Reading, At, CacheInv, CacheBounds, KnownAt, CacheTypeOK
      <3>4. QED
        BY <2>1, <2>5, <3>1, <3>2, <3>3 DEF ListFails, Fault, At, Holding, CacheTypeOK
    <2>6. ASSUME NEW c \in Callers, Install(c) PROVE CacheInv'
      <3> DEFINE r == Reading(c, "copy", FALSE)
      <3>1. Goto(c, r) /\ call'[c] = r
        BY <2>6, OthersStay DEF Install
      <3>2. CacheBounds' /\ version' >= version /\ acked' >= acked
        BY <2>6, CallShape DEF Install, Quiet, At, CacheInv, CacheBounds, KnownAt, CacheTypeOK
      <3>3. KnownAt(c)'
        BY <2>6, <3>1, CallShape DEF Install, Quiet, Reading, At, CacheInv, CacheBounds, KnownAt, CacheTypeOK
      <3>4. QED
        BY <2>1, <2>6, <3>1, <3>2, <3>3 DEF Install, Quiet, At, Holding, CacheTypeOK
    <2>7. ASSUME NEW c \in Callers, Copy(c) PROVE CacheInv'
      <3> DEFINE r == Idle
      <3>1. Goto(c, r) /\ call'[c] = r
        BY <2>7, OthersStay DEF Copy, Return
      <3>2. CacheBounds' /\ version' >= version /\ acked' >= acked
        BY <2>7, CallShape DEF Copy, Quiet, At, CacheInv, CacheBounds, KnownAt, CacheTypeOK
      <3>3. KnownAt(c)'
        BY <2>7, <3>1, CallShape DEF Copy, Quiet, Idle, At, CacheInv, CacheBounds, KnownAt, CacheTypeOK
      <3>4. QED
        BY <2>1, <2>7, <3>1, <3>2, <3>3 DEF Copy, Quiet, At, Holding, CacheTypeOK
    <2>8. ASSUME NEW c \in Callers, BeginWrite(c) PROVE CacheInv'
      <3> DEFINE r == [step |-> "write"]
      <3>1. Goto(c, r) /\ call'[c] = r
        BY <2>8, OthersStay DEF BeginWrite
      <3>2. CacheBounds' /\ version' >= version /\ acked' >= acked
        BY <2>8, CallShape DEF BeginWrite, Another, At, CacheInv, CacheBounds, KnownAt, CacheTypeOK
      <3>3. KnownAt(c)'
        BY <2>8, <3>1, CallShape DEF BeginWrite, Another, At, CacheInv, CacheBounds, KnownAt, CacheTypeOK
      <3>4. QED
        BY <2>1, <2>8, <3>1, <3>2, <3>3 DEF BeginWrite, Another, At, Holding, CacheTypeOK
    <2>9. ASSUME NEW c \in Callers, Write(c) PROVE CacheInv'
      <3> DEFINE r == [step |-> "bust", data |-> version + 1]
      <3>1. Goto(c, r) /\ call'[c] = r
        BY <2>9, OthersStay DEF Write
      <3>2. CacheBounds' /\ version' >= version /\ acked' >= acked
        BY <2>9, CallShape DEF Write, Quiet, At, CacheInv, CacheBounds, KnownAt, CacheTypeOK
      <3>3. KnownAt(c)'
        BY <2>9, <3>1, CallShape DEF Write, Quiet, At, CacheInv, CacheBounds, KnownAt, CacheTypeOK
      <3>4. QED
        BY <2>1, <2>9, <3>1, <3>2, <3>3 DEF Write, Quiet, At, Holding, CacheTypeOK
    <2>10. ASSUME NEW c \in Callers, WriteFails(c) PROVE CacheInv'
      <3> DEFINE r == Idle
      <3>1. Goto(c, r) /\ call'[c] = r
        BY <2>10, OthersStay DEF WriteFails, Return
      <3>2. CacheBounds' /\ version' >= version /\ acked' >= acked
        BY <2>10, CallShape DEF WriteFails, Fault, At, CacheInv, CacheBounds, KnownAt, CacheTypeOK
      <3>3. KnownAt(c)'
        BY <2>10, <3>1, CallShape DEF WriteFails, Fault, Idle, At, CacheInv, CacheBounds, KnownAt, CacheTypeOK
      <3>4. QED
        BY <2>1, <2>10, <3>1, <3>2, <3>3 DEF WriteFails, Fault, At, Holding, CacheTypeOK
    <2>11. ASSUME NEW c \in Callers, Bust(c) PROVE CacheInv'
      <3> DEFINE r == Idle
      <3>1. Goto(c, r) /\ call'[c] = r
        BY <2>11, OthersStay DEF Bust, Return
      <3>2. CacheBounds' /\ version' >= version /\ acked' >= acked
        BY <2>11, CallShape DEF Bust, Quiet, At, CacheInv, CacheBounds, KnownAt, CacheTypeOK
      <3>3. KnownAt(c)'
        BY <2>11, <3>1, CallShape DEF Bust, Quiet, Idle, At, CacheInv, CacheBounds, KnownAt, CacheTypeOK
      <3>4. QED
        BY <2>1, <2>11, <3>1, <3>2, <3>3 DEF Bust, Quiet, At, Holding, CacheTypeOK
    <2>12. CASE WriteElsewhere \/ TimePasses \/ UNCHANGED vars
      <3>1. call' = call /\ version' >= version /\ acked' = acked /\ cached' = cached /\ loaded' = loaded
        BY <2>12 DEF WriteElsewhere, TimePasses, vars, CacheTypeOK
      <3>2. CacheBounds'
        BY <3>1 DEF CacheInv, CacheBounds, CacheTypeOK
      <3>3. \A d \in Callers : KnownAt(d)'
        BY <3>1, KnownStays DEF CacheInv, CacheTypeOK
      <3>4. QED
        BY <3>2, <3>3 DEF CacheInv
    <2>13. QED
      BY <2>2, <2>3, <2>4, <2>5, <2>6, <2>7, <2>8, <2>9, <2>10, <2>11, <2>12 DEF Next, Step
  <1>3. QED
    BY <1>1, <1>2, CacheTypeCorrect, PTL DEF Spec

\* Provider.Snapshot: no read that begins after a Set or Reset has answered is given
\* an older map, unless its own List failed.
THEOREM ServesAcknowledgedHolds == Spec => []ServesAcknowledged
  <1>1. CacheTypeOK /\ CacheInv => ServesAcknowledged
    BY CallShape DEF ServesAcknowledged, CacheInv, KnownAt, CacheTypeOK, At
  <1>2. QED
    BY <1>1, CacheInvHolds, PTL

\* Provider.overrideMap: the map it keeps is never replaced by an older one.
THEOREM CacheNeverGoesBackHolds == Spec => CacheNeverGoesBack
  <1>1. ASSUME CacheTypeOK, CacheInv, [Next]_vars
        PROVE  [cached' >= cached]_vars
    <2>1. ASSUME NEW c \in Callers, Install(c) PROVE cached' >= cached
      BY <1>1, <2>1 DEF Install, CacheInv, KnownAt, At
    <2>2. ASSUME NEW c \in Callers,
                 BeginRead(c) \/ BeginWrite(c) \/ Lock(c) \/ List(c) \/ Copy(c) \/ Write(c)
                 \/ Bust(c) \/ ListFails(c) \/ WriteFails(c)
          PROVE  cached' >= cached
      <3>1. cached' = cached
        BY <2>2 DEF BeginRead, BeginWrite, Lock, List, Copy, Write, Bust, ListFails, WriteFails
      <3>2. QED
        BY <1>1, <3>1 DEF CacheTypeOK
    <2>3. CASE WriteElsewhere \/ TimePasses
      BY <1>1, <2>3 DEF WriteElsewhere, TimePasses, CacheTypeOK
    <2>4. QED
      BY <1>1, <2>1, <2>2, <2>3 DEF Next, Step
  <1>2. QED
    BY <1>1, CacheInvHolds, PTL DEF Spec, CacheNeverGoesBack
=============================================================================
