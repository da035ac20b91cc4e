----------------------------- MODULE CardProofs -----------------------------
(***************************************************************************)
(* The proofs of what makes the rows of a paper's cards correct.           *)
(***************************************************************************)
EXTENDS CardProperties, TLAPS

\* Where a run of paper:read is, and what it holds there.
ReadOK(r) ==
  /\ run[r] \in ReadRuns
  /\ run[r].step \in {"waiting", "getReadContext"} => run[r].calls = 0
  /\ run[r].step = "callModel" => run[r].calls \in {0, 1}
  /\ run[r].step \in {"waiting", "getReadContext", "callModel", "deleteCards", "createCard"}
       => run[r].next = 1
  /\ run[r].step = "createEvidence" => run[r].next <= NumEvidence

ParseOK(w) ==
  /\ run[w] \in ParseRuns
  /\ run[w].step \in {"waiting", "parsePDF", "deleteSections"} => run[w].next = 1
  /\ run[w].step = "createSections" => run[w].next <= NumSections

RunsOK ==
  /\ run \in [Runs -> ReadRuns \cup ParseRuns]
  /\ \A r \in Reads : ReadOK(r)
  /\ \A w \in Parses : ParseOK(w)

\* A step of one run leaves the other runs alone.
Moves(w) ==
  run' \in [Runs -> ReadRuns \cup ParseRuns] /\ \A v \in Runs : v # w => run'[v] = run[v]

LEMMA MovesTo ==
  ASSUME RunsOK, NEW w \in Runs, NEW s \in ReadRuns \cup ParseRuns,
         run' = [run EXCEPT ![w] = s]
  PROVE  Moves(w) /\ run'[w] = s
  BY DEF RunsOK, Moves

\* A read that goes to another step without anything else changing.
LEMMA ReadGoes ==
  ASSUME RunsOK, NEW r \in Reads, NEW step \in
           {"waiting", "getReadContext", "callModel", "deleteCards", "createCard",
            "createEvidence", "markCompleted", "markFailed", "over"},
         run' = [run EXCEPT ![r].step = step]
  PROVE  /\ Moves(r) /\ run'[r] \in ReadRuns /\ run'[r].step = step
         /\ run'[r].given = run[r].given /\ run'[r].next = run[r].next
         /\ run'[r].calls = run[r].calls
  <1> DEFINE s == [run[r] EXCEPT !.step = step]
  <1>1. run[r] \in ReadRuns
    BY DEF RunsOK, ReadOK
  <1>2. s \in ReadRuns /\ s.step = step /\ s.given = run[r].given
        /\ s.next = run[r].next /\ s.calls = run[r].calls
    BY <1>1 DEF ReadRuns
  <1>3. run' = [run EXCEPT ![r] = s]
    OBVIOUS
  <1>4. Moves(r) /\ run'[r] = s
    BY <1>2, <1>3 DEF RunsOK, Moves, Runs
  <1>5. QED
    BY <1>2, <1>4

LEMMA ParseGoes ==
  ASSUME RunsOK, NEW w \in Parses, NEW step \in
           {"waiting", "parsePDF", "deleteSections", "createSections", "markParsed",
            "markFailed", "over"},
         run' = [run EXCEPT ![w].step = step]
  PROVE  /\ Moves(w) /\ run'[w] \in ParseRuns /\ run'[w].step = step
         /\ run'[w].next = run[w].next
  <1> DEFINE s == [run[w] EXCEPT !.step = step]
  <1>1. run[w] \in ParseRuns
    BY DEF RunsOK, ParseOK
  <1>2. s \in ParseRuns /\ s.step = step /\ s.next = run[w].next
    BY <1>1 DEF ParseRuns
  <1>3. run' = [run EXCEPT ![w] = s]
    OBVIOUS
  <1>4. Moves(w) /\ run'[w] = s
    BY <1>2, <1>3 DEF RunsOK, Moves, Runs
  <1>5. QED
    BY <1>2, <1>4
-----------------------------------------------------------------------------
(* What the steps of the two handlers do to the rows.                      *)

\* The steps a read is at once it has made its card.
Past == {"createEvidence", "markCompleted", "markFailed", "over"}

\* A read moves and writes no rows.
ReadsOn(r) ==
  /\ Moves(r) /\ ReadOK(r)' /\ UNCHANGED <<sections, cards, evidence>>
  /\ faults' = faults \/ (faults' = faults + 1 /\ faults < MaxFaults)
  /\ run'[r].given = run[r].given /\ run'[r].next = run[r].next
  /\ run'[r].step \notin {"createCard", "createEvidence", "markCompleted"}
  /\ run[r].step \in Past => run'[r].step \in Past
  /\ job' # job => job # "none" /\ job' \in {"reading", "completed", "failed"}
  /\ job' = "completed" => job = "completed" \/ (run[r].step = "markCompleted" /\ faults' = faults)
  /\ run[r].step \in {"createCard", "createEvidence"} =>
       faults' = faults + 1 \/ (run[r].step = "createCard" /\ ~PaperExists)

TakesSections(r) ==
  /\ Moves(r) /\ ReadOK(r)' /\ UNCHANGED <<job, sections, cards, evidence, faults>>
  /\ run[r].step = "getReadContext" /\ run'[r].step = "callModel"
  /\ run'[r].given = sections /\ run'[r].next = run[r].next

ClearsCards(r) ==
  /\ Moves(r) /\ ReadOK(r)' /\ UNCHANGED <<job, sections, faults>> /\ cards' = <<>> /\ evidence' = {}
  /\ run[r].step = "deleteCards" /\ run'[r].step = "createCard"
  /\ run'[r].given = run[r].given /\ run'[r].next = run[r].next

MakesCard(r) ==
  /\ Moves(r) /\ ReadOK(r)' /\ UNCHANGED <<job, sections, evidence, faults>> /\ cards' = Append(cards, r)
  /\ run[r].step = "createCard" /\ run[r].next = 1 /\ PaperExists
  /\ run'[r].step = AfterRow(0, NumEvidence)
  /\ run'[r].given = run[r].given /\ run'[r].next = run[r].next

Accepted(r, e) == r \in CardIds /\ e.section \in sections \cup {Null}

AddsEvidence(r, e) ==
  /\ Moves(r) /\ ReadOK(r)' /\ UNCHANGED <<job, sections, cards, faults>>
  /\ evidence' = evidence \cup {e} /\ Accepted(r, e)
  /\ run[r].step = "createEvidence" /\ run'[r].step = AfterRow(run[r].next, NumEvidence)
  /\ run'[r].given = run[r].given /\ run'[r].next = run[r].next + 1

IsRefused(r, e) ==
  /\ Moves(r) /\ ReadOK(r)' /\ UNCHANGED <<job, sections, cards, evidence, faults>> /\ ~Accepted(r, e)
  /\ run[r].step = "createEvidence" /\ run'[r].step = "markFailed"
  /\ run'[r].given = run[r].given /\ run'[r].next = run[r].next

\* A read that only goes on.
LEMMA ReadingOn ==
  ASSUME RunsOK, sections \subseteq SectionRows, NEW r \in Reads,
         \/ Start(r, "reading", "getReadContext") \/ CallModel(r) \/ CallFails(r)
         \/ At(r, "markCompleted") /\ SetStatus(r, "completed", "over")
         \/ MarkReadFailed(r) \/ Fail(r)
  PROVE  ReadsOn(r)
  <1>0. ReadOK(r) /\ run[r] \in ReadRuns /\ r \in Runs
    BY DEF RunsOK, ReadOK, Runs
  <1>1. ASSUME NEW status \in {"reading", "completed", "failed"}, NEW next \in {"getReadContext", "over"},
               SetStatus(r, status, next), run[r].step \in {"waiting", "markCompleted", "markFailed"},
               next = "getReadContext" => run[r].step = "waiting" /\ status = "reading",
               status = "completed" => run[r].step = "markCompleted"
        PROVE  ReadsOn(r)
    <2>1. \/ run' = [run EXCEPT ![r].step = next] /\ PaperExists /\ job' = status
          \/ run' = [run EXCEPT ![r].step = "over"] /\ job' = job
      BY <1>1 DEF SetStatus, Goto
    <2>2. UNCHANGED <<sections, cards, evidence, faults>>
      BY <1>1 DEF SetStatus, Goto, Quiet
    <2>3. CASE run' = [run EXCEPT ![r].step = next] /\ PaperExists /\ job' = status
      <3>1. /\ Moves(r) /\ run'[r] \in ReadRuns /\ run'[r].step = next
            /\ run'[r].given = run[r].given /\ run'[r].next = run[r].next
            /\ run'[r].calls = run[r].calls
        BY <2>3, ReadGoes
      <3>2. QED
        BY <1>0, <1>1, <2>2, <2>3, <3>1 DEF ReadsOn, ReadOK, Past, PaperExists
    <2>4. CASE run' = [run EXCEPT ![r].step = "over"] /\ job' = job
      <3>1. /\ Moves(r) /\ run'[r] \in ReadRuns /\ run'[r].step = "over"
            /\ run'[r].given = run[r].given /\ run'[r].next = run[r].next
            /\ run'[r].calls = run[r].calls
        BY <2>4, ReadGoes
      <3>2. QED
        BY <1>0, <1>1, <2>2, <2>4, <3>1 DEF ReadsOn, ReadOK, Past
    <2>5. QED
      BY <2>1, <2>3, <2>4
  <1>2. CASE Start(r, "reading", "getReadContext")
    BY <1>1, <1>2 DEF Start, At
  <1>3. CASE At(r, "markCompleted") /\ SetStatus(r, "completed", "over")
    BY <1>1, <1>3 DEF At
  <1>4. CASE MarkReadFailed(r)
    BY <1>1, <1>4 DEF MarkReadFailed, At
  <1>5. CASE CallFails(r)
    <2>1. run[r].step = "callModel" /\ UNCHANGED <<job, sections, cards, evidence, faults>>
          /\ run' = [run EXCEPT ![r].step = "markFailed"]
      BY <1>5 DEF CallFails, At, Goto, Quiet
    <2>2. /\ Moves(r) /\ run'[r] \in ReadRuns /\ run'[r].step = "markFailed"
          /\ run'[r].given = run[r].given /\ run'[r].next = run[r].next
      BY <2>1, ReadGoes
    <2>3. QED
      BY <2>1, <2>2 DEF ReadsOn, ReadOK, Past
  <1>6. CASE Fail(r)
    <2>1. PICK step \in {"over", "markFailed"} : run' = [run EXCEPT ![r].step = step]
      BY <1>6 DEF Fail
    <2>2. UNCHANGED <<job, sections, cards, evidence>> /\ faults' = faults + 1 /\ faults < MaxFaults
      BY <1>6 DEF Fail
    <2>3. /\ Moves(r) /\ run'[r] \in ReadRuns /\ run'[r].step = step
          /\ run'[r].given = run[r].given /\ run'[r].next = run[r].next
      BY <2>1, ReadGoes
    <2>4. QED
      BY <2>2, <2>3 DEF ReadsOn, ReadOK, Past
  <1>7. CASE CallModel(r)
    <2>1. run[r].step = "callModel" /\ UNCHANGED <<job, sections, cards, evidence, faults>>
      BY <1>7 DEF CallModel, At, Goto, Quiet
    <2>2. run[r].calls \in {0, 1} /\ run[r].next = 1
      BY <1>0, <2>1 DEF ReadOK
    <2>3. \/ run' = [run EXCEPT ![r].step = "deleteCards"]
          \/ run' = [run EXCEPT ![r].step = "markFailed"]
          \/ run' = [run EXCEPT ![r].calls = @ + 1,
                                ![r].step = IF run[r].calls = 0 THEN @ ELSE "markFailed"]
      BY <1>7, Zenon DEF CallModel, Goto
    <2>4. CASE run' = [run EXCEPT ![r].step = "deleteCards"]
      <3>1. /\ Moves(r) /\ run'[r] \in ReadRuns /\ run'[r].step = "deleteCards"
            /\ run'[r].given = run[r].given /\ run'[r].next = run[r].next
        BY <2>4, ReadGoes
      <3>2. QED
        BY <2>1, <2>2, <3>1 DEF ReadsOn, ReadOK, Past
    <2>5. CASE run' = [run EXCEPT ![r].step = "markFailed"]
      <3>1. /\ Moves(r) /\ run'[r] \in ReadRuns /\ run'[r].step = "markFailed"
            /\ run'[r].given = run[r].given /\ run'[r].next = run[r].next
        BY <2>5, ReadGoes
      <3>2. QED
        BY <2>1, <3>1 DEF ReadsOn, ReadOK, Past
    <2>6. CASE run' = [run EXCEPT ![r].calls = @ + 1,
                                  ![r].step = IF run[r].calls = 0 THEN @ ELSE "markFailed"]
      <3> DEFINE step == IF run[r].calls = 0 THEN run[r].step ELSE "markFailed"
                 n == run[r].calls + 1
                 s == [run[r] EXCEPT !.calls = n, !.step = step]
      <3>1. /\ s \in ReadRuns /\ s.step = step /\ s.given = run[r].given
            /\ s.next = run[r].next /\ s.calls = run[r].calls + 1
        <4>1. n \in 0..2 /\ step \in {"callModel", "markFailed"}
          BY <2>1, <2>2
        <4> HIDE DEF n, step
        <4>2. s \in ReadRuns
          BY <1>0, <4>1 DEF ReadRuns
        <4>3. s.step = step /\ s.given = run[r].given /\ s.next = run[r].next /\ s.calls = n
          BY <1>0 DEF ReadRuns
        <4>4. QED
          BY <4>2, <4>3 DEF n
      <3>2. run' = [run EXCEPT ![r] = s]
        BY <2>6
      <3>3. Moves(r) /\ run'[r] = s
        BY <1>0, <3>1, <3>2 DEF RunsOK, Moves
      <3>4. QED
        BY <2>1, <2>2, <3>1, <3>3 DEF ReadsOn, ReadOK, Past
    <2>7. QED
      BY <2>3, <2>4, <2>5, <2>6
  <1>8. QED
    BY <1>2, <1>3, <1>4, <1>5, <1>6, <1>7

\* Every step of a read, and what it changes.
LEMMA ReadEffects ==
  ASSUME RunsOK, sections \subseteq SectionRows, NEW r \in Reads, ReadStep(r) \/ Fail(r)
  PROVE  \/ ReadsOn(r) \/ TakesSections(r) \/ ClearsCards(r) \/ MakesCard(r)
         \/ \E label \in Orders \cup {Null} :
              AddsEvidence(r, EvidenceRow(r, label)) \/ IsRefused(r, EvidenceRow(r, label))
  <1>0. ReadOK(r) /\ run[r] \in ReadRuns /\ r \in Runs
    BY DEF RunsOK, ReadOK, Runs
  <1>1. CASE GetReadContext(r)
    <2>1. run[r].step = "getReadContext" /\ UNCHANGED <<job, sections, cards, evidence, faults>>
      BY <1>1 DEF GetReadContext, At, Quiet
    <2>2. \/ run' = [run EXCEPT ![r].step = "callModel", ![r].given = sections]
          \/ run' = [run EXCEPT ![r].step = "markFailed"]
      BY <1>1 DEF GetReadContext
    <2>3. CASE run' = [run EXCEPT ![r].step = "callModel", ![r].given = sections]
      <3> DEFINE s == [run[r] EXCEPT !.step = "callModel", !.given = sections]
      <3>1. /\ s \in ReadRuns /\ s.step = "callModel" /\ s.given = sections
            /\ s.next = run[r].next /\ s.calls = run[r].calls
        BY <1>0 DEF ReadRuns
      <3>2. run' = [run EXCEPT ![r] = s]
        BY <2>3
      <3>3. Moves(r) /\ run'[r] = s
        BY <1>0, <3>1, <3>2 DEF RunsOK, Moves
      <3>4. QED
        BY <1>0, <2>1, <3>1, <3>3 DEF TakesSections, ReadOK
    <2>4. CASE run' = [run EXCEPT ![r].step = "markFailed"]
      <3>1. /\ Moves(r) /\ run'[r] \in ReadRuns /\ run'[r].step = "markFailed"
            /\ run'[r].given = run[r].given /\ run'[r].next = run[r].next
        BY <2>4, ReadGoes
      <3>2. QED
        BY <2>1, <3>1 DEF ReadsOn, ReadOK, Past
    <2>5. QED
      BY <2>2, <2>3, <2>4
  <1>2. CASE DeleteCards(r)
    <2>1. run[r].step = "deleteCards" /\ run' = [run EXCEPT ![r].step = "createCard"]
      BY <1>2 DEF DeleteCards, At, Goto
    <2>2. /\ Moves(r) /\ run'[r] \in ReadRuns /\ run'[r].step = "createCard"
          /\ run'[r].given = run[r].given /\ run'[r].next = run[r].next
      BY <2>1, ReadGoes
    <2>3. QED
      BY <1>0, <1>2, <2>1, <2>2 DEF DeleteCards, Goto, Quiet, ClearsCards, ReadOK
  <1>3. CASE CreateCard(r)
    <2>1. run[r].step = "createCard" /\ UNCHANGED <<job, sections, evidence, faults>>
      BY <1>3 DEF CreateCard, At, Goto, Quiet
    <2>2. CASE PaperExists /\ cards' = Append(cards, r) /\ Goto(r, AfterRow(0, NumEvidence))
      <3>1. AfterRow(0, NumEvidence) \in {"createEvidence", "markCompleted"}
            /\ (AfterRow(0, NumEvidence) = "createEvidence" => 1 <= NumEvidence)
        BY SizesAssumption DEF AfterRow
      <3>2. /\ Moves(r) /\ run'[r] \in ReadRuns /\ run'[r].step = AfterRow(0, NumEvidence)
            /\ run'[r].given = run[r].given /\ run'[r].next = run[r].next
        BY <2>2, <3>1, ReadGoes DEF Goto
      <3>3. run[r].next = 1
        BY <1>0, <2>1 DEF ReadOK
      <3>4. ReadOK(r)'
        BY <3>1, <3>2, <3>3 DEF ReadOK
      <3>5. QED
        BY <2>1, <2>2, <3>2, <3>3, <3>4 DEF MakesCard
    <2>3. CASE ~PaperExists /\ UNCHANGED cards /\ Goto(r, "markFailed")
      <3>1. /\ Moves(r) /\ run'[r] \in ReadRuns /\ run'[r].step = "markFailed"
            /\ run'[r].given = run[r].given /\ run'[r].next = run[r].next
        BY <2>3, ReadGoes DEF Goto
      <3>2. QED
        BY <2>1, <2>3, <3>1 DEF ReadsOn, ReadOK, Past
    <2>4. QED
      BY <1>3, <2>2, <2>3 DEF CreateCard
  <1>4. CASE CreateEvidence(r)
    <2>1. run[r].step = "createEvidence" /\ UNCHANGED <<job, sections, cards, faults>>
      BY <1>4 DEF CreateEvidence, At, Quiet
    <2>2. PICK label \in Orders \cup {Null} :
            \/ /\ Accepted(r, EvidenceRow(r, label))
               /\ evidence' = evidence \cup {EvidenceRow(r, label)}
               /\ run' = [run EXCEPT ![r].step = AfterRow(run[r].next, NumEvidence),
                                     ![r].next = @ + 1]
            \/ /\ ~Accepted(r, EvidenceRow(r, label)) /\ UNCHANGED evidence
               /\ run' = [run EXCEPT ![r].step = "markFailed"]
      BY <1>4, Zenon DEF CreateEvidence, Accepted
    <2>3. CASE /\ Accepted(r, EvidenceRow(r, label))
               /\ evidence' = evidence \cup {EvidenceRow(r, label)}
               /\ run' = [run EXCEPT ![r].step = AfterRow(run[r].next, NumEvidence),
                                     ![r].next = @ + 1]
      <3> DEFINE step == AfterRow(run[r].next, NumEvidence)
                 n == run[r].next + 1
                 s == [run[r] EXCEPT !.step = step, !.next = n]
      <3>1. /\ step \in {"createEvidence", "markCompleted"}
            /\ step = "createEvidence" => n <= NumEvidence
            /\ n \in 1..(NumEvidence + 1)
        BY <1>0, <2>1, SizesAssumption DEF AfterRow, ReadOK, ReadRuns
      <3>2. run' = [run EXCEPT ![r] = s]
        BY <2>3
      <3> HIDE DEF step, n
      <3>3. s \in ReadRuns
        BY <1>0, <3>1 DEF ReadRuns
      <3>4. s.step = step /\ s.next = n /\ s.given = run[r].given
        BY <1>0 DEF ReadRuns
      <3>5. Moves(r) /\ run'[r] = s
        BY <1>0, <3>2, <3>3 DEF RunsOK, Moves
      <3>6. ReadOK(r)'
        BY <3>1, <3>3, <3>4, <3>5 DEF ReadOK
      <3>7. QED
        BY <2>1, <2>3, <3>4, <3>5, <3>6 DEF AddsEvidence, step, n
    <2>4. CASE /\ ~Accepted(r, EvidenceRow(r, label)) /\ UNCHANGED evidence
               /\ run' = [run EXCEPT ![r].step = "markFailed"]
      <3>1. /\ Moves(r) /\ run'[r] \in ReadRuns /\ run'[r].step = "markFailed"
            /\ run'[r].given = run[r].given /\ run'[r].next = run[r].next
        BY <2>4, ReadGoes
      <3>2. QED
        BY <2>1, <2>4, <3>1 DEF IsRefused, ReadOK
    <2>5. QED
      BY <2>2, <2>3, <2>4
  <1>5. QED
    BY <1>1, <1>2, <1>3, <1>4, ReadingOn DEF ReadStep

ParsesOn(w) ==
  /\ Moves(w) /\ ParseOK(w)' /\ UNCHANGED <<sections, cards, evidence>>
  /\ faults' = faults \/ (faults' = faults + 1 /\ faults < MaxFaults)
  /\ run'[w].next = run[w].next
  /\ job' # job => job # "none" /\ job' \in {"processing", "parsed", "failed"}

ClearsSections(w) ==
  /\ Moves(w) /\ ParseOK(w)' /\ UNCHANGED <<job, cards, faults>> /\ run'[w].next = run[w].next
  /\ sections' = {} /\ evidence' = {[e EXCEPT !.section = Null] : e \in evidence}

AddsSection(w) ==
  /\ Moves(w) /\ ParseOK(w)' /\ UNCHANGED <<job, cards, evidence, faults>>
  /\ run[w].next \in Orders /\ run'[w].next = run[w].next + 1
  /\ \A s \in sections : s.order # run[w].next
  /\ sections' = sections \cup {SectionRow(w, run[w].next)}

LEMMA ParseEffects ==
  ASSUME RunsOK, NEW w \in Parses, ParseStep(w) \/ Fail(w)
  PROVE  ParsesOn(w) \/ ClearsSections(w) \/ AddsSection(w)
  <1>0. ParseOK(w) /\ run[w] \in ParseRuns /\ w \in Runs
    BY DEF RunsOK, ParseOK, Runs
  <1>1. ASSUME NEW status \in {"processing", "parsed", "failed"}, NEW next \in {"parsePDF", "over"},
               SetStatus(w, status, next), next = "parsePDF" => run[w].step = "waiting"
        PROVE  ParsesOn(w)
    <2>1. /\ UNCHANGED <<sections, cards, evidence, faults>>
          /\ job' # job => job # "none" /\ job' = status
          /\ run' = [run EXCEPT ![w].step = next] \/ run' = [run EXCEPT ![w].step = "over"]
      BY <1>1 DEF SetStatus, Goto, Quiet, PaperExists
    <2>2. PICK step \in {next, "over"} : run' = [run EXCEPT ![w].step = step]
      BY <2>1
    <2>3. /\ Moves(w) /\ run'[w] \in ParseRuns /\ run'[w].step = step
          /\ run'[w].next = run[w].next
      BY <2>2, ParseGoes
    <2>4. QED
      BY <1>0, <1>1, <2>1, <2>3 DEF ParsesOn, ParseOK
  <1>2. CASE Start(w, "processing", "parsePDF")
    BY <1>1, <1>2 DEF Start, At
  <1>3. CASE (At(w, "markParsed") /\ SetStatus(w, "parsed", "over"))
             \/ (At(w, "markFailed") /\ SetStatus(w, "failed", "over"))
    BY <1>1, <1>3
  <1>4. CASE ParsePDF(w)
    <2>1. /\ run[w].step = "parsePDF" /\ UNCHANGED <<job, sections, cards, evidence, faults>>
          /\ \E step \in {"deleteSections", "markFailed"} : run' = [run EXCEPT ![w].step = step]
      BY <1>4 DEF ParsePDF, At, Goto, Quiet
    <2>2. PICK step \in {"deleteSections", "markFailed"} : run' = [run EXCEPT ![w].step = step]
      BY <2>1
    <2>3. /\ Moves(w) /\ run'[w] \in ParseRuns /\ run'[w].step = step
          /\ run'[w].next = run[w].next
      BY <2>2, ParseGoes
    <2>4. QED
      BY <1>0, <2>1, <2>3 DEF ParsesOn, ParseOK
  <1>5. CASE DeleteSections(w)
    <2>1. run[w].step = "deleteSections" /\ run' = [run EXCEPT ![w].step = "createSections"]
      BY <1>5 DEF DeleteSections, At, Goto
    <2>2. /\ Moves(w) /\ run'[w] \in ParseRuns /\ run'[w].step = "createSections"
          /\ run'[w].next = run[w].next
      BY <2>1, ParseGoes
    <2>3. ParseOK(w)'
      BY <1>0, <2>1, <2>2, SizesAssumption DEF ParseOK
    <2>4. QED
      BY <1>5, <2>2, <2>3 DEF DeleteSections, Goto, Quiet, ClearsSections
  <1>6. CASE CreateSection(w)
    <2> DEFINE i == run[w].next
    <2>1. run[w].step = "createSections" /\ UNCHANGED <<job, cards, evidence, faults>>
      BY <1>6 DEF CreateSection, At, Quiet
    <2>2. i \in Orders
      BY <1>0, <2>1, SizesAssumption DEF ParseOK, ParseRuns, Orders
    <2>3. CASE /\ \A s \in sections : s.order # i
               /\ sections' = sections \cup {SectionRow(w, i)}
               /\ run' = [run EXCEPT ![w].step = IF i < NumSections THEN @ ELSE "markParsed",
                                     ![w].next = i + 1]
      <3> DEFINE step == IF i < NumSections THEN run[w].step ELSE "markParsed"
                 n == i + 1
                 s == [run[w] EXCEPT !.step = step, !.next = n]
      <3>1. /\ step \in {"createSections", "markParsed"}
            /\ step = "createSections" => n <= NumSections
            /\ n \in 1..(NumSections + 1)
        BY <2>1, <2>2, SizesAssumption DEF Orders
      <3>2. run' = [run EXCEPT ![w] = s]
        BY <2>3
      <3> HIDE DEF step, n
      <3>3. s \in ParseRuns /\ s.step = step /\ s.next = n
        BY <1>0, <3>1 DEF ParseRuns
      <3>4. Moves(w) /\ run'[w] = s
        BY <1>0, <3>2, <3>3 DEF RunsOK, Moves
      <3>5. ParseOK(w)'
        BY <3>1, <3>3, <3>4 DEF ParseOK
      <3>6. QED
        BY <2>1, <2>2, <2>3, <3>3, <3>4, <3>5 DEF AddsSection, n
    <2>4. CASE UNCHANGED sections /\ run' = [run EXCEPT ![w].step = "markFailed"]
      <3>1. /\ Moves(w) /\ run'[w] \in ParseRuns /\ run'[w].step = "markFailed"
            /\ run'[w].next = run[w].next
        BY <2>4, ParseGoes
      <3>2. QED
        BY <2>1, <2>4, <3>1 DEF ParsesOn, ParseOK
    <2>5. QED
      BY <1>6, <2>3, <2>4, Zenon DEF CreateSection
  <1>7. CASE Fail(w)
    <2>1. PICK step \in {"over", "markFailed"} : run' = [run EXCEPT ![w].step = step]
      BY <1>7 DEF Fail
    <2>2. UNCHANGED <<job, sections, cards, evidence>> /\ faults' = faults + 1 /\ faults < MaxFaults
      BY <1>7 DEF Fail
    <2>3. /\ Moves(w) /\ run'[w] \in ParseRuns /\ run'[w].step = step
          /\ run'[w].next = run[w].next
      BY <2>1, ParseGoes
    <2>4. QED
      BY <2>2, <2>3 DEF ParsesOn, ParseOK
  <1>8. QED
    BY <1>2, <1>3, <1>4, <1>5, <1>6, <1>7 DEF ParseStep

\* Every step is one of these.
LEMMA Effects ==
  ASSUME CardsTypeOK, RunsOK, [Next]_vars
  PROVE  \/ \E r \in Reads :
              \/ ReadsOn(r) \/ TakesSections(r) \/ ClearsCards(r) \/ MakesCard(r)
              \/ \E label \in Orders \cup {Null} :
                   AddsEvidence(r, EvidenceRow(r, label)) \/ IsRefused(r, EvidenceRow(r, label))
         \/ \E w \in Parses : ParsesOn(w) \/ ClearsSections(w) \/ AddsSection(w)
         \/ DeletePaper \/ UNCHANGED vars
  <1>1. ASSUME NEW w \in Runs, Step(w) \/ Fail(w)
        PROVE  \/ w \in Reads /\ (ReadStep(w) \/ Fail(w))
               \/ w \in Parses /\ (ParseStep(w) \/ Fail(w))
    BY <1>1 DEF Step, Runs
  <1>2. sections \subseteq SectionRows
    BY DEF CardsTypeOK
  <1>3. CASE \E w \in Runs : Step(w) \/ Fail(w)
    <2>1. PICK w \in Runs : Step(w) \/ Fail(w)
      BY <1>3
    <2>2. CASE w \in Reads /\ (ReadStep(w) \/ Fail(w))
      BY <1>2, <2>2, ReadEffects
    <2>3. CASE w \in Parses /\ (ParseStep(w) \/ Fail(w))
      BY <2>3, ParseEffects
    <2>4. QED
      BY <1>1, <2>1, <2>2, <2>3
  <1>4. QED
    BY <1>3 DEF Next

-----------------------------------------------------------------------------
(* Types.                                                                  *)

TypeInv == CardsTypeOK /\ RunsOK /\ cards \in Seq(Reads)

LEMMA MoreCards ==
  ASSUME cards \in Seq(Reads), NEW r \in Reads, cards' = Append(cards, r)
  PROVE  cards' \in Seq(Reads) /\ CardIds' = CardIds \cup {r} /\ cards' # <<>>
  <1>1. cards' \in Seq(Reads) /\ Len(cards') = Len(cards) + 1 /\ Len(cards) \in Nat
    OBVIOUS
  <1>2. \A k \in 1..Len(cards') : cards'[k] = IF k = Len(cards) + 1 THEN r ELSE cards[k]
    OBVIOUS
  <1>3. CardIds' = CardIds \cup {r}
    <2>1. ASSUME NEW c \in CardIds' PROVE c \in CardIds \cup {r}
      BY <1>1, <1>2 DEF CardIds
    <2>2. ASSUME NEW c \in CardIds PROVE c \in CardIds'
      <3>1. PICK k \in 1..Len(cards) : c = cards[k]
        BY DEF CardIds
      <3>2. k \in 1..Len(cards') /\ cards'[k] = c
        BY <1>1, <1>2, <3>1
      <3>3. QED
        BY <3>2 DEF CardIds
    <2>3. r \in CardIds'
      <3>1. Len(cards) + 1 \in 1..Len(cards') /\ cards'[Len(cards) + 1] = r
        BY <1>1, <1>2
      <3>2. QED
        BY <3>1 DEF CardIds
    <2>4. QED
      BY <2>1, <2>2, <2>3
  <1>4. QED
    BY <1>1, <1>3

LEMMA NoCards ==
  ASSUME cards = <<>>
  PROVE  CardIds = {}
  BY DEF CardIds

\* A run that moves keeps the runs typed.
LEMMA RunsStay ==
  ASSUME RunsOK, NEW w \in Runs, Moves(w),
         w \in Reads => ReadOK(w)', w \in Parses => ParseOK(w)'
  PROVE  RunsOK'
  <1>1. \A r \in Reads : r # w => run'[r] = run[r]
    BY DEF Moves, Runs
  <1>2. \A v \in Parses : v # w => run'[v] = run[v]
    BY DEF Moves, Runs
  <1>3. QED
    BY <1>1, <1>2 DEF RunsOK, Moves, ReadOK, ParseOK

LEMMA TypeInvStep ==
  ASSUME TypeInv, [Next]_vars
  PROVE  TypeInv'
  <1> DEFINE Row(S) == [card : CardIds, claim : 1..NumEvidence,
                        label : Orders \cup {Null}, section : S \cup {Null}]
  <1>0. CardsTypeOK /\ RunsOK /\ cards \in Seq(Reads)
    BY DEF TypeInv
  <1>r. \A w \in Reads : w \in Runs /\ w \notin Parses
    BY RunsAssumption DEF Runs
  <1>p. \A w \in Parses : w \in Runs /\ w \notin Reads
    BY RunsAssumption DEF Runs
  <1>g. faults' \in 0..MaxFaults
    BY <1>0, LimitsAssumption, Effects DEF CardsTypeOK, ReadsOn, TakesSections, ClearsCards, MakesCard,
       AddsEvidence, IsRefused, ParsesOn, ClearsSections, AddsSection, DeletePaper, vars
  <1>1. ASSUME NEW r \in Reads, ReadsOn(r) \/ TakesSections(r)
        PROVE  TypeInv'
    <2>1. /\ Moves(r) /\ ReadOK(r)' /\ UNCHANGED <<sections, cards, evidence>>
          /\ job' = job \/ job' \in {"reading", "completed", "failed"}
      BY <1>1 DEF ReadsOn, TakesSections
    <2>2. RunsOK'
      BY <1>0, <1>r, <2>1, RunsStay
    <2>3. QED
      BY <1>0, <1>g, <2>1, <2>2 DEF TypeInv, CardsTypeOK, RunsOK, CardIds
  <1>2. ASSUME NEW r \in Reads, ClearsCards(r)
        PROVE  TypeInv'
    <2>1. RunsOK'
      BY <1>0, <1>2, <1>r, RunsStay DEF ClearsCards
    <2>2. cards' = <<>> /\ evidence' = {} /\ CardIds' = {} /\ UNCHANGED <<job, sections>>
      BY <1>2 DEF ClearsCards, CardIds
    <2>3. QED
      BY <1>0, <1>g, <2>1, <2>2 DEF TypeInv, CardsTypeOK, RunsOK
  <1>3. ASSUME NEW r \in Reads, MakesCard(r)
        PROVE  TypeInv'
    <2>1. RunsOK'
      BY <1>0, <1>3, <1>r, RunsStay DEF MakesCard
    <2>2. cards' \in Seq(Reads) /\ CardIds' = CardIds \cup {r}
      BY <1>0, <1>3, MoreCards DEF MakesCard
    <2>3. UNCHANGED <<job, sections, evidence>>
      BY <1>3 DEF MakesCard
    <2>4. QED
      BY <1>0, <1>g, <2>1, <2>2, <2>3 DEF TypeInv, CardsTypeOK, RunsOK
  <1>4. ASSUME NEW r \in Reads, NEW label \in Orders \cup {Null}, AddsEvidence(r, EvidenceRow(r, label))
        PROVE  TypeInv'
    <2> DEFINE e == EvidenceRow(r, label)
    <2>1. RunsOK'
      BY <1>0, <1>4, <1>r, RunsStay DEF AddsEvidence
    <2>2. e.card = r /\ e.claim = run[r].next /\ e.label = label
      BY DEF EvidenceRow
    <2>3. run[r].next \in 1..NumEvidence
      BY <1>0, <1>4, SizesAssumption DEF AddsEvidence, RunsOK, ReadOK, ReadRuns
    <2>4. e \in Row(sections)
      BY <1>4, <2>3 DEF AddsEvidence, Accepted, EvidenceRow
    <2>5. UNCHANGED <<job, sections, cards>> /\ evidence' = evidence \cup {e}
      BY <1>4 DEF AddsEvidence
    <2>6. QED
      BY <1>0, <1>g, <2>1, <2>4, <2>5 DEF TypeInv, CardsTypeOK, RunsOK, CardIds
  <1>5. ASSUME NEW r \in Reads, NEW e, IsRefused(r, e)
        PROVE  TypeInv'
    <2>1. RunsOK'
      BY <1>0, <1>5, <1>r, RunsStay DEF IsRefused
    <2>2. QED
      BY <1>0, <1>5, <1>g, <2>1 DEF IsRefused, TypeInv, CardsTypeOK, RunsOK, CardIds
  <1>6. ASSUME NEW w \in Parses, ParsesOn(w)
        PROVE  TypeInv'
    <2>1. RunsOK'
      BY <1>0, <1>6, <1>p, RunsStay DEF ParsesOn
    <2>2. QED
      BY <1>0, <1>6, <1>g, <2>1 DEF ParsesOn, TypeInv, CardsTypeOK, RunsOK, CardIds
  <1>7. ASSUME NEW w \in Parses, ClearsSections(w)
        PROVE  TypeInv'
    <2>1. RunsOK'
      BY <1>0, <1>7, <1>p, RunsStay DEF ClearsSections
    <2>2. evidence' \subseteq Row({})
      BY <1>0, <1>7 DEF ClearsSections, CardsTypeOK
    <2>3. UNCHANGED <<job, cards>> /\ sections' = {}
      BY <1>7 DEF ClearsSections
    <2>4. QED
      BY <1>0, <1>g, <2>1, <2>2, <2>3 DEF TypeInv, CardsTypeOK, RunsOK, CardIds
  <1>8. ASSUME NEW w \in Parses, AddsSection(w)
        PROVE  TypeInv'
    <2>1. RunsOK'
      BY <1>0, <1>8, <1>p, RunsStay DEF AddsSection
    <2>2. SectionRow(w, run[w].next) \in SectionRows
      BY <1>8 DEF AddsSection, SectionRow, SectionRows
    <2>3. evidence \subseteq Row(sections')
      BY <1>0, <1>8 DEF AddsSection, CardsTypeOK
    <2>4. UNCHANGED <<job, cards, evidence>> /\ sections' \subseteq SectionRows
      BY <1>0, <1>8, <2>2 DEF AddsSection, CardsTypeOK
    <2>5. QED
      BY <1>0, <1>g, <2>1, <2>3, <2>4 DEF TypeInv, CardsTypeOK, RunsOK, CardIds
  <1>9. CASE DeletePaper
    <2>1. /\ job' = "none" /\ sections' = {} /\ cards' = <<>> /\ evidence' = {}
          /\ UNCHANGED run /\ CardIds' = {}
      BY <1>9 DEF DeletePaper, CardIds
    <2>2. RunsOK'
      BY <1>0, <2>1 DEF RunsOK, ReadOK, ParseOK
    <2>3. QED
      BY <1>0, <1>g, <2>1, <2>2 DEF TypeInv, CardsTypeOK, RunsOK
  <1>10. CASE UNCHANGED vars
    BY <1>0, <1>10 DEF vars, TypeInv, CardsTypeOK, RunsOK, ReadOK, ParseOK, CardIds
  <1>11. QED
    BY <1>0, <1>1, <1>2, <1>3, <1>4, <1>5, <1>6, <1>7, <1>8, <1>9, <1>10, Effects

LEMMA TypeInvInit == Init => TypeInv
  <1> SUFFICES ASSUME Init PROVE TypeInv
    OBVIOUS
  <1>1. /\ [step |-> "waiting", calls |-> 0, given |-> {}, next |-> 1] \in ReadRuns
        /\ [step |-> "waiting", next |-> 1] \in ParseRuns
    BY SizesAssumption DEF ReadRuns, ParseRuns
  <1>2. RunsOK
    BY <1>1, RunsAssumption DEF Init, RunsOK, ReadOK, ParseOK, Runs
  <1>3. sections \subseteq SectionRows
    BY DEF Init, SectionRow, SectionRows
  <1>4. cards = <<>> /\ evidence = {} /\ CardIds = {} /\ cards \in Seq(Reads)
    BY DEF Init, CardIds
  <1>5. QED
    BY <1>2, <1>3, <1>4, LimitsAssumption DEF Init, TypeInv, CardsTypeOK, RunsOK

\* The types hold in every state, for any number of runs, sections, entries and faults;
\* so no evidence row outlives its card or points at a section that is gone.
THEOREM CardsTypeCorrect == Spec => []CardsTypeOK
  <1>1. TypeInv => CardsTypeOK
    BY DEF TypeInv
  <1>2. TypeInv /\ [Next]_vars => TypeInv'
    BY TypeInvStep
  <1>3. QED
    BY <1>1, <1>2, TypeInvInit, PTL DEF Spec

-----------------------------------------------------------------------------
(* Evidence and sections.                                                  *)

\* Labels are unique among the sections there are and among those a run was given;
\* a section that was there once is behind its parse, which never makes it again;
\* the run of a card keeps what it was given.
LabelsInv ==
  /\ \A s, t \in sections : s.order = t.order => s = t
  /\ \A s \in sections : s.by \in Parses => s.order < run[s.by].next
  /\ \A r \in Reads : \A s, t \in run[r].given : s.order = t.order => s = t
  /\ \A r \in Reads : \A s \in run[r].given : s.by \in Parses => s.order < run[s.by].next
  /\ \A c \in CardIds : run[c].step \in Past

LEMMA LabelsInvStep ==
  ASSUME TypeInv, LabelsInv, [Next]_vars
  PROVE  LabelsInv'
  <1>0. CardsTypeOK /\ RunsOK /\ cards \in Seq(Reads) /\ CardIds \subseteq Reads
    BY DEF TypeInv, CardsTypeOK
  <1>r. \A w \in Reads : w \in Runs /\ w \notin Parses
    BY RunsAssumption DEF Runs
  <1>p. \A w \in Parses : w \in Runs /\ w \notin Reads
    BY RunsAssumption DEF Runs
  <1>s. \A s \in sections : s.order \in Nat
    BY <1>0 DEF CardsTypeOK, SectionRows, Orders
  <1>n. \A w \in Parses : run[w].next \in Nat
    BY <1>0, SizesAssumption DEF RunsOK, ParseOK, ParseRuns
  <1>g. \A r \in Reads : \A s \in run[r].given : s.order \in Nat
    BY <1>0 DEF RunsOK, ReadOK, ReadRuns, SectionRows, Orders
  <1>1. ASSUME NEW r \in Reads, Moves(r), UNCHANGED sections, run'[r].given \in {run[r].given, sections},
               CardIds' \subseteq CardIds \cup {r}, r \in CardIds' => run'[r].step \in Past
        PROVE  LabelsInv'
    BY <1>0, <1>1, <1>r, <1>p DEF LabelsInv, Moves
  <1>2. ASSUME NEW r \in Reads, ReadsOn(r)
        PROVE  LabelsInv'
    BY <1>1, <1>2 DEF ReadsOn, LabelsInv, CardIds
  <1>3. ASSUME NEW r \in Reads, TakesSections(r)
        PROVE  LabelsInv'
    <2>1. CardIds' = CardIds
      BY <1>3 DEF TakesSections, CardIds
    <2>2. r \notin CardIds
      BY <1>3 DEF TakesSections, LabelsInv, Past
    <2>3. QED
      BY <1>1, <1>3, <2>1, <2>2 DEF TakesSections
  <1>4. ASSUME NEW r \in Reads, ClearsCards(r)
        PROVE  LabelsInv'
    <2>1. CardIds' = {}
      BY <1>4, NoCards DEF ClearsCards, CardIds
    <2>2. QED
      BY <1>1, <1>4, <2>1 DEF ClearsCards
  <1>5. ASSUME NEW r \in Reads, MakesCard(r)
        PROVE  LabelsInv'
    <2>1. CardIds' = CardIds \cup {r}
      BY <1>0, <1>5, MoreCards DEF MakesCard
    <2>2. QED
      BY <1>1, <1>5, <2>1 DEF MakesCard, AfterRow, Past
  <1>6. ASSUME NEW r \in Reads, NEW e, AddsEvidence(r, e) \/ IsRefused(r, e)
        PROVE  LabelsInv'
    <2>1. /\ CardIds' = CardIds /\ Moves(r) /\ UNCHANGED sections /\ run'[r].given = run[r].given
          /\ run'[r].step \in Past
      BY <1>6 DEF AddsEvidence, IsRefused, CardIds, AfterRow, Past
    <2>2. QED
      BY <1>1, <2>1
  <1>7. ASSUME NEW w \in Parses, ParsesOn(w) \/ ClearsSections(w)
        PROVE  LabelsInv'
    <2>1. /\ CardIds' = CardIds /\ Moves(w) /\ sections' \subseteq sections
          /\ run'[w].next = run[w].next
      BY <1>7 DEF ParsesOn, ClearsSections, CardIds
    <2>2. QED
      BY <1>0, <1>r, <1>p, <2>1 DEF LabelsInv, Moves
  <1>8. ASSUME NEW w \in Parses, AddsSection(w)
        PROVE  LabelsInv'
    <2> DEFINE new == SectionRow(w, run[w].next)
    <2>1. /\ CardIds' = CardIds /\ Moves(w) /\ sections' = sections \cup {new}
          /\ run'[w].next = run[w].next + 1 /\ \A s \in sections : s.order # run[w].next
      BY <1>8 DEF AddsSection, CardIds
    <2>2. new.by = w /\ new.order = run[w].next
      BY DEF SectionRow
    <2>3. \A r \in Reads : run'[r] = run[r]
      BY <1>r, <1>p, <2>1 DEF Moves
    <2>4. \A v \in Parses : run'[v].next >= run[v].next
      BY <1>p, <1>n, <2>1 DEF Moves
    <2>5. \A v \in Parses : run'[v].next \in Nat
      BY <1>p, <1>n, <2>1 DEF Moves
    <2> HIDE DEF new
    <2>6. \A s, t \in sections' : s.order = t.order => s = t
      BY <2>1, <2>2 DEF LabelsInv
    <2>7. \A s \in sections' : s.by \in Parses => s.order < run'[s.by].next
      BY <1>s, <1>n, <2>1, <2>2, <2>4, <2>5 DEF LabelsInv
    <2>8. \A r \in Reads : \A s \in run[r].given : s.by \in Parses => s.order < run'[s.by].next
      BY <1>g, <1>n, <2>4, <2>5 DEF LabelsInv
    <2>9. QED
      BY <1>0, <2>1, <2>3, <2>6, <2>7, <2>8 DEF LabelsInv
  <1>9. CASE DeletePaper
    <2>1. CardIds' = {} /\ sections' = {} /\ run' = run
      BY <1>9 DEF DeletePaper, CardIds
    <2>2. QED
      BY <2>1 DEF LabelsInv
  <1>10. CASE UNCHANGED vars
    BY <1>10 DEF vars, LabelsInv, CardIds
  <1>11. QED
    BY <1>0, <1>2, <1>3, <1>4, <1>5, <1>6, <1>7, <1>8, <1>9, <1>10, Effects

LEMMA LabelsInvInit == Init => LabelsInv
  <1> SUFFICES ASSUME Init PROVE LabelsInv
    OBVIOUS
  <1>1. \A s \in sections : s.by = FirstParse /\ \E i \in Orders : s = [by |-> FirstParse, order |-> i]
    BY DEF Init, SectionRow
  <1>2. \A r \in Reads : run[r].given = {}
    BY DEF Init, Runs
  <1>3. CardIds = {}
    BY NoCards DEF Init
  <1>4. FirstParse \notin Parses
    BY RunsAssumption
  <1>5. \A s, t \in sections : s.order = t.order => s = t
    BY <1>1
  <1>6. QED
    BY <1>1, <1>2, <1>3, <1>4, <1>5 DEF LabelsInv

\* Evidence points at what the model was given, or at nothing.
LEMMA CitesStep ==
  ASSUME TypeInv, LabelsInv, EvidenceCitesWhatWasRead, [Next]_vars
  PROVE  EvidenceCitesWhatWasRead'
  <1>0. CardsTypeOK /\ RunsOK /\ cards \in Seq(Reads)
    BY DEF TypeInv
  <1>r. \A w \in Reads : w \in Runs /\ w \notin Parses
    BY RunsAssumption DEF Runs
  <1>p. \A w \in Parses : w \in Runs /\ w \notin Reads
    BY RunsAssumption DEF Runs
  <1>e. \A e \in evidence : e.card \in Reads /\ run[e.card].step \in Past
    BY <1>0 DEF CardsTypeOK, LabelsInv
  <1>1. ASSUME UNCHANGED <<sections, evidence>>, \A e \in evidence : run'[e.card].given = run[e.card].given
        PROVE  EvidenceCitesWhatWasRead'
    BY <1>1 DEF EvidenceCitesWhatWasRead
  <1>2. ASSUME NEW r \in Reads, ReadsOn(r) \/ TakesSections(r) \/ MakesCard(r)
        PROVE  EvidenceCitesWhatWasRead'
    <2>1. UNCHANGED <<sections, evidence>> /\ Moves(r)
      BY <1>2 DEF ReadsOn, TakesSections, MakesCard
    <2>2. run'[r].given = run[r].given \/ run[r].step \notin Past
      BY <1>2 DEF ReadsOn, TakesSections, MakesCard, Past
    <2>3. \A e \in evidence : run'[e.card].given = run[e.card].given
      BY <1>e, <1>r, <2>1, <2>2 DEF Moves
    <2>4. QED
      BY <1>1, <2>1, <2>3
  <1>3. ASSUME NEW r \in Reads, NEW e, IsRefused(r, e)
        PROVE  EvidenceCitesWhatWasRead'
    <2>1. \A f \in evidence : run'[f.card].given = run[f.card].given
      BY <1>e, <1>r, <1>3 DEF Moves, IsRefused
    <2>2. QED
      BY <1>1, <1>3, <2>1 DEF IsRefused
  <1>4. ASSUME NEW r \in Reads, NEW label \in Orders \cup {Null}, AddsEvidence(r, EvidenceRow(r, label))
        PROVE  EvidenceCitesWhatWasRead'
    <2> DEFINE new == EvidenceRow(r, label)
               cited == {s \in run[r].given : s.order = label}
    <2>1. /\ UNCHANGED sections /\ evidence' = evidence \cup {new}
          /\ \A v \in Reads : run'[v].given = run[v].given
      BY <1>4, <1>r DEF AddsEvidence, Moves
    <2>2. new.card = r /\ new.label = label
          /\ new.section = IF cited = {} THEN Null ELSE CHOOSE s \in cited : TRUE
      BY DEF EvidenceRow, SectionIDByLabel
    <2>3. IF new.section = Null THEN cited \cap sections = {} ELSE cited = {new.section}
      <3>1. CASE cited = {}
        BY <2>2, <3>1
      <3>2. CASE cited # {}
        <4>1. PICK s \in cited : new.section = s
          <5>1. new.section = CHOOSE s \in cited : TRUE
            BY <2>2, <3>2
          <5>2. (CHOOSE s \in cited : TRUE) \in cited
            BY <3>2, Zenon
          <5>3. QED
            BY <5>1, <5>2
        <4>2. \A t \in cited : t = s
          BY <4>1 DEF LabelsInv
        <4>3. s \in SectionRows
          BY <1>0, <4>1 DEF RunsOK, ReadOK, ReadRuns
        <4>4. s # Null
          BY <4>3, NullAssumption DEF SectionRows, Orders
        <4>5. QED
          BY <4>1, <4>2, <4>4
      <3>3. QED
        BY <3>1, <3>2
    <2> HIDE DEF new
    <2>4. ASSUME NEW f \in evidence
          PROVE  LET now == {s \in run'[f.card].given : s.order = f.label}
                 IN IF f.section = Null THEN now \cap sections = {} ELSE now = {f.section}
      <3>1. run'[f.card].given = run[f.card].given
        BY <1>e, <2>1
      <3>2. QED
        BY <3>1 DEF EvidenceCitesWhatWasRead
    <2>5. {s \in run'[new.card].given : s.order = new.label} = cited
      BY <2>1, <2>2
    <2>6. QED
      BY <2>1, <2>3, <2>4, <2>5 DEF EvidenceCitesWhatWasRead
  <1>5. ASSUME NEW r \in Reads, ClearsCards(r)
        PROVE  EvidenceCitesWhatWasRead'
    BY <1>5 DEF ClearsCards, EvidenceCitesWhatWasRead
  <1>6. ASSUME NEW w \in Parses, ParsesOn(w)
        PROVE  EvidenceCitesWhatWasRead'
    <2>1. \A e \in evidence : run'[e.card].given = run[e.card].given
      BY <1>e, <1>r, <1>p, <1>6 DEF Moves, ParsesOn
    <2>2. QED
      BY <1>1, <1>6, <2>1 DEF ParsesOn
  <1>7. ASSUME NEW w \in Parses, ClearsSections(w)
        PROVE  EvidenceCitesWhatWasRead'
    <2>1. sections' = {} /\ evidence' = {[e EXCEPT !.section = Null] : e \in evidence}
      BY <1>7 DEF ClearsSections
    <2>2. \A e \in evidence' : e.section = Null
      BY <1>0, <2>1 DEF CardsTypeOK
    <2>3. QED
      BY <2>1, <2>2 DEF EvidenceCitesWhatWasRead
  <1>8. ASSUME NEW w \in Parses, AddsSection(w)
        PROVE  EvidenceCitesWhatWasRead'
    <2> DEFINE new == SectionRow(w, run[w].next)
    <2>1. sections' = sections \cup {new} /\ evidence' = evidence /\ Moves(w)
      BY <1>8 DEF AddsSection
    <2>2. \A r \in Reads : run'[r] = run[r]
      BY <1>r, <1>p, <2>1 DEF Moves
    <2>3. run[w].next \in Nat
      BY <1>8 DEF AddsSection, Orders
    <2>4. new.by = w /\ new.order = run[w].next
      BY DEF SectionRow
    <2> HIDE DEF new
    <2>5. \A r \in Reads : new \notin run[r].given
      BY <2>3, <2>4 DEF LabelsInv
    <2>6. QED
      BY <1>e, <2>1, <2>2, <2>5 DEF EvidenceCitesWhatWasRead
  <1>9. CASE DeletePaper
    BY <1>9 DEF DeletePaper, EvidenceCitesWhatWasRead
  <1>10. CASE UNCHANGED vars
    BY <1>10 DEF vars, EvidenceCitesWhatWasRead
  <1>11. QED
    BY <1>0, <1>2, <1>3, <1>4, <1>5, <1>6, <1>7, <1>8, <1>9, <1>10, Effects

\* No entry of evidence ever points at a section that took over the label of the one
\* the model was given, for any number of reads and parses that overlap.
THEOREM EvidenceCitesWhatWasReadHolds == Spec => []EvidenceCitesWhatWasRead
  <1>1. Init => EvidenceCitesWhatWasRead
    BY DEF Init, EvidenceCitesWhatWasRead
  <1>2. TypeInv /\ [Next]_vars => TypeInv'
    BY TypeInvStep
  <1>3. TypeInv /\ LabelsInv /\ [Next]_vars => LabelsInv'
    BY LabelsInvStep
  <1>4. TypeInv /\ LabelsInv /\ EvidenceCitesWhatWasRead /\ [Next]_vars => EvidenceCitesWhatWasRead'
    BY CitesStep
  <1>5. QED
    BY <1>1, <1>2, <1>3, <1>4, TypeInvInit, LabelsInvInit, PTL DEF Spec

-----------------------------------------------------------------------------
(* Whole cards.                                                            *)

Claims(c) == {e.claim : e \in {f \in evidence : f.card = c}}

\* A card is being written, whole, or was cut off by a parse; and when there is none
\* although a read has got past making one, another read is about to make one.
WholeInv ==
  faults = 0 =>
    /\ \A c \in CardIds :
         IF run[c].step = "createEvidence" THEN Claims(c) = 1..(run[c].next - 1)
                                           ELSE Whole(c) \/ Outdated(c)
    /\ PaperExists /\ cards = <<>>
         /\ (job = "completed" \/ \E r \in Reads : run[r].step \in {"createEvidence", "markCompleted"})
         => \E r \in Reads : run[r].step = "createCard"

\* A section that was replaced never comes back.
LEMMA OutdatedStays ==
  ASSUME TypeInv, LabelsInv, [Next]_vars, ~DeletePaper, NEW c \in Reads, Outdated(c), run[c].step \in Past
  PROVE  Outdated(c)' /\ run'[c].given = run[c].given
  <1>0. CardsTypeOK /\ RunsOK
    BY DEF TypeInv
  <1>r. \A w \in Reads : w \in Runs /\ w \notin Parses
    BY RunsAssumption DEF Runs
  <1>1. CASE \E r \in Reads :
              \/ ReadsOn(r) \/ TakesSections(r) \/ ClearsCards(r) \/ MakesCard(r)
              \/ \E label \in Orders \cup {Null} :
                   AddsEvidence(r, EvidenceRow(r, label)) \/ IsRefused(r, EvidenceRow(r, label))
    <2>1. PICK r \in Reads :
              \/ ReadsOn(r) \/ TakesSections(r) \/ ClearsCards(r) \/ MakesCard(r)
              \/ \E label \in Orders \cup {Null} :
                   AddsEvidence(r, EvidenceRow(r, label)) \/ IsRefused(r, EvidenceRow(r, label))
      BY <1>1
    <2>2. Moves(r) /\ sections' = sections
      BY <2>1 DEF ReadsOn, TakesSections, ClearsCards, MakesCard, AddsEvidence, IsRefused
    <2>3. run'[r].given = run[r].given \/ run[r].step \notin Past
      BY <2>1 DEF ReadsOn, TakesSections, ClearsCards, MakesCard, AddsEvidence, IsRefused, Past
    <2>4. run'[c].given = run[c].given
      BY <1>r, <2>2, <2>3 DEF Moves
    <2>5. QED
      BY <2>2, <2>4 DEF Outdated
  <1>2. ASSUME NEW w \in Parses, ParsesOn(w) \/ ClearsSections(w)
        PROVE  Outdated(c)' /\ run'[c].given = run[c].given
    BY <1>2, <1>r DEF ParsesOn, ClearsSections, Moves, Outdated
  <1>3. ASSUME NEW w \in Parses, AddsSection(w)
        PROVE  Outdated(c)' /\ run'[c].given = run[c].given
    <2> DEFINE new == SectionRow(w, run[w].next)
    <2>1. sections' = sections \cup {new} /\ run'[c] = run[c]
      BY <1>3, <1>r DEF AddsSection, Moves
    <2>2. new.by = w /\ new.order = run[w].next /\ run[w].next \in Nat
      BY <1>3 DEF SectionRow, AddsSection, Orders
    <2> HIDE DEF new
    <2>3. new \notin run[c].given
      BY <2>2 DEF LabelsInv
    <2>4. QED
      BY <2>1, <2>3 DEF Outdated
  <1>4. CASE UNCHANGED vars
    BY <1>4 DEF vars, Outdated
  <1>5. QED
    BY <1>0, <1>1, <1>2, <1>3, <1>4, Effects

LEMMA WholeInvStep ==
  ASSUME TypeInv, LabelsInv, WholeInv, [Next]_vars
  PROVE  WholeInv'
  <1>0. CardsTypeOK /\ RunsOK /\ cards \in Seq(Reads) /\ CardIds \subseteq Reads /\ faults \in Nat
    BY DEF TypeInv, CardsTypeOK
  <1>r. \A w \in Reads : w \in Runs /\ w \notin Parses
    BY RunsAssumption DEF Runs
  <1>p. \A w \in Parses : w \in Runs /\ w \notin Reads
    BY RunsAssumption DEF Runs
  <1>n. \A r \in Reads : run[r].next \in 1..(NumEvidence + 1) /\ ReadOK(r)
    BY <1>0 DEF RunsOK, ReadOK, ReadRuns
  <1>c. \A c \in CardIds : run[c].step \in Past
    BY DEF LabelsInv
  <1>o. ASSUME ~DeletePaper, NEW c \in CardIds, Outdated(c)
        PROVE  Outdated(c)'
    BY <1>0, <1>c, <1>o, OutdatedStays
  <1>w. \A c : Whole(c) <=> Claims(c) = 1..NumEvidence
    BY DEF Whole, Claims
  <1>v. \A c : Whole(c)' <=> Claims(c)' = 1..NumEvidence
    BY DEF Whole, Claims
  <1>d. DeletePaper => job' = "none" /\ CardIds' = {}
    BY NoCards DEF DeletePaper, CardIds
  <1>1. ASSUME NEW r \in Reads, ReadsOn(r), faults' = 0
        PROVE  WholeInv'
    <2>1. /\ faults = 0 /\ UNCHANGED <<sections, cards, evidence>> /\ CardIds' = CardIds
          /\ \A c \in Reads : c # r => run'[c] = run[c]
          /\ run[r].step # "createEvidence" /\ (run[r].step = "createCard" => ~PaperExists)
      BY <1>0, <1>1, <1>r DEF ReadsOn, CardIds, Moves
    <2>2. \A c : Claims(c)' = Claims(c)
      BY <2>1 DEF Claims
    <2>3. ~DeletePaper \/ CardIds = {}
      BY <1>d, <2>1
    <2>4. \A c \in CardIds :
            IF run'[c].step = "createEvidence" THEN Claims(c)' = 1..(run'[c].next - 1)
                                               ELSE Whole(c)' \/ Outdated(c)'
      <3>1. TAKE c \in CardIds
      <3>2. CASE c = r
        BY <1>0, <1>1, <1>o, <1>w, <1>v, <2>1, <2>2, <2>3, <3>2 DEF WholeInv, ReadsOn
      <3>3. CASE c # r
        BY <1>0, <1>o, <1>w, <1>v, <2>1, <2>2, <2>3, <3>3 DEF WholeInv
      <3>4. QED
        BY <3>2, <3>3
    <2>5. ASSUME PaperExists', cards' = <<>>,
                 job' = "completed" \/ \E q \in Reads : run'[q].step \in {"createEvidence", "markCompleted"}
          PROVE  \E q \in Reads : run'[q].step = "createCard"
      <3>1. PaperExists /\ (run[r].step # "createCard")
        BY <1>1, <2>1, <2>5 DEF ReadsOn, PaperExists
      <3>2. job = "completed" \/ \E q \in Reads : run[q].step \in {"createEvidence", "markCompleted"}
        BY <1>1, <2>1, <2>5 DEF ReadsOn
      <3>3. PICK q \in Reads : run[q].step = "createCard"
        BY <2>1, <2>5, <3>1, <3>2 DEF WholeInv
      <3>4. q # r /\ run'[q] = run[q]
        BY <2>1, <3>1, <3>3
      <3>5. QED
        BY <3>3, <3>4
    <2>6. QED
      BY <2>1, <2>4, <2>5 DEF WholeInv
  <1>2. ASSUME NEW r \in Reads, TakesSections(r), faults' = 0
        PROVE  WholeInv'
    <2>1. /\ faults = 0 /\ UNCHANGED <<job, sections, cards, evidence>> /\ CardIds' = CardIds
          /\ \A c \in Reads : c # r => run'[c] = run[c]
          /\ run[r].step = "getReadContext" /\ run'[r].step = "callModel"
      BY <1>2, <1>r DEF TakesSections, CardIds, Moves
    <2>2. r \notin CardIds
      BY <1>c, <2>1 DEF Past
    <2>3. \A c : Claims(c)' = Claims(c)
      BY <2>1 DEF Claims
    <2>4. ~DeletePaper \/ CardIds = {}
      BY <1>d, <2>1
    <2>5. \A c \in CardIds :
            IF run'[c].step = "createEvidence" THEN Claims(c)' = 1..(run'[c].next - 1)
                                               ELSE Whole(c)' \/ Outdated(c)'
      BY <1>0, <1>o, <1>w, <1>v, <2>1, <2>2, <2>3, <2>4 DEF WholeInv
    <2>6. QED
      BY <2>1, <2>5 DEF WholeInv, PaperExists
  <1>3. ASSUME NEW r \in Reads, ClearsCards(r)
        PROVE  WholeInv'
    <2>1. CardIds' = {} /\ run'[r].step = "createCard"
      BY <1>3, NoCards DEF ClearsCards, CardIds
    <2>2. QED
      BY <2>1 DEF WholeInv
  <1>4. ASSUME NEW r \in Reads, MakesCard(r), faults' = 0
        PROVE  WholeInv'
    <2>1. /\ faults = 0 /\ UNCHANGED <<job, sections, evidence>> /\ run[r].step = "createCard"
          /\ \A c \in Reads : c # r => run'[c] = run[c]
          /\ run'[r].step = AfterRow(0, NumEvidence) /\ run'[r].next = 1
      BY <1>4, <1>r DEF MakesCard, Moves
    <2>2. CardIds' = CardIds \cup {r} /\ cards' # <<>>
      BY <1>0, <1>4, MoreCards DEF MakesCard
    <2>3. r \notin CardIds
      BY <1>c, <2>1 DEF Past
    <2>4. \A c : Claims(c)' = Claims(c)
      BY <2>1 DEF Claims
    <2>5. Claims(r) = {}
      BY <1>0, <2>3 DEF Claims, CardsTypeOK
    <2>6. ~DeletePaper
      BY <1>d, <2>2
    <2>7. \A c \in CardIds :
            IF run'[c].step = "createEvidence" THEN Claims(c)' = 1..(run'[c].next - 1)
                                               ELSE Whole(c)' \/ Outdated(c)'
      BY <1>0, <1>o, <1>w, <1>v, <2>1, <2>3, <2>4, <2>6 DEF WholeInv
    <2>8. IF run'[r].step = "createEvidence" THEN Claims(r)' = 1..(run'[r].next - 1)
                                             ELSE Whole(r)' \/ Outdated(r)'
      <3>1. Claims(r)' = 1..0
        BY <2>4, <2>5
      <3>2. CASE 0 < NumEvidence
        BY <2>1, <3>1, <3>2 DEF AfterRow
      <3>3. CASE ~(0 < NumEvidence)
        <4>1. NumEvidence = 0
          BY <3>3, SizesAssumption
        <4>2. Whole(r)' /\ run'[r].step # "createEvidence"
          BY <1>v, <2>1, <3>1, <3>3, <4>1 DEF AfterRow
        <4>3. QED
          BY <4>2
      <3>4. QED
        BY <3>2, <3>3
    <2>9. QED
      BY <2>2, <2>7, <2>8 DEF WholeInv
  <1>5. ASSUME NEW r \in Reads, NEW label \in Orders \cup {Null}, AddsEvidence(r, EvidenceRow(r, label)),
               faults' = 0
        PROVE  WholeInv'
    <2> DEFINE e == EvidenceRow(r, label)
    <2>1. /\ faults = 0 /\ UNCHANGED <<job, sections, cards>> /\ CardIds' = CardIds
          /\ run[r].step = "createEvidence" /\ r \in CardIds
          /\ \A c \in Reads : c # r => run'[c] = run[c]
          /\ run'[r].step = AfterRow(run[r].next, NumEvidence) /\ run'[r].next = run[r].next + 1
          /\ evidence' = evidence \cup {e}
      BY <1>5, <1>r DEF AddsEvidence, Accepted, Moves, CardIds
    <2>2. e.card = r /\ e.claim = run[r].next
      BY DEF EvidenceRow
    <2>3. ~DeletePaper /\ cards # <<>>
      BY <1>d, <2>1, NoCards
    <2> HIDE DEF e
    <2>4. \A c : Claims(c)' = IF c = r THEN Claims(c) \cup {run[r].next} ELSE Claims(c)
      BY <2>1, <2>2 DEF Claims
    <2>5. run[r].next \in 1..NumEvidence /\ Claims(r) = 1..(run[r].next - 1)
      BY <1>n, <2>1, SizesAssumption DEF WholeInv, ReadOK
    <2>6. Claims(r)' = 1..run[r].next
      <3>1. \A n \in Nat \ {0} : (1..(n - 1)) \cup {n} = 1..n
        OBVIOUS
      <3>2. run[r].next \in Nat \ {0}
        BY <2>5
      <3>3. Claims(r)' = (1..(run[r].next - 1)) \cup {run[r].next}
        BY <2>4, <2>5
      <3>4. QED
        BY <3>1, <3>2, <3>3
    <2>7. IF run'[r].step = "createEvidence" THEN Claims(r)' = 1..(run'[r].next - 1)
                                             ELSE Whole(r)' \/ Outdated(r)'
      BY <1>v, <2>1, <2>5, <2>6, SizesAssumption DEF AfterRow
    <2>8. \A c \in CardIds : c # r =>
            IF run'[c].step = "createEvidence" THEN Claims(c)' = 1..(run'[c].next - 1)
                                               ELSE Whole(c)' \/ Outdated(c)'
      BY <1>0, <1>o, <1>w, <1>v, <2>1, <2>3, <2>4 DEF WholeInv
    <2>9. QED
      BY <2>1, <2>3, <2>7, <2>8 DEF WholeInv
  <1>6. ASSUME NEW r \in Reads, NEW label \in Orders \cup {Null}, IsRefused(r, EvidenceRow(r, label)),
               faults' = 0
        PROVE  WholeInv'
    <2> DEFINE e == EvidenceRow(r, label)
    <2>1. /\ faults = 0 /\ UNCHANGED <<job, sections, cards, evidence>> /\ CardIds' = CardIds
          /\ run[r].step = "createEvidence" /\ run'[r].step = "markFailed"
          /\ \A c \in Reads : c # r => run'[c] = run[c]
          /\ run'[r].given = run[r].given /\ ~Accepted(r, e)
      BY <1>6, <1>r DEF IsRefused, Moves, CardIds
    <2>2. \A c : Claims(c)' = Claims(c)
      BY <2>1 DEF Claims
    <2>3. r \in CardIds => Outdated(r)'
      <3>1. e.section = Null \/ e.section \in run[r].given
        <4> DEFINE cited == {s \in run[r].given : s.order = label}
        <4>1. e.section = IF cited = {} THEN Null ELSE CHOOSE s \in cited : TRUE
          BY DEF EvidenceRow, SectionIDByLabel
        <4>2. cited # {} => (CHOOSE s \in cited : TRUE) \in cited
          BY Zenon
        <4>3. QED
          BY <4>1, <4>2
      <3>2. QED
        BY <2>1, <3>1 DEF Accepted, Outdated
    <2>4. ~DeletePaper \/ CardIds = {}
      BY <1>d, <2>1
    <2>5. \A c \in CardIds :
            IF run'[c].step = "createEvidence" THEN Claims(c)' = 1..(run'[c].next - 1)
                                               ELSE Whole(c)' \/ Outdated(c)'
      BY <1>0, <1>o, <1>w, <1>v, <2>1, <2>2, <2>3, <2>4 DEF WholeInv
    <2>6. QED
      BY <2>1, <2>5 DEF WholeInv, PaperExists
  <1>7. ASSUME NEW w \in Parses, ParsesOn(w) \/ ClearsSections(w) \/ AddsSection(w), faults' = 0
        PROVE  WholeInv'
    <2>1. /\ faults = 0 /\ cards' = cards /\ CardIds' = CardIds /\ \A c \in Reads : run'[c] = run[c]
          /\ job' = job \/ (PaperExists /\ job' # "completed")
      BY <1>0, <1>7, <1>r, <1>p DEF ParsesOn, ClearsSections, AddsSection, CardIds, Moves, PaperExists
    <2>2. \A c : Claims(c)' = Claims(c)
      <3>1. CASE evidence' = evidence
        BY <3>1 DEF Claims
      <3>2. CASE evidence' = {[e EXCEPT !.section = Null] : e \in evidence}
        <4>1. \A e \in evidence : [e EXCEPT !.section = Null].card = e.card
                                 /\ [e EXCEPT !.section = Null].claim = e.claim
          BY <1>0 DEF CardsTypeOK
        <4>2. QED
          <5>1. TAKE c
          <5>2. Claims(c)' = {e.claim : e \in {f \in evidence' : f.card = c}}
            BY DEF Claims
          <5>3. ASSUME NEW n \in Claims(c) PROVE n \in Claims(c)'
            <6>1. PICK e \in evidence : e.card = c /\ e.claim = n
              BY <5>3 DEF Claims
            <6>2. [e EXCEPT !.section = Null] \in {f \in evidence' : f.card = c}
              BY <3>2, <4>1, <6>1
            <6>3. QED
              BY <4>1, <5>2, <6>1, <6>2
          <5>4. ASSUME NEW n \in Claims(c)' PROVE n \in Claims(c)
            <6>1. PICK f \in evidence' : f.card = c /\ f.claim = n
              BY <5>2, <5>4
            <6>2. PICK e \in evidence : f = [e EXCEPT !.section = Null]
              BY <3>2, <6>1
            <6>3. e.card = c /\ e.claim = n
              BY <4>1, <6>1, <6>2
            <6>4. QED
              BY <6>3 DEF Claims
          <5>5. QED
            BY <5>3, <5>4
      <3>3. QED
        BY <1>7, <3>1, <3>2 DEF ParsesOn, ClearsSections, AddsSection
    <2>3. ~DeletePaper \/ CardIds = {}
      BY <1>d, <2>1
    <2>4. \A c \in CardIds :
            IF run'[c].step = "createEvidence" THEN Claims(c)' = 1..(run'[c].next - 1)
                                               ELSE Whole(c)' \/ Outdated(c)'
      BY <1>0, <1>o, <1>w, <1>v, <2>1, <2>2, <2>3 DEF WholeInv
    <2>5. QED
      BY <2>1, <2>4 DEF WholeInv, PaperExists
  <1>8. CASE DeletePaper
    BY <1>d, <1>8 DEF WholeInv, PaperExists
  <1>9. CASE UNCHANGED vars
    BY <1>9 DEF vars, WholeInv, PaperExists, CardIds, Claims, Whole, Outdated
  <1>10. CASE faults' # 0
    BY <1>10 DEF WholeInv
  <1>11. QED
    BY <1>0, <1>1, <1>2, <1>3, <1>4, <1>5, <1>6, <1>7, <1>8, <1>9, <1>10, Effects

\* While no call fails, a completed job has a card, and the latest is whole or was cut
\* off by a parse, for any number of reads and parses that overlap.
THEOREM CompletedHasWholeCardHolds == Spec => []CompletedHasWholeCard
  <1>1. TypeInv /\ LabelsInv /\ WholeInv => CompletedHasWholeCard
    <2> SUFFICES ASSUME TypeInv, WholeInv, faults = 0, job = "completed", ~Saving
                 PROVE  cards # <<>> /\ (Whole(cards[Len(cards)]) \/ Outdated(cards[Len(cards)]))
      BY DEF CompletedHasWholeCard
    <2>1. cards # <<>>
      BY DEF WholeInv, PaperExists, Saving
    <2>2. cards[Len(cards)] \in CardIds
      <3>1. Len(cards) \in 1..Len(cards)
        BY <2>1 DEF TypeInv
      <3>2. QED
        BY <3>1 DEF CardIds
    <2>3. cards[Len(cards)] \in Reads
      BY <2>2 DEF TypeInv, CardsTypeOK
    <2>4. QED
      BY <2>1, <2>2, <2>3 DEF WholeInv, Saving
  <1>2. Init => WholeInv
    <2> SUFFICES ASSUME Init PROVE WholeInv
      OBVIOUS
    <2>1. CardIds = {} /\ job = "parsed" /\ \A r \in Reads : run[r].step = "waiting"
      BY NoCards DEF Init, Runs
    <2>2. QED
      BY <2>1 DEF WholeInv
  <1>3. TypeInv /\ [Next]_vars => TypeInv'
    BY TypeInvStep
  <1>4. TypeInv /\ LabelsInv /\ [Next]_vars => LabelsInv'
    BY LabelsInvStep
  <1>5. TypeInv /\ LabelsInv /\ WholeInv /\ [Next]_vars => WholeInv'
    BY WholeInvStep
  <1>6. QED
    BY <1>1, <1>2, <1>3, <1>4, <1>5, TypeInvInit, LabelsInvInit, PTL DEF Spec
=============================================================================
