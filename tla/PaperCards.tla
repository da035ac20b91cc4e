----------------------------- MODULE PaperCards -----------------------------
(***************************************************************************)
(* The rows of one paper's cards: what runs of paper:read store            *)
(* (internal/jobs/read_pipeline.go, SavePaperCard of its repository and    *)
(* ReadPaper of internal/reader) while runs of paper:process give the      *)
(* paper new sections and the paper may be deleted.  A run is one attempt  *)
(* at a task; TaskQueue and PaperService say when there is another.  A row *)
(* of paper_sections is known by the run that inserted it and its order,   *)
(* which is also the label the model cites it by.                          *)
(***************************************************************************)
EXTENDS Integers, Sequences, FiniteSets

CONSTANTS Reads, Parses,    \* the runs of the two handlers
          FirstParse,       \* the run that parsed the paper before them
          NumSections,      \* sections a parse yields
          NumEvidence,      \* evidence entries of a card
          Null,             \* a NULL section, and a label of no section
          Concurrency,      \* asynq.Config.Concurrency of the worker
          MaxFaults         \* bound: statements that fail, runs that are lost

ASSUME RunsAssumption == Reads \cap Parses = {} /\ FirstParse \notin Reads \cup Parses
ASSUME SizesAssumption == NumSections \in Nat \ {0} /\ NumEvidence \in Nat
ASSUME NullAssumption ==
  Null \notin Nat \cup [by : Parses \cup {FirstParse}, order : 1..NumSections]
ASSUME LimitsAssumption == Concurrency \in Nat /\ MaxFaults \in Nat

VARIABLES job,        \* paper_processing_jobs.status; "none" when the paper is deleted
          sections,   \* paper_sections
          cards,      \* paper_cards in the order of created_at, by the run that made them
          evidence,   \* paper_evidence
          run,        \* the step of each run, and what it holds
          faults

vars == <<job, sections, cards, evidence, run, faults>>

Runs == Reads \cup Parses
Orders == 1..NumSections
SectionRow(w, i) == [by |-> w, order |-> i]
CardIds == {cards[k] : k \in 1..Len(cards)}
PaperExists == job # "none"

At(w, step) == run[w].step = step
Running(w) == run[w].step \notin {"waiting", "over"}

\* The paper has been parsed, and its first read has been enqueued.
Init ==
  /\ job = "parsed"
  /\ sections = {SectionRow(FirstParse, i) : i \in Orders}
  /\ cards = <<>> /\ evidence = {}
  /\ run = [w \in Runs |->
              IF w \in Reads
              THEN [step |-> "waiting", calls |-> 0, given |-> {}, next |-> 1]
              ELSE [step |-> "waiting", next |-> 1]]
  /\ faults = 0

Quiet == UNCHANGED faults
Goto(w, step) == run' = [run EXCEPT ![w].step = step] /\ Quiet

\* A statement that sets the job's status is an error when the row is gone.
SetStatus(w, status, next) ==
  /\ \/ PaperExists /\ job' = status /\ Goto(w, next)
     \/ ~PaperExists /\ UNCHANGED job /\ Goto(w, "over")
  /\ UNCHANGED <<sections, cards, evidence>>

Start(w, status, next) ==
  /\ At(w, "waiting")
  /\ Cardinality({v \in Runs : Running(v)}) < Concurrency
  /\ SetStatus(w, status, next)
-----------------------------------------------------------------------------
(* ReadPaper.                                                              *)

\* The paper may be deleted after it has been found and before its sections are listed.
GetReadContext(r) ==
  /\ At(r, "getReadContext")
  /\ \/ run' = [run EXCEPT ![r].step = "callModel", ![r].given = sections]
     \/ ~PaperExists /\ run' = [run EXCEPT ![r].step = "markFailed"]
  /\ UNCHANGED <<job, sections, cards, evidence>> /\ Quiet

\* What parseCard tells of an answer: whether it is a JSON object, has a "limitations"
\* key, has the types of a card, and has core content.
Answers == [object : BOOLEAN, limitations : BOOLEAN, typed : BOOLEAN, core : BOOLEAN]

ValidateRawKeys(a) == ~a.limitations
Validate(a) == a.core
Disallowed(a) == a.object /\ ~ValidateRawKeys(a)
IsCard(a) == a.object /\ ValidateRawKeys(a) /\ a.typed /\ Validate(a)

\* A loop that starts counting again.
CallWithoutEnd(r) ==
  /\ At(r, "callModel")
  /\ \E a \in Answers :
       \/ IsCard(a) /\ Goto(r, "deleteCards")
       \/ Disallowed(a) /\ Goto(r, "markFailed")
       \/ ~IsCard(a) /\ ~Disallowed(a) /\ Quiet
          /\ run' = [run EXCEPT ![r].calls = 1 - @]
  /\ UNCHANGED <<job, sections, cards, evidence>>

\* An answer that is no card is asked for once more, one with a disallowed key is not.
CallModel(r) ==
  /\ At(r, "callModel")
  /\ \E a \in Answers :
       \/ IsCard(a) /\ Goto(r, "deleteCards")
       \/ Disallowed(a) /\ Goto(r, "markFailed")
       \/ /\ ~IsCard(a) /\ ~Disallowed(a)
          /\ run' = [run EXCEPT ![r].calls = @ + 1,
                                ![r].step = IF run[r].calls = 0 THEN @ ELSE "markFailed"]
          /\ Quiet
  /\ UNCHANGED <<job, sections, cards, evidence>>

\* The HTTP call fails, is refused, or its answer has no text.
CallFails(r) ==
  /\ At(r, "callModel")
  /\ Goto(r, "markFailed")
  /\ UNCHANGED <<job, sections, cards, evidence>>

\* A delete that leaves the evidence.
DeleteCardsOnly(r) ==
  /\ At(r, "deleteCards")
  /\ cards' = <<>> /\ Goto(r, "createCard")
  /\ UNCHANGED <<job, sections, evidence>>

\* A card's evidence goes with it (ON DELETE CASCADE).
DeleteCards(r) ==
  /\ At(r, "deleteCards")
  /\ cards' = <<>> /\ evidence' = {}
  /\ Goto(r, "createCard")
  /\ UNCHANGED <<job, sections>>

AfterRow(k, n) == IF k < n THEN "createEvidence" ELSE "markCompleted"

\* A card that is done before its evidence.
CreateCardOnly(r) ==
  /\ At(r, "createCard")
  /\ \/ PaperExists /\ cards' = Append(cards, r) /\ Goto(r, "markCompleted")
     \/ ~PaperExists /\ UNCHANGED cards /\ Goto(r, "markFailed")
  /\ UNCHANGED <<job, sections, evidence>>

CreateCard(r) ==
  /\ At(r, "createCard")
  /\ \/ PaperExists /\ cards' = Append(cards, r) /\ Goto(r, AfterRow(0, NumEvidence))
     \/ ~PaperExists /\ UNCHANGED cards /\ Goto(r, "markFailed")
  /\ UNCHANGED <<job, sections, evidence>>

\* A label looked up in the table as it is when the card is saved.
ResolveNow(r, label) == {s \in sections : s.order = label}

\* sectionIDByLabel, made from what GetReadContext returned.
SectionIDByLabel(r, label) == {s \in run[r].given : s.order = label}

\* The next entry of the card, which cites the section of this label.
EvidenceRow(r, label) ==
  LET found == SectionIDByLabel(r, label)
  IN [card |-> r, claim |-> run[r].next, label |-> label,
      section |-> IF found = {} THEN Null ELSE CHOOSE s \in found : TRUE]

\* The model may cite the label of any section, or of none (Null).  The foreign
\* keys refuse a card or a section that has been deleted meanwhile.
CreateEvidence(r) ==
  /\ At(r, "createEvidence")
  /\ \E label \in Orders \cup {Null} :
       LET e == EvidenceRow(r, label)
           accepted == r \in CardIds /\ e.section \in sections \cup {Null}
       IN \/ /\ accepted
             /\ evidence' = evidence \cup {e}
             /\ run' = [run EXCEPT ![r].step = AfterRow(run[r].next, NumEvidence),
                                   ![r].next = @ + 1]
          \/ ~accepted /\ UNCHANGED evidence /\ run' = [run EXCEPT ![r].step = "markFailed"]
  /\ UNCHANGED <<job, sections, cards>> /\ Quiet

\* Whether an attempt is the last is a free choice here.
MarkReadFailed(r) ==
  /\ At(r, "markFailed")
  /\ \E status \in {"reading", "failed"} : SetStatus(r, status, "over")

ReadStep(r) ==
  \/ Start(r, "reading", "getReadContext")
  \/ GetReadContext(r) \/ CallModel(r) \/ CallFails(r)
  \/ DeleteCards(r) \/ CreateCard(r) \/ CreateEvidence(r)
  \/ At(r, "markCompleted") /\ SetStatus(r, "completed", "over")
  \/ MarkReadFailed(r)
-----------------------------------------------------------------------------
(* ProcessPaper, as far as the sections go.                                *)

ParsePDF(w) ==
  /\ At(w, "parsePDF")
  /\ \/ PaperExists /\ Goto(w, "deleteSections")
     \/ Goto(w, "markFailed")
  /\ UNCHANGED <<job, sections, cards, evidence>>

\* Evidence that points at the rows loses its pointer (ON DELETE SET NULL).
DeleteSections(w) ==
  /\ At(w, "deleteSections")
  /\ sections' = {}
  /\ evidence' = {[e EXCEPT !.section = Null] : e \in evidence}
  /\ Goto(w, "createSections")
  /\ UNCHANGED <<job, cards>>

\* UNIQUE (paper_id, section_order), and the foreign key of the paper.
CreateSection(w) ==
  LET i == run[w].next
      accepted == PaperExists /\ \A s \in sections : s.order # i
  IN /\ At(w, "createSections")
     /\ \/ /\ accepted
           /\ sections' = sections \cup {SectionRow(w, i)}
           /\ run' = [run EXCEPT ![w].step = IF i < NumSections THEN @ ELSE "markParsed",
                                 ![w].next = i + 1]
        \/ ~accepted /\ UNCHANGED sections /\ run' = [run EXCEPT ![w].step = "markFailed"]
     /\ UNCHANGED <<job, cards, evidence>> /\ Quiet

ParseStep(w) ==
  \/ Start(w, "processing", "parsePDF")
  \/ ParsePDF(w) \/ DeleteSections(w) \/ CreateSection(w)
  \/ At(w, "markParsed") /\ SetStatus(w, "parsed", "over")
  \/ At(w, "markFailed") /\ SetStatus(w, "failed", "over")
-----------------------------------------------------------------------------
DeletePaper ==
  /\ PaperExists
  /\ job' = "none"
  /\ sections' = {} /\ cards' = <<>> /\ evidence' = {}
  /\ UNCHANGED <<run, faults>>

\* A statement fails, and the handler marks the job unless that is what failed;
\* or the run is cut off by a shutdown, a dead worker or its timeout.
Fail(w) ==
  /\ Running(w) /\ faults < MaxFaults
  /\ faults' = faults + 1
  /\ \E step \in {"over"} \cup
                 (IF run[w].step \in {"markFailed", "markParsed", "markCompleted"}
                  THEN {} ELSE {"markFailed"}) :
       run' = [run EXCEPT ![w].step = step]
  /\ UNCHANGED <<job, sections, cards, evidence>>

Step(w) == IF w \in Reads THEN ReadStep(w) ELSE ParseStep(w)

Next == (\E w \in Runs : Step(w) \/ Fail(w)) \/ DeletePaper

Spec == Init /\ [][Next]_vars

\* The Go runtime runs every goroutine, and every call of the handlers returns: the
\* model's within OPENAI_TIMEOUT_SECONDS.
FairSpec == Spec /\ \A w \in Runs : WF_vars(Step(w))
=============================================================================
