--------------------------- MODULE CardProperties ---------------------------
(***************************************************************************)
(* What makes the rows of a paper's cards correct.                         *)
(***************************************************************************)
EXTENDS PaperCards

SectionRows == [by : Parses \cup {FirstParse}, order : Orders]

ReadRuns ==
  [step : {"waiting", "getReadContext", "callModel", "deleteCards", "createCard",
           "createEvidence", "markCompleted", "markFailed", "over"},
   calls : 0..2, given : SUBSET SectionRows, next : 1..(NumEvidence + 1)]

ParseRuns ==
  [step : {"waiting", "parsePDF", "deleteSections", "createSections", "markParsed",
           "markFailed", "over"},
   next : 1..(NumSections + 1)]

\* Every variable has its type, and no evidence row outlives its card or points at
\* a section that is gone.
CardsTypeOK ==
  /\ job \in {"none", "parsed", "processing", "reading", "completed", "failed"}
  /\ sections \subseteq SectionRows
  /\ CardIds \subseteq Reads
  /\ evidence \subseteq [card : CardIds, claim : 1..NumEvidence,
                       label : Orders \cup {Null}, section : sections \cup {Null}]
  /\ run \in [Runs -> ReadRuns \cup ParseRuns]
  /\ faults \in 0..MaxFaults

\* An evidence row points at the very section that the model was given under the
\* label it cites, or at none when it was given no such section or the section has
\* been replaced since: a parse that runs between GetReadContext and SavePaperCard
\* gives the labels to other rows, and no evidence ever moves over to those.
EvidenceCitesWhatWasRead ==
  \A e \in evidence :
    LET cited == {s \in run[e.card].given : s.order = e.label}
    IN IF e.section = Null THEN cited \cap sections = {} ELSE cited = {e.section}

Whole(c) == {e.claim : e \in {f \in evidence : f.card = c}} = 1..NumEvidence

\* SavePaperCard goes on only while all it was given is there.
Outdated(c) == \E s \in run[c].given : s \notin sections

Saving == \E r \in Reads : run[r].step \in {"createCard", "createEvidence"}

\* A job that says 'completed' has a card and, unless a parse has replaced the
\* sections since, the latest one (which GetPaperDetail shows) has all its evidence
\* rows: reads that overlap delete and insert each other's cards, and the one that
\* is cut off by that is never the one whose card stays.
CompletedHasWholeCard ==
  faults = 0 /\ job = "completed" /\ ~Saving =>
    /\ cards # <<>>
    /\ LET c == cards[Len(cards)] IN Whole(c) \/ Outdated(c)

\* Every run ends: the answers of the model are asked for a second time at most.
EveryRunEnds == \A w \in Runs : Running(w) ~> ~Running(w)
=============================================================================
