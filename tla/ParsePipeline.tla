--------------------------- MODULE ParsePipeline ---------------------------
(***************************************************************************)
(* The handler of paper:process: ProcessPaper and process of               *)
(* internal/jobs/pipeline.go with SaveParsedPaper of its repository, one   *)
(* step per statement that another task or request could come between.     *)
(*                                                                         *)
(* The PDF, the TEI and the figure crops touch nothing the tables of       *)
(* PaperTables hold: fetching and parsing the PDF and storing the TEI are  *)
(* the one step ParsePDF that may fail, and the best-effort figure         *)
(* extraction, which cannot fail the job, is left out here.                *)
(***************************************************************************)
EXTENDS PaperTables, TaskQueue

CONSTANT ReaderConfigured   \* OPENAI_BASE_URL and OPENAI_API_KEY are set

ASSUME ReaderAssumption == ReaderConfigured \in BOOLEAN

ParseSteps ==
  {"markProcessing", "markPaperProcessing", "parsePDF", "saveMetadata",
   "deleteSections", "createSections", "deleteReferences", "createReferences",
   "markParsed", "enqueueRead", "markFailed", "markPaperFailed"}

\* Where an error of a step sends ProcessPaper.
ParseError ==
  [s \in ParseSteps |->
     IF s \in {"parsePDF", "saveMetadata", "deleteSections", "createSections",
               "deleteReferences", "createReferences"}
     THEN "markFailed" ELSE "nack"]

Refused(t) == UNCHANGED tables /\ Goto(t, ParseError[task[t].pc])

MarkProcessing(t) ==
  /\ At(t, "markProcessing")
  /\ \/ UpdateJobStatus(task[t].paper, "processing") /\ Goto(t, "markPaperProcessing")
     \/ ~JobExists(task[t].paper) /\ Refused(t)

MarkPaperProcessing(t) ==
  /\ At(t, "markPaperProcessing")
  /\ UpdatePaperStatus(task[t].paper, "processing")
  /\ Goto(t, "parsePDF")

\* GetPaperPDFAsset, Get, ParsePDF, Put and CreateTEIAsset.
ParsePDF(t) ==
  /\ At(t, "parsePDF")
  /\ \/ PaperExists(task[t].paper) /\ UNCHANGED tables /\ Goto(t, "saveMetadata")
     \/ Refused(t)

SaveMetadata(t) ==
  /\ At(t, "saveMetadata")
  /\ \/ /\ PaperExists(task[t].paper)
        /\ UpdatePaperStatus(task[t].paper, "parsed")
        /\ Goto(t, "deleteSections")
     \/ ~PaperExists(task[t].paper) /\ Refused(t)

ReplaceSections(t) ==
  /\ At(t, "deleteSections")
  /\ DeleteSections(task[t].paper)
  /\ LoopFrom(t, 0, NumSections, "createSections", "deleteReferences")

InsertSection(t) ==
  LET p == task[t].paper
      i == task[t].next
  IN /\ At(t, "createSections")
     /\ \/ /\ CreateSection(p, i)
           /\ LoopFrom(t, i, NumSections, "createSections", "deleteReferences")
        \/ (~PaperExists(p) \/ i \in sections[p]) /\ Refused(t)

ReplaceReferences(t) ==
  /\ At(t, "deleteReferences")
  /\ DeleteReferences(task[t].paper)
  /\ LoopFrom(t, 0, NumReferences, "createReferences", "markParsed")

InsertReference(t) ==
  LET p == task[t].paper
      i == task[t].next
  IN /\ At(t, "createReferences")
     /\ \/ /\ CreateReference(p, i)
           /\ LoopFrom(t, i, NumReferences, "createReferences", "markParsed")
        \/ (~PaperExists(p) \/ i \in references[p]) /\ Refused(t)

\* A parse that never hands the job to the reader.
MarkParsedOnly(t) ==
  /\ At(t, "markParsed")
  /\ \/ UpdateJobStatus(task[t].paper, "parsed") /\ Goto(t, "ack")
     \/ ~JobExists(task[t].paper) /\ Refused(t)

MarkParsed(t) ==
  /\ At(t, "markParsed")
  /\ \/ /\ UpdateJobStatus(task[t].paper, "parsed")
        /\ Goto(t, IF ReaderConfigured THEN "enqueueRead" ELSE "ack")
     \/ ~JobExists(task[t].paper) /\ Refused(t)

\* A worker whose reader is configured hands the job to a paper:read task.
EnqueueRead(t) ==
  /\ At(t, "enqueueRead")
  /\ \E u \in TaskIds :
       Fresh(u) /\ task' = [task EXCEPT ![u] = NewTask("read", task[t].paper),
                                        ![t].pc = "ack"]
  /\ UNCHANGED tables

MarkFailed(t) ==
  /\ At(t, "markFailed")
  /\ \/ UpdateJobStatus(task[t].paper, "failed") /\ Goto(t, "markPaperFailed")
     \/ ~JobExists(task[t].paper) /\ Refused(t)

MarkPaperFailed(t) ==
  /\ At(t, "markPaperFailed")
  /\ UpdatePaperStatus(task[t].paper, "failed")
  /\ Goto(t, "nack")

ParseStep(t) ==
  \/ MarkProcessing(t) \/ MarkPaperProcessing(t) \/ ParsePDF(t)
  \/ SaveMetadata(t) \/ ReplaceSections(t) \/ InsertSection(t)
  \/ ReplaceReferences(t) \/ InsertReference(t)
  \/ MarkParsed(t) \/ EnqueueRead(t) \/ MarkFailed(t) \/ MarkPaperFailed(t)
=============================================================================
