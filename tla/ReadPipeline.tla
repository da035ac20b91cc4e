---------------------------- MODULE ReadPipeline ----------------------------
(***************************************************************************)
(* The handler of paper:read: HandleReadPaper of                           *)
(* internal/jobs/read_processor.go, ReadPaper and read of read_pipeline.go *)
(* and SavePaperCard of their repository.                                  *)
(***************************************************************************)
EXTENDS PaperTables, TaskQueue

ReadSteps ==
  {"markReading", "markPaperReading", "readPaper", "deleteCards", "createCard",
   "markCompleted", "markPaperCompleted", "markReadFailed", "markPaperReadFailed"}

\* Where an error of a step sends ReadPaper.
ReadError ==
  [s \in ReadSteps |->
     IF s \in {"readPaper", "deleteCards", "createCard"} THEN "markReadFailed" ELSE "nack"]

ReadRefused(t) == UNCHANGED tables /\ Goto(t, ReadError[task[t].pc])

\* An isFinalAttempt that counts the attempt and not the retries.
IsFinalAttemptEarly(t) == task[t].retried + 1 >= MaxRetry(task[t].kind)

\* An isFinalAttempt that asks for more retries than asynq makes.
IsFinalAttemptLate(t) == task[t].retried > MaxRetry(task[t].kind)

\* HandleReadPaper reads both counts from the task's context.
IsFinalAttempt(t) == task[t].retried >= MaxRetry(task[t].kind)

MarkReading(t) ==
  /\ At(t, "markReading")
  /\ \/ UpdateJobStatus(task[t].paper, "reading") /\ Goto(t, "markPaperReading")
     \/ ~JobExists(task[t].paper) /\ ReadRefused(t)

MarkPaperReading(t) ==
  /\ At(t, "markPaperReading")
  /\ UpdatePaperStatus(task[t].paper, "reading")
  /\ Goto(t, "readPaper")

\* A read that throws its card away.
CallReaderOnly(t) ==
  /\ At(t, "readPaper")
  /\ \/ PaperExists(task[t].paper) /\ UNCHANGED tables /\ Goto(t, "markCompleted")
     \/ ReadRefused(t)

\* GetReadContext and the call of the model: either may fail.
CallReader(t) ==
  /\ At(t, "readPaper")
  /\ \/ PaperExists(task[t].paper) /\ UNCHANGED tables /\ Goto(t, "deleteCards")
     \/ ReadRefused(t)

ReplaceCard(t) ==
  /\ At(t, "deleteCards")
  /\ DeleteCards(task[t].paper)
  /\ Goto(t, "createCard")

\* CreatePaperCard and the evidence rows.  An evidence row names the card and a
\* section by ids read earlier; whether they still exist is left to choice.
SaveCard(t) ==
  /\ At(t, "createCard")
  /\ \/ CreateCard(task[t].paper) /\ Goto(t, "markCompleted")
     \/ CreateCard(task[t].paper) /\ Goto(t, "markReadFailed")
     \/ ~PaperExists(task[t].paper) /\ ReadRefused(t)

MarkCompleted(t) ==
  /\ At(t, "markCompleted")
  /\ \/ UpdateJobStatus(task[t].paper, "completed") /\ Goto(t, "markPaperCompleted")
     \/ ~JobExists(task[t].paper) /\ ReadRefused(t)

MarkPaperCompleted(t) ==
  /\ At(t, "markPaperCompleted")
  /\ UpdatePaperStatus(task[t].paper, "completed")
  /\ Goto(t, "ack")

\* A failed attempt leaves the job 'reading' unless it was the last one.
MarkReadFailed(t) ==
  /\ At(t, "markReadFailed")
  /\ \/ /\ IsFinalAttempt(t)
        /\ UpdateJobStatus(task[t].paper, "failed")
        /\ Goto(t, "markPaperReadFailed")
     \/ /\ ~IsFinalAttempt(t)
        /\ UpdateJobStatus(task[t].paper, "reading")
        /\ Goto(t, "nack")
     \/ ~JobExists(task[t].paper) /\ ReadRefused(t)

\* A failure only the job's row is told of.
MarkNothingReadFailed(t) ==
  /\ At(t, "markPaperReadFailed")
  /\ UNCHANGED tables
  /\ Goto(t, "nack")

MarkPaperReadFailed(t) ==
  /\ At(t, "markPaperReadFailed")
  /\ UpdatePaperStatus(task[t].paper, "failed")
  /\ Goto(t, "nack")

ReadStep(t) ==
  \/ MarkReading(t) \/ MarkPaperReading(t) \/ CallReader(t)
  \/ ReplaceCard(t) \/ SaveCard(t)
  \/ MarkCompleted(t) \/ MarkPaperCompleted(t)
  \/ MarkReadFailed(t) \/ MarkPaperReadFailed(t)
=============================================================================
