---------------------------- MODULE PaperTables ----------------------------
(***************************************************************************)
(* The PostgreSQL tables the pipelines and the API share, with one         *)
(* operator per SQL statement of queries/papers.sql that changes them.     *)
(* No code of the repository opens a transaction: every statement commits  *)
(* on its own, so every operator below is the effect of one step.          *)
(*                                                                         *)
(* A paper has at most one job (only CreatePaperUpload inserts one), so    *)
(* the jobs table is a function of the paper.  The columns no code branches *)
(* on (titles, texts, task_id, attempt_count, error_message, timestamps)   *)
(* are left out.                                                           *)
(***************************************************************************)
EXTENDS Naturals, FiniteSets

CONSTANTS Papers,          \* the ids papers.id may take
          NumSections,     \* how many sections a parse of a paper yields
          NumReferences    \* how many references it yields

ASSUME PapersAssumption == IsFiniteSet(Papers)
ASSUME SectionsAssumption == NumSections \in Nat
ASSUME ReferencesAssumption == NumReferences \in Nat

VARIABLES paperStatus,     \* papers.status, or that there is no such row
          jobStatus,       \* paper_processing_jobs.status, or "none"
          sections,        \* the section_order values in paper_sections
          references,      \* the reference_order values in paper_references
          card             \* whether paper_cards has a row for the paper

tables == <<paperStatus, jobStatus, sections, references, card>>

StatusValues == {"queued", "processing", "parsed", "reading", "completed", "failed"}

\* An id no row has had yet is "absent"; a deleted one is never used again (uuid).
NoPaperRow == {"absent", "deleted"}

TablesTypeOK ==
  /\ paperStatus \in [Papers -> StatusValues \cup NoPaperRow]
  /\ jobStatus \in [Papers -> StatusValues \cup {"none"}]
  /\ sections \in [Papers -> SUBSET (1..NumSections)]
  /\ references \in [Papers -> SUBSET (1..NumReferences)]
  /\ card \in [Papers -> BOOLEAN]

TablesInit ==
  /\ paperStatus = [p \in Papers |-> "absent"]
  /\ jobStatus = [p \in Papers |-> "none"]
  /\ sections = [p \in Papers |-> {}]
  /\ references = [p \in Papers |-> {}]
  /\ card = [p \in Papers |-> FALSE]

PaperExists(p) == paperStatus[p] \notin NoPaperRow
JobExists(p) == jobStatus[p] # "none"
-----------------------------------------------------------------------------
(* The jobs table.                                                         *)

SetJob(p, s) ==
  /\ jobStatus' = [jobStatus EXCEPT ![p] = s]
  /\ UNCHANGED <<paperStatus, sections, references, card>>

\* CreateProcessingJob: the foreign key refuses a paper that is gone.
CreateProcessingJob(p) == PaperExists(p) /\ SetJob(p, "queued")

\* An update that writes the row anew when it is gone.
UpsertJobStatus(p, s) == SetJob(p, s)

\* UpdateProcessingJobStatus and SetJobStatusAndAttempt are :one queries, so a
\* row that is gone is an error (ErrNoRows) to their caller.
UpdateJobStatus(p, s) == JobExists(p) /\ SetJob(p, s)

\* A reset that forgets its "AND status = 'failed'".
ResetAnyJob(p) == JobExists(p) /\ SetJob(p, "queued")

\* ResetFailedJob: guarded; no matching row means zero rows, no error.
ResetFailedJob(p) == jobStatus[p] = "failed" /\ SetJob(p, "queued")

\* RequeueJob: unguarded, and its callers ignore the number of rows.
RequeueJob(p) == IF JobExists(p) THEN SetJob(p, "queued") ELSE UNCHANGED tables

\* DeleteFailedJobsOlderThan: a failed job may be of any age.
DeleteFailedJobs(old) ==
  /\ \A p \in old : jobStatus[p] = "failed"
  /\ jobStatus' = [p \in Papers |-> IF p \in old THEN "none" ELSE jobStatus[p]]
  /\ UNCHANGED <<paperStatus, sections, references, card>>
-----------------------------------------------------------------------------
(* The papers table.                                                       *)

CreatePaper(p) ==
  /\ paperStatus[p] = "absent"
  /\ paperStatus' = [paperStatus EXCEPT ![p] = "queued"]
  /\ UNCHANGED <<jobStatus, sections, references, card>>

\* UpdatePaperStatus is :exec: with no such row it succeeds and does nothing.
UpdatePaperStatus(p, s) ==
  /\ paperStatus' = IF PaperExists(p) THEN [paperStatus EXCEPT ![p] = s] ELSE paperStatus
  /\ UNCHANGED <<jobStatus, sections, references, card>>

\* DeletePaper: every child table has ON DELETE CASCADE.
DeletePaper(p) ==
  /\ PaperExists(p)
  /\ paperStatus' = [paperStatus EXCEPT ![p] = "deleted"]
  /\ jobStatus' = [jobStatus EXCEPT ![p] = "none"]
  /\ sections' = [sections EXCEPT ![p] = {}]
  /\ references' = [references EXCEPT ![p] = {}]
  /\ card' = [card EXCEPT ![p] = FALSE]
-----------------------------------------------------------------------------
(* The child tables.  An INSERT needs its paper (foreign key) and, for     *)
(* sections and references, an order no row has yet (UNIQUE).              *)

DeleteSections(p) ==
  /\ sections' = [sections EXCEPT ![p] = {}]
  /\ UNCHANGED <<paperStatus, jobStatus, references, card>>

CreateSection(p, i) ==
  /\ PaperExists(p) /\ i \notin sections[p]
  /\ sections' = [sections EXCEPT ![p] = @ \cup {i}]
  /\ UNCHANGED <<paperStatus, jobStatus, references, card>>

DeleteReferences(p) ==
  /\ references' = [references EXCEPT ![p] = {}]
  /\ UNCHANGED <<paperStatus, jobStatus, sections, card>>

CreateReference(p, i) ==
  /\ PaperExists(p) /\ i \notin references[p]
  /\ references' = [references EXCEPT ![p] = @ \cup {i}]
  /\ UNCHANGED <<paperStatus, jobStatus, sections, card>>

DeleteCards(p) ==
  /\ card' = [card EXCEPT ![p] = FALSE]
  /\ UNCHANGED <<paperStatus, jobStatus, sections, references>>

\* An insert that no foreign key guards.
CreateCardUnchecked(p) ==
  /\ card' = [card EXCEPT ![p] = TRUE]
  /\ UNCHANGED <<paperStatus, jobStatus, sections, references>>

CreateCard(p) ==
  /\ PaperExists(p)
  /\ card' = [card EXCEPT ![p] = TRUE]
  /\ UNCHANGED <<paperStatus, jobStatus, sections, references>>
=============================================================================
