---------------------------- MODULE PaperService ----------------------------
(***************************************************************************)
(* The API server's calls that create, restart or delete a paper's job:    *)
(* Service, RetryService and AdminService of internal/papers, one step per *)
(* statement.  A request slot holds the step a handler goroutine is at.    *)
(*                                                                         *)
(* Answers that change nothing are kept only as the steps "notFound" (404) *)
(* and "conflict" (409).  SetJobTaskID and the closing GetJob are left out: *)
(* they write a column nothing reads.                                      *)
(***************************************************************************)
EXTENDS PaperTables, TaskQueue

CONSTANTS Requests,      \* the requests the server handles at a time
          MaxRequests,   \* bound: requests in all
          Operations     \* the calls clients make

ASSUME MaxRequestsAssumption == MaxRequests \in Nat

VARIABLES request,       \* the step each request slot is at
          requests       \* how many requests have come

RequestSteps ==
  {"createJob", "enqueueProcess", "resetFailed", "countSections", "requeueParse",
   "checkSections", "requeueRead", "enqueueRead", "notFound", "conflict"}

IdleRequest == [step |-> "idle"]

RequestInit == request = [r \in Requests |-> IdleRequest] /\ requests = 0

RequestAt(r, step) == request[r].step = step

Move(r, step) == request' = [request EXCEPT ![r].step = step] /\ UNCHANGED requests
Reply(r) == request' = [request EXCEPT ![r] = IdleRequest] /\ UNCHANGED requests

\* A call comes in for paper p and its first statement runs.
Begin(r, op, p, step) ==
  /\ op \in Operations /\ requests < MaxRequests
  /\ RequestAt(r, "idle")
  /\ request' = [request EXCEPT ![r] = [step |-> step, paper |-> p]]
  /\ requests' = requests + 1
-----------------------------------------------------------------------------
(* IngestPDF: CreatePaperUpload inserts the paper row and then, for that   *)
(* paper, the asset and the job rows; the parse is enqueued last.          *)

Upload(r, p) ==
  /\ Begin(r, "upload", p, "createJob")
  /\ CreatePaper(p)
  /\ UNCHANGED task

CreateJob(r) ==
  /\ RequestAt(r, "createJob")
  /\ \/ CreateProcessingJob(request[r].paper) /\ Move(r, "enqueueProcess")
     \/ ~PaperExists(request[r].paper) /\ UNCHANGED tables /\ Reply(r)
  /\ UNCHANGED task

EnqueueProcessing(r) ==
  /\ RequestAt(r, "enqueueProcess")
  /\ Enqueue("process", request[r].paper)
  /\ Reply(r)
  /\ UNCHANGED tables

EnqueueReading(r) ==
  /\ RequestAt(r, "enqueueRead")
  /\ Enqueue("read", request[r].paper)
  /\ Reply(r)
  /\ UNCHANGED tables
-----------------------------------------------------------------------------
(* RetryJob: GetJob, the guarded reset, and the stage inferred from        *)
(* whether the paper has sections.                                         *)

Retry(r, p) ==
  /\ Begin(r, "retry", p, CASE ~JobExists(p) -> "notFound"
                            [] jobStatus[p] = "failed" -> "resetFailed"
                            [] OTHER -> "conflict")
  /\ UNCHANGED <<tables, task>>

ClaimFailed(r) ==
  /\ RequestAt(r, "resetFailed")
  /\ \/ ResetFailedJob(request[r].paper) /\ Move(r, "countSections")
     \/ jobStatus[request[r].paper] # "failed" /\ UNCHANGED tables /\ Move(r, "conflict")
  /\ UNCHANGED task

\* A retry that always resumes at the read stage.
AlwaysRead(r) ==
  /\ RequestAt(r, "countSections")
  /\ Move(r, "enqueueRead")
  /\ UNCHANGED <<tables, task>>

InferStage(r) ==
  /\ RequestAt(r, "countSections")
  /\ Move(r, IF sections[request[r].paper] # {} THEN "enqueueRead" ELSE "enqueueProcess")
  /\ UNCHANGED <<tables, task>>
-----------------------------------------------------------------------------
(* Reprocess and RegenerateCard requeue the job whatever state it is in.   *)

Reprocess(r, p) ==
  /\ Begin(r, "reprocess", p, IF JobExists(p) THEN "requeueParse" ELSE "notFound")
  /\ UNCHANGED <<tables, task>>

\* A reprocess that resets the job and enqueues nothing.
RequeueOnly(r) ==
  /\ RequestAt(r, "requeueParse")
  /\ RequeueJob(request[r].paper)
  /\ Reply(r)
  /\ UNCHANGED task

RequeueParse(r) ==
  /\ RequestAt(r, "requeueParse")
  /\ RequeueJob(request[r].paper)
  /\ Move(r, "enqueueProcess")
  /\ UNCHANGED task

RegenerateCard(r, p) ==
  /\ Begin(r, "reread", p, IF JobExists(p) THEN "checkSections" ELSE "notFound")
  /\ UNCHANGED <<tables, task>>

CheckSections(r) ==
  /\ RequestAt(r, "checkSections")
  /\ Move(r, IF sections[request[r].paper] # {} THEN "requeueRead" ELSE "conflict")
  /\ UNCHANGED <<tables, task>>

\* A reread that leaves the job as it is.
RereadQuietly(r) ==
  /\ RequestAt(r, "requeueRead")
  /\ Move(r, "enqueueRead")
  /\ UNCHANGED <<tables, task>>

RequeueRead(r) ==
  /\ RequestAt(r, "requeueRead")
  /\ RequeueJob(request[r].paper)
  /\ Move(r, "enqueueRead")
  /\ UNCHANGED task
-----------------------------------------------------------------------------
\* AdminService.DeletePaper: one statement that cascades; tasks are not told.
Delete(p) ==
  /\ "delete" \in Operations /\ requests < MaxRequests
  /\ DeletePaper(p)
  /\ requests' = requests + 1
  /\ UNCHANGED <<task, request>>

Respond(r) ==
  /\ request[r].step \in {"notFound", "conflict"}
  /\ Reply(r)
  /\ UNCHANGED <<tables, task>>

Arrive(r, p) == Upload(r, p) \/ Retry(r, p) \/ Reprocess(r, p) \/ RegenerateCard(r, p)

RequestStep(r) ==
  \/ CreateJob(r) \/ EnqueueProcessing(r) \/ EnqueueReading(r)
  \/ ClaimFailed(r) \/ InferStage(r)
  \/ RequeueParse(r) \/ CheckSections(r) \/ RequeueRead(r)
  \/ Respond(r)
=============================================================================
