---------------------------- MODULE ScholarFlow ----------------------------
(***************************************************************************)
(* The life of a paper's job: API requests, the queue, the worker's two    *)
(* handlers and the cleanup, interleaved statement by statement over the   *)
(* same rows, with statements that fail, workers that stop or die, and     *)
(* attempts that time out.                                                 *)
(***************************************************************************)
EXTENDS ParsePipeline, ReadPipeline, PaperService

CONSTANTS MaxFaults,     \* bound: steps that fail, last attempts that are lost
          MaxRestarts    \* bound: shutdowns, and other attempts that are lost

ASSUME FaultAssumption == MaxFaults \in Nat /\ MaxRestarts \in Nat

VARIABLES faults, restarts

vars == <<paperStatus, jobStatus, sections, references, card,
          task, request, requests, faults, restarts>>

Init ==
  /\ TablesInit
  /\ TaskInit
  /\ RequestInit
  /\ faults = 0
  /\ restarts = 0

Calm == UNCHANGED <<faults, restarts>>
-----------------------------------------------------------------------------
(* The worker.  Without a reader no handler is registered for paper:read,  *)
(* and asynq's mux answers such a task with an error.                      *)

FirstStep(kind) ==
  CASE kind = "process" -> "markProcessing"
    [] kind = "read" -> IF ReaderConfigured THEN "markReading" ELSE "nack"

TakeTask(t) ==
  /\ At(t, "waiting")
  /\ Dequeue(t, FirstStep(task[t].kind))
  /\ UNCHANGED <<tables, request, requests>> /\ Calm

HandlerStep(t) ==
  /\ ParseStep(t) \/ ReadStep(t)
  /\ UNCHANGED <<request, requests>> /\ Calm

FinishTask(t) ==
  /\ Ack(t) \/ Nack(t)
  /\ UNCHANGED <<tables, request, requests>> /\ Calm

\* The daily task deletes the failed jobs older than the retention.
HandleCleanup ==
  /\ "cleanup" \in Operations
  /\ \E old \in SUBSET {p \in Papers : jobStatus[p] = "failed"} :
       old # {} /\ DeleteFailedJobs(old)
  /\ UNCHANGED <<task, request, requests>> /\ Calm
-----------------------------------------------------------------------------
(* The API server.                                                         *)

NewRequest ==
  /\ \/ \E r \in Requests, p \in Papers : Arrive(r, p)
     \/ \E p \in Papers : Delete(p)
  /\ Calm

ServeRequest(r) == RequestStep(r) /\ Calm
-----------------------------------------------------------------------------
(* What goes wrong.  A statement, or a call of Redis, may fail: the worker *)
(* takes the step's error path, the API handler gives up (as it does when  *)
(* its client disconnects, which cancels the request's context).           *)

Fault == faults < MaxFaults /\ faults' = faults + 1 /\ UNCHANGED restarts
Restart == restarts < MaxRestarts /\ restarts' = restarts + 1 /\ UNCHANGED faults

HandlerFault(t) ==
  /\ \/ task[t].pc \in ParseSteps /\ Goto(t, ParseError[task[t].pc])
     \/ task[t].pc \in ReadSteps /\ Goto(t, ReadError[task[t].pc])
  /\ UNCHANGED <<tables, request, requests>> /\ Fault

RequestFault(r) ==
  /\ request[r].step \in RequestSteps \ {"notFound", "conflict"}
  /\ Reply(r)
  /\ UNCHANGED <<tables, task>> /\ Fault

WorkerStops(t) ==
  /\ Requeue(t) \/ LoseAttempt(t)
  /\ UNCHANGED <<tables, request, requests>> /\ Restart

LastAttemptLost(t) ==
  /\ LoseLastAttempt(t)
  /\ UNCHANGED <<tables, request, requests>> /\ Fault
-----------------------------------------------------------------------------
TaskStep(t) == TakeTask(t) \/ HandlerStep(t) \/ FinishTask(t)

Next ==
  \/ NewRequest
  \/ \E r \in Requests : ServeRequest(r) \/ RequestFault(r)
  \/ \E t \in TaskIds : \/ TaskStep(t)
                        \/ HandlerFault(t) \/ WorkerStops(t) \/ LastAttemptLost(t)
  \/ HandleCleanup

Spec == Init /\ [][Next]_vars

\* The scheduler of the Go runtime runs every goroutine, and asynq takes the
\* tasks of its queue in order: none waits for ever while slots keep freeing.
Fairness ==
  /\ \A r \in Requests : WF_vars(ServeRequest(r))
  /\ \A t \in TaskIds : /\ WF_vars(HandlerStep(t) \/ FinishTask(t))
                        /\ SF_vars(TakeTask(t))

FairSpec == Spec /\ Fairness
=============================================================================
