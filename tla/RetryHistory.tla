---------------------------- MODULE RetryHistory ----------------------------
(***************************************************************************)
(* The job pipelines with a memory of their failures and of what became of *)
(* them: a history variable, which only records what the steps do.         *)
(***************************************************************************)
EXTENDS JobProperties, Integers

\* How often the job of each paper has failed, less the failures that were answered.
VARIABLE unanswered

historyVars == <<vars, unanswered>>

HistoryInit == Init /\ unanswered = [p \in Papers |-> 0]

Moves(r, p, from, to) ==
  RequestAt(r, from) /\ request[r].paper = p /\ request'[r].step \in to

JobFails(p) == jobStatus[p] # "failed" /\ jobStatus'[p] = "failed"

\* A retry answers a failure when it goes on to enqueue a task.
RetryResumes(p) ==
  \E r \in Requests : Moves(r, p, "countSections", {"enqueueRead", "enqueueProcess"})

\* A reprocess, a reread, the cleanup or a deletion answers it by overwriting it.
Overwritten(p) ==
  /\ jobStatus[p] = "failed" /\ jobStatus'[p] # "failed"
  /\ ~ \E r \in Requests : Moves(r, p, "resetFailed", {"countSections"})

Count(happens) == IF happens THEN 1 ELSE 0

Tally ==
  unanswered' = [p \in Papers |-> unanswered[p] + Count(JobFails(p)) - Count(RetryResumes(p))
                                                - Count(Overwritten(p))]

HistorySpec == HistoryInit /\ [][Next /\ Tally]_historyVars

\* A failure is answered once.  However many clients retry a failed job at the same
\* time, and whatever reprocesses, rereads, deletions, the cleanup and the handlers of
\* other tasks do to it meanwhile, each time the job failed at most one retry went on
\* to enqueue a task for it, and none if something else had overwritten the failure:
\* RetryJob reads the job's state, resets it and acts on it in statements of their
\* own, and only the reset looks at the row again.  When the paper is at rest and no
\* statement has failed, every failure but the one it shows has had its answer.
OneAnswerPerFailure ==
  \A p \in Papers :
    /\ unanswered[p] >= Count(jobStatus[p] = "failed")
    /\ faults = 0 /\ AtRest(p) => unanswered[p] = Count(jobStatus[p] = "failed")
=============================================================================
