--------------------------- MODULE JobProperties ---------------------------
(***************************************************************************)
(* What makes the life of a job correct.                                   *)
(***************************************************************************)
EXTENDS ScholarFlow

QueueSteps == {"waiting", "ack", "nack"}

ParseTasks ==
  [pc : QueueSteps \cup ParseSteps, kind : {"process"}, paper : Papers,
   retried : 0..ProcessMaxRetry, next : Nat]

ReadTasks ==
  [pc : QueueSteps \cup ReadSteps, kind : {"read"}, paper : Papers,
   retried : 0..ReadMaxRetry, next : Nat]

PendingRequests == [step : RequestSteps, paper : Papers]

\* A task in an insert loop is at a row the parse has.
LoopsInRange ==
  \A t \in TaskIds :
    /\ At(t, "createSections") => task[t].next \in 1..NumSections
    /\ At(t, "createReferences") => task[t].next \in 1..NumReferences

\* Every variable has its type: a handler of paper:process is only ever at a
\* step of ProcessPaper, one of paper:read at a step of ReadPaper, no task is
\* retried more often than its limit, and no row is outside what a parse yields.
TypeOK ==
  /\ TablesTypeOK
  /\ task \in [TaskIds -> ParseTasks \cup ReadTasks \cup {FreeTask}]
  /\ LoopsInRange
  /\ request \in [Requests -> PendingRequests \cup {IdleRequest}]
  /\ requests \in 0..MaxRequests
  /\ faults \in 0..MaxFaults
  /\ restarts \in 0..MaxRestarts
-----------------------------------------------------------------------------
(* Who is responsible for a job.                                           *)

Terminal == {"none", "completed", "failed"}

Unfinished(p) == jobStatus[p] \notin Terminal

\* The task will still write the job's status: it waits for delivery, or its
\* handler has a status to write, or it failed and will be delivered again.
Drives(t, p) ==
  /\ Live(t) /\ task[t].paper = p
  /\ task[t].pc \notin {"ack", "markPaperFailed", "markPaperCompleted", "markPaperReadFailed"}
  /\ At(t, "nack") => ~RetriesSpent(t)

\* The request has put the job in the queue's name and will enqueue its task.
Owes(r, p) ==
  /\ request[r].step \in {"enqueueProcess", "countSections", "enqueueRead"}
  /\ request[r].paper = p

Driven(p) == (\E t \in TaskIds : Drives(t, p)) \/ (\E r \in Requests : Owes(r, p))

\* No job is left behind.  However the handlers of several tasks of one paper,
\* the API calls, the cleanup, shutdowns and lost attempts interleave, a job
\* that is queued, processing, parsed or reading has a task that will write its
\* status again or a request about to enqueue one: ProcessPaper, ReadPaper,
\* RetryJob and the admin calls hand it over without a gap, and the handler's
\* idea of its last attempt is asynq's.
NoAbandonedJob ==
  faults = 0 /\ ReaderConfigured => \A p \in Papers : Unfinished(p) => Driven(p)

Abandoned == {p \in Papers : Unfinished(p) /\ ~Driven(p)}

\* When statements do fail, the harm stays small: a failed step, or a last
\* attempt that is lost, leaves behind the one job it worked on and no other.
FaultsAbandonOneJobEach ==
  ReaderConfigured => Cardinality(Abandoned) <= faults

\* Nothing of a deleted paper comes back: no statement of a handler or request
\* still under way leaves a job, section, reference or card row for it.
NoOrphanRows ==
  \A p \in Papers : paperStatus[p] \in NoPaperRow =>
    /\ jobStatus[p] = "none"
    /\ sections[p] = {} /\ references[p] = {}
    /\ ~card[p]
-----------------------------------------------------------------------------
(* What a completed job promises.                                          *)

Saving(p) ==
  \E t \in TaskIds :
    /\ task[t].pc \in {"deleteSections", "createSections",
                       "deleteReferences", "createReferences"}
    /\ task[t].paper = p

RowsComplete(p) == sections[p] = 1..NumSections /\ references[p] = 1..NumReferences

\* A job that says 'completed' has all the rows of a parse, unless a parse is
\* replacing them right now: parses of one paper that overlap delete each
\* other's rows, but one of them always fills them up, and RetryJob resumes at
\* the read stage only on top of such rows.
CompletedIsParsed ==
  faults = 0 /\ restarts = 0 =>
    \A p \in Papers : jobStatus[p] = "completed" /\ ~Saving(p) => RowsComplete(p)

\* A job that says 'completed' has a card, unless a read is replacing it.
CompletedHasCard ==
  faults = 0 /\ restarts = 0 =>
    \A p \in Papers :
      jobStatus[p] = "completed" => \/ card[p]
                                    \/ \E t \in TaskIds : At(t, "createCard")
                                                          /\ task[t].paper = p

AtRest(p) ==
  /\ \A t \in TaskIds : Live(t) => task[t].paper # p
  /\ \A r \in Requests : RequestAt(r, "idle") \/ request[r].paper # p

\* papers.status is written apart from the job's, in statements of two handlers; when
\* nothing works on a paper any more the two agree, as long as its tasks run one
\* after the other: a task delivered again overlaps with the one it enqueued.
PaperAgreesWithJob ==
  faults = 0 /\ restarts = 0 =>
    \A p \in Papers : AtRest(p) /\ JobExists(p) => paperStatus[p] = jobStatus[p]

\* A read that has failed its job is over: ReadPaper keeps the job 'reading'
\* while asynq would still deliver the task again, so nothing reads, and then
\* completes, a paper whose job clients have seen 'failed' and may retry.
FailedReadIsOver ==
  faults = 0 /\ restarts = 0 =>
    \A t \in TaskIds :
      Live(t) /\ task[t].kind = "read" /\ jobStatus[task[t].paper] = "failed" =>
        At(t, "markPaperReadFailed") \/ (At(t, "nack") /\ RetriesSpent(t))
-----------------------------------------------------------------------------
(* The job seen from outside: the abstract specification JobLife.           *)

\* The task may still write the job's status, at once or when it is delivered again.
WorksOn(t, p) ==
  /\ Live(t) /\ task[t].paper = p
  /\ task[t].pc \notin {"ack", "markPaperCompleted"}
  /\ task[t].pc \in {"nack", "markPaperFailed", "markPaperReadFailed"} => ~RetriesSpent(t)

WorkedPapers ==
  {p \in Papers : (\E t \in TaskIds : WorksOn(t, p)) \/ (\E r \in Requests : Owes(r, p))}

\* papers.status is 'queued' only until the first task has begun.
LifeOf(p) ==
  CASE Unfinished(p) -> "open"
    [] jobStatus[p] \in {"completed", "failed"} -> jobStatus[p]
    [] jobStatus[p] = "none" /\ paperStatus[p] = "deleted" -> "deleted"
    [] jobStatus[p] = "none" /\ paperStatus[p] \in {"absent", "queued"} -> "new"
    [] OTHER -> "expired"

Life == INSTANCE JobLife WITH
  life <- [p \in Papers |-> LifeOf(p)], worked <- WorkedPapers,
  losses <- faults, redeliveries <- restarts

\* The handlers, calls and the cleanup implement JobLife: every statement is a step
\* of it or none.  A job changes only while a task or request works on it, nobody
\* leaves it unfinished but by a fault, only a failed job expires, and a late
\* statement never brings back a job that has expired or been deleted.
ImplementsJobLife == Life!Spec
-----------------------------------------------------------------------------
(* What the documentation says and the code does not keep in every case.   *)

\* docs/api.md: while retries of the read remain the job stays 'reading', and
\* after the final attempt it is 'failed'; so a job that is 'reading' still has
\* an attempt to come.
ReadingHasAttemptsLeft ==
  \A p \in Papers : jobStatus[p] = "reading" => ~AtRest(p)

\* docs/api.md: without a reader the job stops at 'parsed' (or failed).
StopsAtParsed ==
  \A p \in Papers : AtRest(p) => jobStatus[p] \in {"parsed", "failed", "none"}

\* internal/papers/retry.go: a retry resumes at the read stage when the paper has
\* been parsed, and otherwise parses it.
RetryReadsParsedPaper ==
  [][\A r \in Requests :
       RequestAt(r, "countSections") /\ RequestAt(r, "enqueueRead")' =>
         RowsComplete(request[r].paper)]_vars
-----------------------------------------------------------------------------
\* With finitely many requests, restarts and no faults, the system comes to
\* rest: every task leaves the queue and every job is completed or failed (or
\* gone), and stays so.
ComesToRest ==
  <>[](/\ \A t \in TaskIds : ~Live(t)
       /\ \A p \in Papers : ~Unfinished(p))
=============================================================================
