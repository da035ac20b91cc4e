------------------------- MODULE ScholarFlowProofs -------------------------
(***************************************************************************)
(* The theorems about jobs, in three parts.                                *)
(*                                                                         *)
(* First, type correctness of ScholarFlow, and that no job is left behind. *)
(* The type invariant is inductive as it stands because it says which      *)
(* steps a task of each kind may be at, and that a loop over rows is at a  *)
(* row that exists; the lemmas follow the modules, from the statements and *)
(* the queue up to the handlers, the requests and Next.  On it rest the    *)
(* proofs of FaultsAbandonOneJobEach and NoAbandonedJob, of NoOrphanRows,  *)
(* and of OneAnswerPerFailure for the pipelines with their history.        *)
(*                                                                         *)
(* Second, what a job that is over promises.  Third, that the handlers,    *)
(* calls and the cleanup implement JobLife.                                *)
(***************************************************************************)
EXTENDS RetryHistory, FiniteSetTheorems, TLAPS

TaskType == ParseTasks \cup ReadTasks \cup {FreeTask}

\* A step that leaves the tables alone leaves them typed.
LEMMA TablesStay == ASSUME TablesTypeOK, UNCHANGED tables PROVE TablesTypeOK'
  BY DEF TablesTypeOK, tables

\* Every statement of queries/papers.sql writes values of the columns' types.
LEMMA StatementsTyped ==
  ASSUME TablesTypeOK, NEW p \in Papers
  PROVE  /\ \A s \in StatusValues : SetJob(p, s) => TablesTypeOK'
         /\ \A s \in StatusValues : UpdatePaperStatus(p, s) => TablesTypeOK'
         /\ CreatePaper(p) => TablesTypeOK'
         /\ DeletePaper(p) => TablesTypeOK'
         /\ DeleteSections(p) => TablesTypeOK'
         /\ \A i \in 1..NumSections : CreateSection(p, i) => TablesTypeOK'
         /\ DeleteReferences(p) => TablesTypeOK'
         /\ \A i \in 1..NumReferences : CreateReference(p, i) => TablesTypeOK'
         /\ DeleteCards(p) => TablesTypeOK'
         /\ CreateCard(p) => TablesTypeOK'
  <1> USE DEF TablesTypeOK, StatusValues, NoPaperRow
  <1>1. \A s \in StatusValues : SetJob(p, s) => TablesTypeOK'
    BY DEF SetJob
  <1>2. \A s \in StatusValues : UpdatePaperStatus(p, s) => TablesTypeOK'
    BY DEF UpdatePaperStatus
  <1>3. CreatePaper(p) => TablesTypeOK'
    BY DEF CreatePaper
  <1>4. DeletePaper(p) => TablesTypeOK'
    BY DEF DeletePaper
  <1>5. DeleteSections(p) => TablesTypeOK'
    BY DEF DeleteSections
  <1>6. \A i \in 1..NumSections : CreateSection(p, i) => TablesTypeOK'
    BY DEF CreateSection
  <1>7. DeleteReferences(p) => TablesTypeOK'
    BY DEF DeleteReferences
  <1>8. \A i \in 1..NumReferences : CreateReference(p, i) => TablesTypeOK'
    BY DEF CreateReference
  <1>9. DeleteCards(p) => TablesTypeOK'
    BY DEF DeleteCards
  <1>10. CreateCard(p) => TablesTypeOK'
    BY DEF CreateCard
  <1>11. QED
    BY <1>1, <1>2, <1>3, <1>4, <1>5, <1>6, <1>7, <1>8, <1>9, <1>10

TasksTyped == task \in [TaskIds -> TaskType] /\ LoopsInRange

\* Goto keeps the tasks typed when the step is one of the task's own handler
\* (or of the queue) and no loop.
LEMMA GotoTyped ==
  ASSUME TasksTyped, NEW t \in TaskIds, NEW s, Goto(t, s), Live(t),
         \/ s \in QueueSteps
         \/ task[t].kind = "process" /\ s \in ParseSteps \ {"createSections", "createReferences"}
         \/ task[t].kind = "read" /\ s \in ReadSteps
  PROVE  TasksTyped'
  BY DEF TasksTyped, TaskType, ParseTasks, ReadTasks, FreeTask, Goto, Live, LoopsInRange, At, TaskIds,
         QueueSteps, ParseSteps, ReadSteps

\* So does entering a step of ProcessPaper at a row of its loop that exists.
LEMMA MoveTyped ==
  ASSUME TasksTyped, NEW t \in TaskIds, task[t] \in ParseTasks,
         NEW s \in ParseSteps, NEW k \in Nat,
         task' = [task EXCEPT ![t].pc = s, ![t].next = k],
         s = "createSections" => k \in 1..NumSections,
         s = "createReferences" => k \in 1..NumReferences
  PROVE  TasksTyped'
  <1>1. task'[t] \in ParseTasks /\ task'[t].pc = s /\ task'[t].next = k
    BY DEF TasksTyped, ParseTasks
  <1>2. /\ task' \in [TaskIds -> TaskType]
        /\ \A u \in TaskIds \ {t} : task'[u] = task[u]
    BY <1>1 DEF TasksTyped, TaskType
  <1>3. QED
    BY <1>1, <1>2 DEF TasksTyped, LoopsInRange, At

\* LoopFrom never runs past the last of the n rows it is given.
LEMMA LoopTyped ==
  ASSUME TasksTyped, NEW t \in TaskIds, task[t] \in ParseTasks,
         NEW i \in Nat, NEW n \in Nat,
         NEW body, NEW exit \in ParseSteps \ {"createSections", "createReferences"},
         \/ body = "createSections" /\ n = NumSections
         \/ body = "createReferences" /\ n = NumReferences,
         LoopFrom(t, i, n, body, exit)
  PROVE  TasksTyped'
  <1>1. CASE i < n
    <2>1. task' = [task EXCEPT ![t].pc = body, ![t].next = i + 1]
      BY <1>1 DEF LoopFrom
    <2>2. /\ body \in ParseSteps /\ i + 1 \in Nat
          /\ body = "createSections" => i + 1 \in 1..NumSections
          /\ body = "createReferences" => i + 1 \in 1..NumReferences
      BY <1>1 DEF ParseSteps
    <2>3. QED
      BY <2>1, <2>2, MoveTyped
  <1>2. CASE ~(i < n)
    <2>1. task' = [task EXCEPT ![t].pc = exit, ![t].next = 0]
      BY <1>2 DEF LoopFrom
    <2>2. QED
      BY <2>1, MoveTyped
  <1>3. QED
    BY <1>1, <1>2

\* An enqueued task has the type of its kind.
LEMMA NewTaskTyped ==
  ASSUME NEW p \in Papers, NEW kind \in {"process", "read"}
  PROVE  /\ NewTask(kind, p) \in TaskType
         /\ NewTask(kind, p).pc = "waiting"
  BY RetryAssumption DEF TaskType, ParseTasks, ReadTasks, NewTask, QueueSteps

\* Deleting or archiving a task leaves a free slot.
LEMMA DropTyped ==
  ASSUME TasksTyped, NEW t \in TaskIds, Drop(t)
  PROVE  TasksTyped'
  BY DEF TasksTyped, TaskType, FreeTask, Drop, LoopsInRange, At

\* A task a shutdown pushes back keeps its kind, paper and retries.
LEMMA RequeueTyped ==
  ASSUME TasksTyped, NEW t \in TaskIds, Requeue(t)
  PROVE  TasksTyped'
  <1>1. task[t] \in ParseTasks \cup ReadTasks
    BY DEF TasksTyped, TaskType, FreeTask, Requeue, Running
  <1>2. task'[t] \in ParseTasks \cup ReadTasks /\ task'[t].pc = "waiting"
    BY <1>1 DEF Requeue, ParseTasks, ReadTasks, QueueSteps, TasksTyped
  <1>3. /\ task' \in [TaskIds -> TaskType]
        /\ \A u \in TaskIds \ {t} : task'[u] = task[u]
    BY <1>2 DEF TasksTyped, Requeue, TaskType
  <1>4. QED
    BY <1>2, <1>3 DEF TasksTyped, LoopsInRange, At

\* A redelivered task stays within its retries: asynq redelivers none whose
\* retries are spent.
LEMMA RedeliverTyped ==
  ASSUME TasksTyped, NEW t \in TaskIds, Live(t), ~RetriesSpent(t), Redeliver(t)
  PROVE  TasksTyped'
  BY RetryAssumption DEF TasksTyped, TaskType, ParseTasks, ReadTasks, FreeTask, Redeliver, Live, RetriesSpent,
     MaxRetry, LoopsInRange, At, QueueSteps

\* Enqueueing keeps the tasks typed.
LEMMA EnqueueTyped ==
  ASSUME TasksTyped, NEW p \in Papers, NEW kind \in {"process", "read"}, Enqueue(kind, p)
  PROVE  TasksTyped'
  BY NewTaskTyped DEF TasksTyped, Enqueue, LoopsInRange, At

\* So does the parse that enqueues the read and finishes.
LEMMA EnqueueReadTyped ==
  ASSUME TasksTyped, NEW t \in TaskIds, EnqueueRead(t)
  PROVE  TasksTyped'
  BY NewTaskTyped DEF TasksTyped, EnqueueRead, LoopsInRange, At, TaskType, ParseTasks, ReadTasks, FreeTask, QueueSteps

\* The step a task is at tells which handler runs it.
LEMMA TaskAtStep ==
  ASSUME TasksTyped, NEW t \in TaskIds
  PROVE  /\ task[t].pc \in ParseSteps => task[t] \in ParseTasks
         /\ task[t].pc \in ReadSteps => task[t] \in ReadTasks
         /\ Live(t) => task[t].paper \in Papers /\ task[t].kind \in {"process", "read"}
  BY DEF TasksTyped, TaskType, ParseTasks, ReadTasks, FreeTask, Live, QueueSteps, ParseSteps, ReadSteps

\* Within ProcessPaper a handler may go to any step that is no loop, and to
\* the queue's.
LEMMA ParseGotoTyped ==
  ASSUME TasksTyped, NEW t \in TaskIds, task[t].pc \in ParseSteps,
         NEW s \in QueueSteps \cup (ParseSteps \ {"createSections", "createReferences"}),
         Goto(t, s)
  PROVE  TasksTyped'
  <1>1. Live(t) /\ task[t].kind = "process"
    BY TaskAtStep DEF Live, ParseSteps, ParseTasks
  <1>2. QED
    BY <1>1, GotoTyped

\* The error path of a step of ProcessPaper keeps tables and tasks typed.
LEMMA RefusedTyped ==
  ASSUME TablesTypeOK, TasksTyped, NEW t \in TaskIds, task[t].pc \in ParseSteps, Refused(t)
  PROVE  TablesTypeOK' /\ TasksTyped'
  <1>1. ParseError[task[t].pc] \in {"markFailed", "nack"}
    BY DEF ParseError
  <1>2. QED
    BY <1>1, ParseGotoTyped, TablesStay DEF Refused, ParseSteps, QueueSteps

\* Every step of ProcessPaper keeps tables and tasks typed.
LEMMA ParseStepTyped ==
  ASSUME TablesTypeOK, TasksTyped, NEW t \in TaskIds, ParseStep(t)
  PROVE  TablesTypeOK' /\ TasksTyped'
  <1> DEFINE p == task[t].paper
  <1>a. task[t].pc \in ParseSteps => p \in Papers /\ task[t] \in ParseTasks
    BY TaskAtStep DEF Live, ParseSteps, ParseTasks
  <1>b. /\ {"processing", "parsed", "failed"} \subseteq StatusValues
        /\ {"markPaperProcessing", "parsePDF", "saveMetadata", "deleteSections",
            "deleteReferences", "markParsed", "enqueueRead", "markPaperFailed"}
             \subseteq ParseSteps \ {"createSections", "createReferences"}
        /\ {"ack", "nack"} \subseteq QueueSteps
    BY DEF StatusValues, ParseSteps, QueueSteps
  <1>1. CASE MarkProcessing(t)
    BY <1>1, <1>a, <1>b, StatementsTyped, ParseGotoTyped, RefusedTyped
       DEF MarkProcessing, UpdateJobStatus, At, ParseSteps
  <1>2. CASE MarkPaperProcessing(t)
    BY <1>2, <1>a, <1>b, StatementsTyped, ParseGotoTyped DEF MarkPaperProcessing, At, ParseSteps
  <1>3. CASE ParsePDF(t)
    BY <1>3, <1>a, <1>b, TablesStay, ParseGotoTyped, RefusedTyped DEF ParsePDF, At, ParseSteps
  <1>4. CASE SaveMetadata(t)
    BY <1>4, <1>a, <1>b, StatementsTyped, ParseGotoTyped, RefusedTyped
       DEF SaveMetadata, At, ParseSteps
  <1>5. CASE ReplaceSections(t)
    BY <1>5, <1>a, <1>b, StatementsTyped, LoopTyped, SectionsAssumption
       DEF ReplaceSections, At, ParseSteps
  <1>6. CASE InsertSection(t)
    <2>1. task[t].next \in 1..NumSections /\ task[t].pc \in ParseSteps
      BY <1>6 DEF InsertSection, TasksTyped, LoopsInRange, At, ParseSteps
    <2>2. task[t].next \in Nat
      BY <2>1
    <2>3. CASE Refused(t)
      BY <2>3, <2>1, RefusedTyped
    <2>4. CASE /\ CreateSection(p, task[t].next)
               /\ LoopFrom(t, task[t].next, NumSections, "createSections", "deleteReferences")
      BY <2>4, <2>1, <2>2, <1>a, <1>b, StatementsTyped, LoopTyped, SectionsAssumption
    <2>5. QED
      BY <1>6, <2>3, <2>4 DEF InsertSection
  <1>7. CASE ReplaceReferences(t)
    BY <1>7, <1>a, <1>b, StatementsTyped, LoopTyped, ReferencesAssumption
       DEF ReplaceReferences, At, ParseSteps
  <1>8. CASE InsertReference(t)
    <2>1. task[t].next \in 1..NumReferences /\ task[t].pc \in ParseSteps
      BY <1>8 DEF InsertReference, TasksTyped, LoopsInRange, At, ParseSteps
    <2>2. task[t].next \in Nat
      BY <2>1
    <2>3. CASE Refused(t)
      BY <2>3, <2>1, RefusedTyped
    <2>4. CASE /\ CreateReference(p, task[t].next)
               /\ LoopFrom(t, task[t].next, NumReferences, "createReferences", "markParsed")
      BY <2>4, <2>1, <2>2, <1>a, <1>b, StatementsTyped, LoopTyped, ReferencesAssumption
    <2>5. QED
      BY <1>8, <2>3, <2>4 DEF InsertReference
  <1>9. CASE MarkParsed(t)
    BY <1>9, <1>a, <1>b, StatementsTyped, ParseGotoTyped, RefusedTyped
       DEF MarkParsed, UpdateJobStatus, At, ParseSteps
  <1>10. CASE EnqueueRead(t)
    BY <1>10, TablesStay, EnqueueReadTyped DEF EnqueueRead
  <1>11. CASE MarkFailed(t)
    BY <1>11, <1>a, <1>b, StatementsTyped, ParseGotoTyped, RefusedTyped
       DEF MarkFailed, UpdateJobStatus, At, ParseSteps
  <1>12. CASE MarkPaperFailed(t)
    BY <1>12, <1>a, <1>b, StatementsTyped, ParseGotoTyped DEF MarkPaperFailed, At, ParseSteps
  <1>13. QED
    BY <1>1, <1>2, <1>3, <1>4, <1>5, <1>6, <1>7, <1>8, <1>9, <1>10, <1>11, <1>12 DEF ParseStep

\* Within ReadPaper a handler may go to any of its steps, and to the queue's.
LEMMA ReadGotoTyped ==
  ASSUME TasksTyped, NEW t \in TaskIds, task[t].pc \in ReadSteps,
         NEW s \in QueueSteps \cup ReadSteps, Goto(t, s)
  PROVE  TasksTyped'
  <1>1. Live(t) /\ task[t].kind = "read"
    BY TaskAtStep DEF Live, ReadSteps, ReadTasks
  <1>2. QED
    BY <1>1, GotoTyped

\* The error path of a step of ReadPaper keeps tables and tasks typed.
LEMMA ReadRefusedTyped ==
  ASSUME TablesTypeOK, TasksTyped, NEW t \in TaskIds, task[t].pc \in ReadSteps, ReadRefused(t)
  PROVE  TablesTypeOK' /\ TasksTyped'
  <1>1. ReadError[task[t].pc] \in {"markReadFailed", "nack"}
    BY DEF ReadError
  <1>2. QED
    BY <1>1, ReadGotoTyped, TablesStay DEF ReadRefused, ReadSteps, QueueSteps

\* Every step of ReadPaper keeps tables and tasks typed.
LEMMA ReadStepTyped ==
  ASSUME TablesTypeOK, TasksTyped, NEW t \in TaskIds, ReadStep(t)
  PROVE  TablesTypeOK' /\ TasksTyped'
  <1> DEFINE p == task[t].paper
  <1>a. task[t].pc \in ReadSteps => p \in Papers
    BY TaskAtStep DEF Live, ReadSteps
  <1>b. /\ {"reading", "completed", "failed"} \subseteq StatusValues
        /\ {"ack", "nack"} \subseteq QueueSteps
    BY DEF StatusValues, QueueSteps
  <1>1. CASE MarkReading(t)
    BY <1>1, <1>a, <1>b, StatementsTyped, ReadGotoTyped, ReadRefusedTyped
       DEF MarkReading, UpdateJobStatus, At, ReadSteps
  <1>2. CASE MarkPaperReading(t)
    BY <1>2, <1>a, <1>b, StatementsTyped, ReadGotoTyped DEF MarkPaperReading, At, ReadSteps
  <1>3. CASE CallReader(t)
    BY <1>3, <1>a, <1>b, TablesStay, ReadGotoTyped, ReadRefusedTyped DEF CallReader, At, ReadSteps
  <1>4. CASE ReplaceCard(t)
    BY <1>4, <1>a, <1>b, StatementsTyped, ReadGotoTyped DEF ReplaceCard, At, ReadSteps
  <1>5. CASE SaveCard(t)
    BY <1>5, <1>a, <1>b, StatementsTyped, ReadGotoTyped, ReadRefusedTyped DEF SaveCard, At, ReadSteps
  <1>6. CASE MarkCompleted(t)
    BY <1>6, <1>a, <1>b, StatementsTyped, ReadGotoTyped, ReadRefusedTyped
       DEF MarkCompleted, UpdateJobStatus, At, ReadSteps
  <1>7. CASE MarkPaperCompleted(t)
    BY <1>7, <1>a, <1>b, StatementsTyped, ReadGotoTyped DEF MarkPaperCompleted, At, ReadSteps
  <1>8. CASE MarkReadFailed(t)
    BY <1>8, <1>a, <1>b, StatementsTyped, ReadGotoTyped, ReadRefusedTyped
       DEF MarkReadFailed, UpdateJobStatus, At, ReadSteps
  <1>9. CASE MarkPaperReadFailed(t)
    BY <1>9, <1>a, <1>b, StatementsTyped, ReadGotoTyped DEF MarkPaperReadFailed, At, ReadSteps
  <1>10. QED
    BY <1>1, <1>2, <1>3, <1>4, <1>5, <1>6, <1>7, <1>8, <1>9 DEF ReadStep

RequestsTyped ==
  /\ request \in [Requests -> PendingRequests \cup {IdleRequest}]
  /\ requests \in 0..MaxRequests

\* A call that begins takes an idle slot and counts towards MaxRequests.
LEMMA BeginTyped ==
  ASSUME RequestsTyped, NEW r \in Requests, NEW op, NEW p \in Papers, NEW step \in RequestSteps,
         Begin(r, op, p, step)
  PROVE  RequestsTyped'
  BY MaxRequestsAssumption DEF RequestsTyped, Begin, PendingRequests

\* Every call of the API that takes a slot keeps the types.
LEMMA ArriveTyped ==
  ASSUME TablesTypeOK, TasksTyped, RequestsTyped, NEW r \in Requests, NEW p \in Papers, Arrive(r, p)
  PROVE  TablesTypeOK' /\ TasksTyped' /\ RequestsTyped'
  <1>1. CASE Upload(r, p)
    BY <1>1, BeginTyped, StatementsTyped DEF Upload, RequestSteps, TasksTyped, LoopsInRange, At
  <1>2. CASE Retry(r, p)
    BY <1>2, BeginTyped, TablesStay DEF Retry, RequestSteps, TasksTyped, LoopsInRange, At
  <1>3. CASE Reprocess(r, p)
    BY <1>3, BeginTyped, TablesStay DEF Reprocess, RequestSteps, TasksTyped, LoopsInRange, At
  <1>4. CASE RegenerateCard(r, p)
    BY <1>4, BeginTyped, TablesStay DEF RegenerateCard, RequestSteps, TasksTyped, LoopsInRange, At
  <1>5. QED
    BY <1>1, <1>2, <1>3, <1>4 DEF Arrive

\* A request under way moves to a step of a request, or is answered.
LEMMA RequestMoveTyped ==
  ASSUME RequestsTyped, NEW r \in Requests, request[r].step # "idle",
         Reply(r) \/ \E s \in RequestSteps : Move(r, s)
  PROVE  RequestsTyped'
  <1>1. request[r] \in PendingRequests
    BY DEF RequestsTyped, IdleRequest
  <1>2. QED
    BY <1>1 DEF RequestsTyped, PendingRequests, Reply, Move

\* Every step of a request keeps the types.
LEMMA RequestStepTyped ==
  ASSUME TablesTypeOK, TasksTyped, RequestsTyped, NEW r \in Requests, RequestStep(r)
  PROVE  TablesTypeOK' /\ TasksTyped' /\ RequestsTyped'
  <1> DEFINE p == request[r].paper
  <1>a. request[r].step # "idle" => p \in Papers
    BY DEF RequestsTyped, PendingRequests, IdleRequest
  <1>b. UNCHANGED task => TasksTyped'
    BY DEF TasksTyped, LoopsInRange, At
  <1>c. "queued" \in StatusValues
    BY DEF StatusValues
  <1>1. CASE CreateJob(r)
    BY <1>1, <1>a, <1>b, <1>c, RequestMoveTyped, StatementsTyped, TablesStay
       DEF CreateJob, RequestAt, CreateProcessingJob, RequestSteps
  <1>2. CASE EnqueueProcessing(r)
    BY <1>2, <1>a, RequestMoveTyped, EnqueueTyped, TablesStay DEF EnqueueProcessing, RequestAt
  <1>3. CASE EnqueueReading(r)
    BY <1>3, <1>a, RequestMoveTyped, EnqueueTyped, TablesStay DEF EnqueueReading, RequestAt
  <1>4. CASE ClaimFailed(r)
    BY <1>4, <1>a, <1>b, <1>c, RequestMoveTyped, StatementsTyped, TablesStay
       DEF ClaimFailed, RequestAt, ResetFailedJob, RequestSteps
  <1>5. CASE InferStage(r)
    BY <1>5, <1>b, RequestMoveTyped, TablesStay DEF InferStage, RequestAt, RequestSteps
  <1>6. CASE RequeueParse(r)
    BY <1>6, <1>a, <1>b, <1>c, RequestMoveTyped, StatementsTyped, TablesStay
       DEF RequeueParse, RequestAt, RequeueJob, RequestSteps
  <1>7. CASE CheckSections(r)
    BY <1>7, <1>b, RequestMoveTyped, TablesStay DEF CheckSections, RequestAt, RequestSteps
  <1>8. CASE RequeueRead(r)
    BY <1>8, <1>a, <1>b, <1>c, RequestMoveTyped, StatementsTyped, TablesStay
       DEF RequeueRead, RequestAt, RequeueJob, RequestSteps
  <1>9. CASE Respond(r)
    BY <1>9, <1>b, RequestMoveTyped, TablesStay DEF Respond
  <1>10. QED
    BY <1>1, <1>2, <1>3, <1>4, <1>5, <1>6, <1>7, <1>8, <1>9 DEF RequestStep

-----------------------------------------------------------------------------

\* The types hold when the system starts.
LEMMA TypeInit == Init => TypeOK
  BY MaxRequestsAssumption, FaultAssumption
     DEF Init, TablesInit, TaskInit, RequestInit, TypeOK, TablesTypeOK, LoopsInRange, At,
         NoPaperRow, FreeTask, IdleRequest

\* TypeOK, taken apart by the module the variables come from.
LEMMA TypeParts == TypeOK <=> /\ TablesTypeOK /\ TasksTyped /\ RequestsTyped
                              /\ faults \in 0..MaxFaults /\ restarts \in 0..MaxRestarts
  BY DEF TypeOK, TasksTyped, TaskType, RequestsTyped

\* Every step of the system keeps the types.
LEMMA TypeStep ==
  ASSUME TypeOK, [Next]_vars
  PROVE  TypeOK'
  <1>a. TablesTypeOK /\ TasksTyped /\ RequestsTyped
    BY TypeParts
  <1>b. UNCHANGED tables => TablesTypeOK'
    BY <1>a, TablesStay
  <1>c. UNCHANGED task => TasksTyped'
    BY <1>a DEF TasksTyped, LoopsInRange, At
  <1>d. UNCHANGED <<request, requests>> => RequestsTyped'
    BY <1>a DEF RequestsTyped
  <1>e. /\ Calm => faults' \in 0..MaxFaults /\ restarts' \in 0..MaxRestarts
        /\ Fault => faults' \in 0..MaxFaults /\ restarts' \in 0..MaxRestarts
        /\ Restart => faults' \in 0..MaxFaults /\ restarts' \in 0..MaxRestarts
    BY FaultAssumption DEF TypeOK, Calm, Fault, Restart
  <1>f. TablesTypeOK' /\ TasksTyped' /\ RequestsTyped' /\ (Calm \/ Fault \/ Restart) => TypeOK'
    BY <1>e DEF TypeOK, TasksTyped, TaskType, RequestsTyped
  <1>1. CASE NewRequest
    <2>1. ASSUME NEW r \in Requests, NEW p \in Papers, Arrive(r, p), Calm
          PROVE  TypeOK'
      BY <2>1, <1>a, <1>f, ArriveTyped
    <2>2. ASSUME NEW p \in Papers, Delete(p), Calm
          PROVE  TypeOK'
      <3>1. TablesTypeOK'
        BY <2>2, <1>a, StatementsTyped DEF Delete
      <3>2. RequestsTyped'
        BY <2>2, <1>a, MaxRequestsAssumption DEF Delete, RequestsTyped
      <3>3. QED
        BY <3>1, <3>2, <2>2, <1>c, <1>f DEF Delete
    <2>3. QED
      BY <1>1, <2>1, <2>2 DEF NewRequest
  <1>2. ASSUME NEW r \in Requests, ServeRequest(r) PROVE TypeOK'
    BY <1>2, <1>a, <1>f, RequestStepTyped DEF ServeRequest
  <1>3. ASSUME NEW r \in Requests, RequestFault(r) PROVE TypeOK'
    BY <1>3, <1>a, <1>b, <1>c, <1>f, RequestMoveTyped DEF RequestFault, RequestSteps
  <1>4. ASSUME NEW t \in TaskIds, TakeTask(t) PROVE TypeOK'
    <2>1. Live(t) /\ task[t].kind \in {"process", "read"}
      BY <1>4, <1>a, TaskAtStep DEF TakeTask, At, Live
    <2>2. \/ task[t].kind = "process" /\ FirstStep(task[t].kind) = "markProcessing"
          \/ task[t].kind = "read" /\ FirstStep(task[t].kind) \in {"markReading", "nack"}
      BY <2>1 DEF FirstStep
    <2>3. TasksTyped'
      BY <2>1, <2>2, <1>4, <1>a, GotoTyped DEF TakeTask, Dequeue, ParseSteps, ReadSteps, QueueSteps
    <2>4. QED
      BY <2>3, <1>4, <1>b, <1>d, <1>f DEF TakeTask
  <1>5. ASSUME NEW t \in TaskIds, HandlerStep(t) PROVE TypeOK'
    BY <1>5, <1>a, <1>d, <1>f, ParseStepTyped, ReadStepTyped DEF HandlerStep
  <1>6. ASSUME NEW t \in TaskIds, FinishTask(t) PROVE TypeOK'
    <2>1. TasksTyped'
      BY <1>6, <1>a, DropTyped, RedeliverTyped DEF FinishTask, Ack, Nack, At, Live
    <2>2. QED
      BY <2>1, <1>6, <1>b, <1>d, <1>f DEF FinishTask
  <1>7. ASSUME NEW t \in TaskIds, HandlerFault(t) PROVE TypeOK'
    <2>1. CASE task[t].pc \in ParseSteps /\ Goto(t, ParseError[task[t].pc])
      <3>1. ParseError[task[t].pc] \in {"markFailed", "nack"}
        BY <2>1 DEF ParseError
      <3>2. TasksTyped'
        BY <3>1, <2>1, <1>a, ParseGotoTyped DEF ParseSteps, QueueSteps
      <3>3. QED
        BY <3>2, <1>7, <1>b, <1>d, <1>f DEF HandlerFault
    <2>2. CASE task[t].pc \in ReadSteps /\ Goto(t, ReadError[task[t].pc])
      <3>1. ReadError[task[t].pc] \in {"markReadFailed", "nack"}
        BY <2>2 DEF ReadError
      <3>2. TasksTyped'
        BY <3>1, <2>2, <1>a, ReadGotoTyped DEF ReadSteps, QueueSteps
      <3>3. QED
        BY <3>2, <1>7, <1>b, <1>d, <1>f DEF HandlerFault
    <2>3. QED
      BY <1>7, <2>1, <2>2 DEF HandlerFault
  <1>8. ASSUME NEW t \in TaskIds, WorkerStops(t) PROVE TypeOK'
    <2>1. TasksTyped'
      BY <1>8, <1>a, RequeueTyped, RedeliverTyped DEF WorkerStops, LoseAttempt, Running, Live
    <2>2. QED
      BY <2>1, <1>8, <1>b, <1>d, <1>f DEF WorkerStops
  <1>9. ASSUME NEW t \in TaskIds, LastAttemptLost(t) PROVE TypeOK'
    BY <1>9, <1>a, <1>b, <1>d, <1>f, DropTyped DEF LastAttemptLost, LoseLastAttempt
  <1>10. CASE HandleCleanup
    <2>1. PICK old \in SUBSET Papers : DeleteFailedJobs(old)
      BY <1>10 DEF HandleCleanup
    <2>2. TablesTypeOK'
      BY <2>1, <1>a DEF DeleteFailedJobs, TablesTypeOK
    <2>3. QED
      BY <2>2, <1>10, <1>c, <1>d, <1>f DEF HandleCleanup
  <1>11. CASE UNCHANGED vars
    <2>1. UNCHANGED tables /\ UNCHANGED task /\ UNCHANGED <<request, requests>> /\ Calm
      BY <1>11 DEF vars, tables, Calm
    <2>2. QED
      BY <2>1, <1>b, <1>c, <1>d, <1>f
  <1>12. QED
    BY <1>1, <1>2, <1>3, <1>4, <1>5, <1>6, <1>7, <1>8, <1>9, <1>10, <1>11 DEF Next, TaskStep

\* In every reachable state every variable has its type, for any numbers of
\* papers, rows, tasks, retries, requests, faults and restarts: in particular no
\* task outlives its retries, and no handler runs another handler's step.
THEOREM TypeCorrect == Spec => []TypeOK
  BY TypeInit, TypeStep, PTL DEF Spec
-----------------------------------------------------------------------------
(* No job is left behind.                                                  *)

\* A job is covered when, if it is unfinished, someone is responsible for it.
Covered(p) == Unfinished(p) => Driven(p)

\* A step of task t leaves every paper covered that was, if it touches no other
\* task and no other job and either hands its own paper to a driver, or ends
\* its job, or had no part in driving it.
LEMMA TaskKeepsCovered ==
  ASSUME TypeOK, NEW t \in TaskIds, NEW q, q = task[t].paper,
         \A u \in TaskIds \ {t} : Live(u) => task'[u] = task[u],
         request' = request,
         \A p \in Papers : p # q => jobStatus'[p] = jobStatus[p],
         \/ \E u \in TaskIds : Drives(u, q)'
         \/ jobStatus'[q] \in Terminal
         \/ jobStatus'[q] = jobStatus[q] /\ ~Drives(t, q)
  PROVE  \A p \in Papers : Covered(p) => Covered(p)'
  <1> SUFFICES ASSUME NEW p \in Papers, Covered(p), Unfinished(p)'
               PROVE  Driven(p)'
    BY DEF Covered
  <1>1. \A u \in TaskIds \ {t} : Drives(u, p) => Drives(u, p)'
    BY DEF Drives, RetriesSpent, At, Live
  <1>2. \A r \in Requests : Owes(r, p) => Owes(r, p)'
    BY DEF Owes
  <1>3. CASE p # q
    <2>1. Driven(p)
      BY <1>3 DEF Covered, Unfinished
    <2>2. ~Drives(t, p)
      BY <1>3 DEF Drives
    <2>3. QED
      BY <1>1, <1>2, <2>1, <2>2 DEF Driven
  <1>4. CASE p = q
    <2>1. CASE \E u \in TaskIds : Drives(u, q)'
      BY <1>4, <2>1 DEF Driven
    <2>2. CASE jobStatus'[q] \in Terminal
      BY <1>4, <2>2 DEF Unfinished
    <2>3. CASE jobStatus'[q] = jobStatus[q] /\ ~Drives(t, q)
      <3>1. Driven(p)
        BY <1>4, <2>3 DEF Covered, Unfinished
      <3>2. QED
        BY <3>1, <1>1, <1>2, <1>4, <2>3 DEF Driven
    <2>4. QED
      BY <2>1, <2>2, <2>3
  <1>5. QED
    BY <1>3, <1>4

\* The same for a step of a request, which may hand its paper to a task.
LEMMA RequestKeepsCovered ==
  ASSUME TypeOK, NEW r \in Requests, NEW q,
         \A s \in Requests \ {r} : request'[s] = request[s],
         \A u \in TaskIds : Live(u) => task'[u] = task[u],
         \A p \in Papers : p # q => jobStatus'[p] = jobStatus[p] /\ ~Owes(r, p),
         \/ \E u \in TaskIds : Drives(u, q)'
         \/ Owes(r, q)'
         \/ jobStatus'[q] \in Terminal
         \/ jobStatus'[q] = jobStatus[q] /\ ~Owes(r, q)
  PROVE  \A p \in Papers : Covered(p) => Covered(p)'
  <1> SUFFICES ASSUME NEW p \in Papers, Covered(p), Unfinished(p)'
               PROVE  Driven(p)'
    BY DEF Covered
  <1>1. \A u \in TaskIds : Drives(u, p) => Drives(u, p)'
    BY DEF Drives, RetriesSpent, At, Live
  <1>2. \A s \in Requests \ {r} : Owes(s, p) => Owes(s, p)'
    BY DEF Owes
  <1>3. CASE p # q
    <2>1. Driven(p)
      BY <1>3 DEF Covered, Unfinished
    <2>2. QED
      BY <1>1, <1>2, <1>3, <2>1 DEF Driven
  <1>4. CASE p = q
    <2>1. CASE jobStatus'[q] = jobStatus[q] /\ ~Owes(r, q)
      <3>1. Driven(p)
        BY <1>4, <2>1 DEF Covered, Unfinished
      <3>2. QED
        BY <3>1, <1>1, <1>2, <1>4, <2>1 DEF Driven
    <2>2. QED
      BY <1>4, <2>1 DEF Driven, Unfinished
  <1>5. QED
    BY <1>3, <1>4

-----------------------------------------------------------------------------

PastDriving == {"free", "ack", "nack", "markPaperFailed", "markPaperCompleted", "markPaperReadFailed"}

\* Goto touches one task.
LEMMA GotoOthers ==
  ASSUME TypeOK, NEW t \in TaskIds, NEW s, Goto(t, s)
  PROVE  \A u \in TaskIds \ {t} : task'[u] = task[u]
  BY DEF Goto, TypeOK

\* A live task has a kind, a paper and its counts.
LEMMA LiveTask ==
  ASSUME TypeOK, NEW t \in TaskIds, Live(t)
  PROVE  task[t] \in ParseTasks \cup ReadTasks
  BY DEF TypeOK, Live, FreeTask

\* A task that goes to a step before its last write drives its paper's job.
LEMMA GotoDrives ==
  ASSUME TypeOK, NEW t \in TaskIds, Live(t), NEW q, q = task[t].paper,
         NEW s, s \notin PastDriving, Goto(t, s)
  PROVE  Drives(t, q)'
  <1>1. task'[t].pc = s /\ task'[t].paper = task[t].paper
    BY LiveTask DEF Goto, TypeOK, ParseTasks, ReadTasks
  <1>2. QED
    BY <1>1 DEF Drives, Live, At, PastDriving

\* So does one that stays in, or leaves, a loop over rows.
LEMMA LoopDrives ==
  ASSUME TypeOK, NEW t \in TaskIds, Live(t), NEW q, q = task[t].paper, NEW i, NEW n,
         NEW body, body \notin PastDriving, NEW exit, exit \notin PastDriving,
         LoopFrom(t, i, n, body, exit)
  PROVE  /\ Drives(t, q)'
         /\ \A u \in TaskIds \ {t} : task'[u] = task[u]
  <1> DEFINE Moved(s, k) == task' = [task EXCEPT ![t].pc = s, ![t].next = k]
  <1>1. ASSUME NEW s, s \notin PastDriving, NEW k, Moved(s, k)
        PROVE  /\ Drives(t, q)'
               /\ \A u \in TaskIds \ {t} : task'[u] = task[u]
    <2>1. /\ task'[t].pc = s /\ task'[t].paper = task[t].paper
          /\ \A u \in TaskIds \ {t} : task'[u] = task[u]
      BY <1>1, LiveTask DEF TypeOK, ParseTasks, ReadTasks
    <2>2. QED
      BY <1>1, <2>1 DEF Drives, Live, At, PastDriving
  <1>2. \/ Moved(body, i + 1)
        \/ Moved(exit, 0)
    BY DEF LoopFrom
  <1>3. QED
    BY <1>1, <1>2

\* So does a task just enqueued.
LEMMA NewTaskDrives ==
  ASSUME TypeOK, NEW u \in TaskIds, NEW kind, NEW q, task'[u] = NewTask(kind, q)
  PROVE  Drives(u, q)'
  BY DEF Drives, NewTask, Live, At

\* Every step of ProcessPaper leaves every covered paper covered.
LEMMA ParseStepCovers ==
  ASSUME TypeOK, ReaderConfigured, NEW t \in TaskIds, ParseStep(t), request' = request,
         NEW q, q = task[t].paper
  PROVE  \A p \in Papers : Covered(p) => Covered(p)'
  <1>a. /\ task[t].pc \in ParseSteps => Live(t) /\ q \in Papers
        /\ jobStatus \in [Papers -> StatusValues \cup {"none"}]
    BY TypeParts, TaskAtStep DEF TablesTypeOK, Live, ParseSteps
  <1>b. ASSUME UNCHANGED tables \/ jobStatus' = jobStatus \/ \E s \in StatusValues : SetJob(q, s)
        PROVE  \A p \in Papers : p # q => jobStatus'[p] = jobStatus[p]
    BY <1>a, <1>b DEF tables, SetJob
  <1>c. ASSUME task[t].pc \in ParseSteps, Refused(t), \/ ParseError[task[t].pc] = "markFailed"
                                                      \/ ~JobExists(q)
        PROVE  \A p \in Papers : Covered(p) => Covered(p)'
    <2>1. ~JobExists(q) => jobStatus'[q] \in Terminal
      BY <1>c DEF Refused, tables, JobExists, Terminal
    <2>2. ParseError[task[t].pc] = "markFailed" => Drives(t, q)'
      BY <1>c, <1>a, GotoDrives DEF Refused, PastDriving
    <2>3. \A u \in TaskIds \ {t} : task'[u] = task[u]
      BY <1>c, GotoOthers DEF Refused
    <2>4. \A p \in Papers : p # q => jobStatus'[p] = jobStatus[p]
      BY <1>c, <1>b DEF Refused
    <2>5. QED
      BY <2>1, <2>2, <2>3, <2>4, <1>c, TaskKeepsCovered
  <1>d. ASSUME task[t].pc \in ParseSteps, jobStatus' = jobStatus \/ \E s \in StatusValues : SetJob(q, s),
               NEW s, Goto(t, s), s \notin PastDriving
        PROVE  \A p \in Papers : Covered(p) => Covered(p)'
    BY <1>a, <1>b, <1>d, GotoOthers, GotoDrives, TaskKeepsCovered
  <1>e. ASSUME task[t].pc \in ParseSteps, jobStatus' = jobStatus, NEW i, NEW n, NEW body, NEW exit,
               body \notin PastDriving, exit \notin PastDriving, LoopFrom(t, i, n, body, exit)
        PROVE  \A p \in Papers : Covered(p) => Covered(p)'
    BY <1>a, <1>e, LoopDrives, TaskKeepsCovered
  <1>1. CASE MarkProcessing(t)
    <2>1. CASE UpdateJobStatus(q, "processing") /\ Goto(t, "markPaperProcessing")
      BY <1>1, <2>1, <1>d DEF MarkProcessing, At, ParseSteps, UpdateJobStatus, StatusValues, PastDriving
    <2>2. CASE ~JobExists(q) /\ Refused(t)
      BY <1>1, <2>2, <1>c DEF MarkProcessing, At, ParseSteps
    <2>3. QED
      BY <1>1, <2>1, <2>2 DEF MarkProcessing
  <1>2. CASE MarkPaperProcessing(t)
    BY <1>2, <1>d DEF MarkPaperProcessing, At, ParseSteps, UpdatePaperStatus, PastDriving
  <1>3. CASE ParsePDF(t)
    <2>1. CASE UNCHANGED tables /\ Goto(t, "saveMetadata")
      BY <1>3, <2>1, <1>d DEF ParsePDF, At, ParseSteps, tables, PastDriving
    <2>2. CASE Refused(t)
      BY <1>3, <2>2, <1>c DEF ParsePDF, At, ParseSteps, ParseError
    <2>3. QED
      BY <1>3, <2>1, <2>2 DEF ParsePDF
  <1>4. CASE SaveMetadata(t)
    <2>1. CASE UpdatePaperStatus(q, "parsed") /\ Goto(t, "deleteSections")
      BY <1>4, <2>1, <1>d DEF SaveMetadata, At, ParseSteps, UpdatePaperStatus, PastDriving
    <2>2. CASE Refused(t)
      BY <1>4, <2>2, <1>c DEF SaveMetadata, At, ParseSteps, ParseError
    <2>3. QED
      BY <1>4, <2>1, <2>2 DEF SaveMetadata
  <1>5. CASE ReplaceSections(t)
    BY <1>5, <1>e DEF ReplaceSections, At, ParseSteps, DeleteSections, PastDriving
  <1>6. CASE InsertSection(t)
    <2>1. CASE /\ CreateSection(q, task[t].next)
               /\ LoopFrom(t, task[t].next, NumSections, "createSections", "deleteReferences")
      BY <1>6, <2>1, <1>e DEF InsertSection, At, ParseSteps, CreateSection, PastDriving
    <2>2. CASE Refused(t)
      BY <1>6, <2>2, <1>c DEF InsertSection, At, ParseSteps, ParseError
    <2>3. QED
      BY <1>6, <2>1, <2>2 DEF InsertSection
  <1>7. CASE ReplaceReferences(t)
    BY <1>7, <1>e DEF ReplaceReferences, At, ParseSteps, DeleteReferences, PastDriving
  <1>8. CASE InsertReference(t)
    <2>1. CASE /\ CreateReference(q, task[t].next)
               /\ LoopFrom(t, task[t].next, NumReferences, "createReferences", "markParsed")
      BY <1>8, <2>1, <1>e DEF InsertReference, At, ParseSteps, CreateReference, PastDriving
    <2>2. CASE Refused(t)
      BY <1>8, <2>2, <1>c DEF InsertReference, At, ParseSteps, ParseError
    <2>3. QED
      BY <1>8, <2>1, <2>2 DEF InsertReference
  <1>9. CASE MarkParsed(t)
    <2>1. CASE UpdateJobStatus(q, "parsed") /\ Goto(t, "enqueueRead")
      BY <1>9, <2>1, <1>d DEF MarkParsed, At, ParseSteps, UpdateJobStatus, StatusValues, PastDriving
    <2>2. CASE ~JobExists(q) /\ Refused(t)
      BY <1>9, <2>2, <1>c DEF MarkParsed, At, ParseSteps
    <2>3. QED
      BY <1>9, <2>1, <2>2 DEF MarkParsed
  <1>10. CASE EnqueueRead(t)
    <2>1. PICK u \in TaskIds : /\ Fresh(u)
                               /\ task' = [task EXCEPT ![u] = NewTask("read", q), ![t].pc = "ack"]
      BY <1>10 DEF EnqueueRead
    <2>2. u # t
      BY <1>10, <2>1 DEF EnqueueRead, Fresh, At
    <2>3. task'[u] = NewTask("read", q)
      BY <2>1, <2>2 DEF TypeOK
    <2>4. Drives(u, q)'
      BY <2>3, NewTaskDrives
    <2>5. \A v \in TaskIds \ {t} : Live(v) => task'[v] = task[v]
      BY <2>1 DEF Fresh, At, Live, TypeOK
    <2>6. jobStatus' = jobStatus
      BY <1>10 DEF EnqueueRead, tables
    <2>7. QED
      BY <2>4, <2>5, <2>6, TaskKeepsCovered
  <1>11. CASE MarkFailed(t)
    <2>1. CASE UpdateJobStatus(q, "failed") /\ Goto(t, "markPaperFailed")
      <3>1. q \in Papers
        BY <1>11, <1>a DEF MarkFailed, At, ParseSteps
      <3>2. jobStatus'[q] \in Terminal
        BY <3>1, <2>1, <1>a DEF UpdateJobStatus, SetJob, Terminal
      <3>3. QED
        BY <2>1, <3>2, <1>b, GotoOthers, TaskKeepsCovered DEF UpdateJobStatus, StatusValues
    <2>2. CASE ~JobExists(q) /\ Refused(t)
      BY <1>11, <2>2, <1>c DEF MarkFailed, At, ParseSteps
    <2>3. QED
      BY <1>11, <2>1, <2>2 DEF MarkFailed
  <1>12. CASE MarkPaperFailed(t)
    <2>1. ~Drives(t, q) /\ jobStatus' = jobStatus
      BY <1>12 DEF MarkPaperFailed, Drives, At, UpdatePaperStatus
    <2>2. QED
      BY <1>12, <2>1, GotoOthers, TaskKeepsCovered DEF MarkPaperFailed
  <1>13. QED
    BY <1>1, <1>2, <1>3, <1>4, <1>5, <1>6, <1>7, <1>8, <1>9, <1>10, <1>11, <1>12 DEF ParseStep

\* Every step of ReadPaper leaves every covered paper covered.
LEMMA ReadStepCovers ==
  ASSUME TypeOK, NEW t \in TaskIds, ReadStep(t), request' = request,
         NEW q, q = task[t].paper
  PROVE  \A p \in Papers : Covered(p) => Covered(p)'
  <1>a. /\ task[t].pc \in ReadSteps => Live(t) /\ q \in Papers
        /\ jobStatus \in [Papers -> StatusValues \cup {"none"}]
    BY TypeParts, TaskAtStep DEF TablesTypeOK, Live, ReadSteps
  <1>b. ASSUME UNCHANGED tables \/ jobStatus' = jobStatus \/ \E s \in StatusValues : SetJob(q, s)
        PROVE  \A p \in Papers : p # q => jobStatus'[p] = jobStatus[p]
    BY <1>a, <1>b DEF tables, SetJob
  <1>c. ASSUME task[t].pc \in ReadSteps, ReadRefused(t), \/ ReadError[task[t].pc] = "markReadFailed"
                                                         \/ ~JobExists(q)
        PROVE  \A p \in Papers : Covered(p) => Covered(p)'
    <2>1. ~JobExists(q) => jobStatus'[q] \in Terminal
      BY <1>c DEF ReadRefused, tables, JobExists, Terminal
    <2>2. ReadError[task[t].pc] = "markReadFailed" => Drives(t, q)'
      BY <1>c, <1>a, GotoDrives DEF ReadRefused, PastDriving
    <2>3. \A u \in TaskIds \ {t} : task'[u] = task[u]
      BY <1>c, GotoOthers DEF ReadRefused
    <2>4. \A p \in Papers : p # q => jobStatus'[p] = jobStatus[p]
      BY <1>c, <1>b DEF ReadRefused
    <2>5. QED
      BY <2>1, <2>2, <2>3, <2>4, <1>c, TaskKeepsCovered
  <1>d. ASSUME task[t].pc \in ReadSteps, jobStatus' = jobStatus \/ \E s \in StatusValues : SetJob(q, s),
               NEW s, Goto(t, s), s \notin PastDriving
        PROVE  \A p \in Papers : Covered(p) => Covered(p)'
    BY <1>a, <1>b, <1>d, GotoOthers, GotoDrives, TaskKeepsCovered
  <1>e. ASSUME task[t].pc \in ReadSteps, NEW s \in StatusValues \cap Terminal, SetJob(q, s),
               NEW step, Goto(t, step)
        PROVE  \A p \in Papers : Covered(p) => Covered(p)'
    <2>1. jobStatus'[q] \in Terminal
      BY <1>e, <1>a DEF SetJob
    <2>2. QED
      BY <1>e, <2>1, <1>b, GotoOthers, TaskKeepsCovered
  <1>1. CASE MarkReading(t)
    <2>1. CASE UpdateJobStatus(q, "reading") /\ Goto(t, "markPaperReading")
      BY <1>1, <2>1, <1>d DEF MarkReading, At, ReadSteps, UpdateJobStatus, StatusValues, PastDriving
    <2>2. CASE ~JobExists(q) /\ ReadRefused(t)
      BY <1>1, <2>2, <1>c DEF MarkReading, At, ReadSteps
    <2>3. QED
      BY <1>1, <2>1, <2>2 DEF MarkReading
  <1>2. CASE MarkPaperReading(t)
    BY <1>2, <1>d DEF MarkPaperReading, At, ReadSteps, UpdatePaperStatus, PastDriving
  <1>3. CASE CallReader(t)
    <2>1. CASE UNCHANGED tables /\ Goto(t, "deleteCards")
      BY <1>3, <2>1, <1>d DEF CallReader, At, ReadSteps, tables, PastDriving
    <2>2. CASE ReadRefused(t)
      BY <1>3, <2>2, <1>c DEF CallReader, At, ReadSteps, ReadError
    <2>3. QED
      BY <1>3, <2>1, <2>2 DEF CallReader
  <1>4. CASE ReplaceCard(t)
    BY <1>4, <1>d DEF ReplaceCard, At, ReadSteps, DeleteCards, PastDriving
  <1>5. CASE SaveCard(t)
    <2>1. CASE CreateCard(q) /\ Goto(t, "markCompleted")
      BY <1>5, <2>1, <1>d DEF SaveCard, At, ReadSteps, CreateCard, PastDriving
    <2>2. CASE CreateCard(q) /\ Goto(t, "markReadFailed")
      BY <1>5, <2>2, <1>d DEF SaveCard, At, ReadSteps, CreateCard, PastDriving
    <2>3. CASE ReadRefused(t)
      BY <1>5, <2>3, <1>c DEF SaveCard, At, ReadSteps, ReadError
    <2>4. QED
      BY <1>5, <2>1, <2>2, <2>3 DEF SaveCard
  <1>6. CASE MarkCompleted(t)
    <2>1. CASE UpdateJobStatus(q, "completed") /\ Goto(t, "markPaperCompleted")
      BY <1>6, <2>1, <1>e DEF MarkCompleted, At, ReadSteps, UpdateJobStatus, StatusValues, Terminal
    <2>2. CASE ~JobExists(q) /\ ReadRefused(t)
      BY <1>6, <2>2, <1>c DEF MarkCompleted, At, ReadSteps
    <2>3. QED
      BY <1>6, <2>1, <2>2 DEF MarkCompleted
  <1>7. CASE MarkPaperCompleted(t)
    <2>1. ~Drives(t, q) /\ jobStatus' = jobStatus
      BY <1>7 DEF MarkPaperCompleted, Drives, At, UpdatePaperStatus
    <2>2. QED
      BY <1>7, <2>1, GotoOthers, TaskKeepsCovered DEF MarkPaperCompleted
  <1>8. CASE MarkReadFailed(t)
    <2>1. CASE UpdateJobStatus(q, "failed") /\ Goto(t, "markPaperReadFailed")
      BY <1>8, <2>1, <1>e DEF MarkReadFailed, At, ReadSteps, UpdateJobStatus, StatusValues, Terminal
    <2>2. CASE ~IsFinalAttempt(t) /\ UpdateJobStatus(q, "reading") /\ Goto(t, "nack")
      <3>1. Live(t)
        BY <1>8 DEF MarkReadFailed, At, Live
      <3>2. /\ task'[t].pc = "nack" /\ task'[t].paper = q
            /\ task'[t].retried = task[t].retried /\ task'[t].kind = task[t].kind
        BY <2>2, <3>1, LiveTask DEF Goto, TypeOK, ParseTasks, ReadTasks
      <3>3. Drives(t, q)'
        BY <2>2, <3>2 DEF Drives, At, Live, RetriesSpent, IsFinalAttempt
      <3>4. \A p \in Papers : p # q => jobStatus'[p] = jobStatus[p]
        BY <2>2, <1>b DEF UpdateJobStatus, StatusValues
      <3>5. QED
        BY <2>2, <3>3, <3>4, GotoOthers, TaskKeepsCovered
    <2>3. CASE ~JobExists(q) /\ ReadRefused(t)
      BY <1>8, <2>3, <1>c DEF MarkReadFailed, At, ReadSteps
    <2>4. QED
      BY <1>8, <2>1, <2>2, <2>3 DEF MarkReadFailed
  <1>9. CASE MarkPaperReadFailed(t)
    <2>1. ~Drives(t, q) /\ jobStatus' = jobStatus
      BY <1>9 DEF MarkPaperReadFailed, Drives, At, UpdatePaperStatus
    <2>2. QED
      BY <1>9, <2>1, GotoOthers, TaskKeepsCovered DEF MarkPaperReadFailed
  <1>10. QED
    BY <1>1, <1>2, <1>3, <1>4, <1>5, <1>6, <1>7, <1>8, <1>9 DEF ReadStep

-----------------------------------------------------------------------------
(* The queue's own steps.                                                  *)

\* A task back in the queue drives its paper's job.
LEMMA WaitingDrives ==
  ASSUME TypeOK, NEW t \in TaskIds, Live(t), NEW q, q = task[t].paper,
         Redeliver(t) \/ Requeue(t)
  PROVE  /\ Drives(t, q)'
         /\ \A u \in TaskIds \ {t} : task'[u] = task[u]
  <1>1. /\ task'[t].pc = "waiting" /\ task'[t].paper = q
        /\ \A u \in TaskIds \ {t} : task'[u] = task[u]
    <2>1. CASE Redeliver(t)
      BY <2>1, LiveTask DEF Redeliver, TypeOK, ParseTasks, ReadTasks
    <2>2. CASE Requeue(t)
      BY <2>2, LiveTask DEF Requeue, TypeOK, ParseTasks, ReadTasks
    <2>3. QED
      BY <2>1, <2>2
  <1>2. QED
    BY <1>1 DEF Drives, At, Live

\* So do delivery, the handler's return, shutdowns and lost attempts: a task
\* that is archived had nothing left to drive.
LEMMA QueueStepCovers ==
  ASSUME TypeOK, ReaderConfigured, NEW t \in TaskIds,
         TakeTask(t) \/ FinishTask(t) \/ WorkerStops(t)
  PROVE  \A p \in Papers : Covered(p) => Covered(p)'
  <1> PICK q : q = task[t].paper
    OBVIOUS
  <1>a. request' = request /\ jobStatus' = jobStatus
    BY DEF TakeTask, FinishTask, WorkerStops, tables
  <1>1. CASE TakeTask(t)
    <2>1. Live(t) /\ task[t].kind \in {"process", "read"}
      BY <1>1, TypeParts, TaskAtStep DEF TakeTask, At, Live
    <2>2. FirstStep(task[t].kind) \notin PastDriving
      BY <2>1 DEF FirstStep, PastDriving
    <2>3. Goto(t, FirstStep(task[t].kind))
      BY <1>1 DEF TakeTask, Dequeue
    <2>4. Drives(t, q)' /\ \A u \in TaskIds \ {t} : task'[u] = task[u]
      BY <2>1, <2>2, <2>3, GotoDrives, GotoOthers
    <2>5. QED
      BY <2>4, <1>a, TaskKeepsCovered
  <1>2. ASSUME Redeliver(t) \/ Requeue(t), Live(t)
        PROVE  \A p \in Papers : Covered(p) => Covered(p)'
    BY <1>2, <1>a, WaitingDrives, TaskKeepsCovered
  <1>3. ASSUME Drop(t), ~Drives(t, q)
        PROVE  \A p \in Papers : Covered(p) => Covered(p)'
    <2>1. \A u \in TaskIds \ {t} : task'[u] = task[u]
      BY <1>3 DEF Drop, TypeOK
    <2>2. QED
      BY <2>1, <1>3, <1>a, TaskKeepsCovered
  <1>4. CASE FinishTask(t)
    BY <1>4, <1>2, <1>3 DEF FinishTask, Ack, Nack, Drives, At, Live
  <1>5. CASE WorkerStops(t)
    BY <1>5, <1>2 DEF WorkerStops, Requeue, LoseAttempt, Running, Live
  <1>6. QED
    BY <1>1, <1>4, <1>5

-----------------------------------------------------------------------------
(* The requests.                                                           *)

OwingSteps == {"enqueueProcess", "countSections", "enqueueRead"}

\* A request concerns one paper, and touches no other request.
LEMMA RequestMoves ==
  ASSUME TypeOK, NEW r \in Requests, request[r].step # "idle", NEW q, q = request[r].paper
  PROVE  /\ q \in Papers
         /\ \A p \in Papers : p # q => ~Owes(r, p)
         /\ request[r].step \notin OwingSteps => ~Owes(r, q)
         /\ \A s : Move(r, s) => \A x \in Requests \ {r} : request'[x] = request[x]
         /\ Reply(r) => \A x \in Requests \ {r} : request'[x] = request[x]
         /\ \A s \in OwingSteps : Move(r, s) => Owes(r, q)'
  <1>1. request[r] \in PendingRequests /\ request \in [Requests -> PendingRequests \cup {IdleRequest}]
    BY DEF TypeOK, IdleRequest
  <1>2. ASSUME NEW s \in OwingSteps, Move(r, s)
        PROVE  Owes(r, q)'
    <2>1. request'[r].step = s /\ request'[r].paper = q
      BY <1>1, <1>2 DEF Move, PendingRequests
    <2>2. QED
      BY <2>1, <1>2 DEF Owes, OwingSteps
  <1>3. QED
    BY <1>1, <1>2 DEF PendingRequests, Owes, OwingSteps, Move, Reply

\* An enqueued task drives its paper and disturbs no live task.
LEMMA EnqueueCovers ==
  ASSUME TypeOK, NEW kind, NEW q, Enqueue(kind, q)
  PROVE  /\ \E u \in TaskIds : Drives(u, q)'
         /\ \A u \in TaskIds : Live(u) => task'[u] = task[u]
  <1>1. PICK u \in TaskIds : Fresh(u) /\ task' = [task EXCEPT ![u] = NewTask(kind, q)]
    BY DEF Enqueue
  <1>2. task'[u] = NewTask(kind, q)
    BY <1>1 DEF TypeOK
  <1>3. Drives(u, q)'
    BY <1>2, NewTaskDrives
  <1>4. QED
    BY <1>1, <1>3 DEF Fresh, At, Live, TypeOK

\* Every step of a request leaves every covered paper covered: between the
\* reset of a job and the enqueueing of its task the request itself owes it.
LEMMA RequestStepCovers ==
  ASSUME TypeOK, NEW r \in Requests, RequestStep(r)
  PROVE  \A p \in Papers : Covered(p) => Covered(p)'
  <1> PICK q : q = request[r].paper
    OBVIOUS
  <1>a. request[r].step # "idle"
    BY DEF RequestStep, CreateJob, EnqueueProcessing, EnqueueReading, ClaimFailed, InferStage,
           RequeueParse, CheckSections, RequeueRead, Respond, RequestAt
  <1>b. /\ q \in Papers
        /\ \A p \in Papers : p # q => ~Owes(r, p)
        /\ request[r].step \notin OwingSteps => ~Owes(r, q)
        /\ \A s : Move(r, s) => \A x \in Requests \ {r} : request'[x] = request[x]
        /\ Reply(r) => \A x \in Requests \ {r} : request'[x] = request[x]
        /\ \A s \in OwingSteps : Move(r, s) => Owes(r, q)'
    BY <1>a, RequestMoves
  <1>c. UNCHANGED tables => jobStatus' = jobStatus
    BY DEF tables
  <1>d. \A s : SetJob(q, s) => \A p \in Papers : p # q => jobStatus'[p] = jobStatus[p]
    BY TypeParts DEF TablesTypeOK, SetJob
  \* A step that leaves the request responsible for its paper.
  <1>e. ASSUME UNCHANGED task, NEW s \in OwingSteps, Move(r, s),
               jobStatus' = jobStatus \/ SetJob(q, "queued")
        PROVE  \A p \in Papers : Covered(p) => Covered(p)'
    BY <1>e, <1>b, <1>d, RequestKeepsCovered
  \* A step of a request that is not responsible for it, and touches no job.
  <1>f. ASSUME UNCHANGED task, jobStatus' = jobStatus, request[r].step \notin OwingSteps,
               Reply(r) \/ \E s : Move(r, s)
        PROVE  \A p \in Papers : Covered(p) => Covered(p)'
    BY <1>f, <1>b, RequestKeepsCovered
  \* A step that hands the paper to a task.
  <1>g. ASSUME NEW kind, Enqueue(kind, q), Reply(r), UNCHANGED tables
        PROVE  \A p \in Papers : Covered(p) => Covered(p)'
    BY <1>g, <1>b, <1>c, EnqueueCovers, RequestKeepsCovered
  <1>1. CASE CreateJob(r)
    BY <1>1, <1>c, <1>e, <1>f DEF CreateJob, RequestAt, CreateProcessingJob, OwingSteps
  <1>2. CASE EnqueueProcessing(r)
    BY <1>2, <1>g DEF EnqueueProcessing
  <1>3. CASE EnqueueReading(r)
    BY <1>3, <1>g DEF EnqueueReading
  <1>4. CASE ClaimFailed(r)
    BY <1>4, <1>c, <1>e, <1>f DEF ClaimFailed, RequestAt, ResetFailedJob, OwingSteps
  <1>5. CASE InferStage(r)
    <2>1. jobStatus' = jobStatus /\ UNCHANGED task
      BY <1>5, <1>c DEF InferStage
    <2>2. Move(r, "enqueueRead") \/ Move(r, "enqueueProcess")
      BY <1>5 DEF InferStage
    <2>3. QED
      BY <2>1, <2>2, <1>e DEF OwingSteps
  <1>6. CASE RequeueParse(r)
    BY <1>6, <1>c, <1>e DEF RequeueParse, RequeueJob, OwingSteps
  <1>7. CASE CheckSections(r)
    <2>1. \E s : Move(r, s)
      BY <1>7 DEF CheckSections
    <2>2. QED
      BY <1>7, <2>1, <1>c, <1>f DEF CheckSections, RequestAt, OwingSteps
  <1>8. CASE RequeueRead(r)
    BY <1>8, <1>c, <1>e DEF RequeueRead, RequeueJob, OwingSteps
  <1>9. CASE Respond(r)
    BY <1>9, <1>c, <1>f DEF Respond, OwingSteps
  <1>10. QED
    BY <1>1, <1>2, <1>3, <1>4, <1>5, <1>6, <1>7, <1>8, <1>9 DEF RequestStep

\* So does every call that begins, deletion included.
LEMMA NewRequestCovers ==
  ASSUME TypeOK, NewRequest
  PROVE  \A p \in Papers : Covered(p) => Covered(p)'
  <1>1. ASSUME NEW r \in Requests, NEW q \in Papers, Arrive(r, q)
        PROVE  \A p \in Papers : Covered(p) => Covered(p)'
    <2>1. /\ RequestAt(r, "idle") /\ UNCHANGED task /\ jobStatus' = jobStatus
          /\ \A x \in Requests \ {r} : request'[x] = request[x]
      BY <1>1 DEF Arrive, Upload, Retry, Reprocess, RegenerateCard, Begin, CreatePaper, tables, TypeOK
    <2>2. \A p \in Papers : ~Owes(r, p)
      BY <2>1 DEF Owes, RequestAt
    <2>3. QED
      BY <2>1, <2>2, RequestKeepsCovered
  <1>2. ASSUME NEW q \in Papers, Delete(q)
        PROVE  \A p \in Papers : Covered(p) => Covered(p)'
    <2>1. /\ jobStatus'[q] = "none" /\ \A p \in Papers : p # q => jobStatus'[p] = jobStatus[p]
          /\ UNCHANGED <<task, request>>
      BY <1>2, TypeParts DEF Delete, DeletePaper, TablesTypeOK
    <2>2. \A p \in Papers : Driven(p) => Driven(p)'
      BY <2>1 DEF Driven, Drives, Owes, Live, At, RetriesSpent
    <2>3. \A p \in Papers : Unfinished(p)' => Unfinished(p)
      BY <2>1 DEF Unfinished, Terminal
    <2>4. QED
      BY <2>2, <2>3 DEF Covered
  <1>3. QED
    BY <1>1, <1>2 DEF NewRequest

\* So does the cleanup, which only removes jobs that are over.
LEMMA CleanupCovers ==
  ASSUME TypeOK, HandleCleanup
  PROVE  \A p \in Papers : Covered(p) => Covered(p)'
  <1>1. PICK old \in SUBSET Papers : DeleteFailedJobs(old)
    BY DEF HandleCleanup
  <1>2. UNCHANGED <<task, request>>
    BY DEF HandleCleanup
  <1>3. \A p \in Papers : Driven(p) => Driven(p)'
    BY <1>2 DEF Driven, Drives, Owes, Live, At, RetriesSpent
  <1>4. \A p \in Papers : Unfinished(p)' => Unfinished(p)
    BY <1>1 DEF DeleteFailedJobs, Unfinished, Terminal
  <1>5. QED
    BY <1>3, <1>4 DEF Covered

-----------------------------------------------------------------------------
(* What goes wrong.                                                        *)

\* A fault stops driving at most the one paper it hit.
LEMMA FaultCovers ==
  ASSUME TypeOK,
         \/ \E t \in TaskIds : HandlerFault(t) \/ LastAttemptLost(t)
         \/ \E r \in Requests : RequestFault(r)
  PROVE  \E q : \A p \in Papers : p # q /\ Covered(p) => Covered(p)'
  <1>1. ASSUME NEW t \in TaskIds, HandlerFault(t) \/ LastAttemptLost(t)
        PROVE  \E q : \A p \in Papers : p # q /\ Covered(p) => Covered(p)'
    <2>1. /\ jobStatus' = jobStatus /\ request' = request
          /\ \A u \in TaskIds \ {t} : task'[u] = task[u]
      BY <1>1 DEF HandlerFault, LastAttemptLost, LoseLastAttempt, Drop, Goto, tables, TypeOK
    <2>2. PICK q : q = task[t].paper
      OBVIOUS
    <2>3. ASSUME NEW p \in Papers, p # q, Covered(p)
          PROVE  Covered(p)'
      <3>1. ~Drives(t, p)
        BY <2>2, <2>3 DEF Drives
      <3>2. \A u \in TaskIds \ {t} : Drives(u, p) => Drives(u, p)'
        BY <2>1 DEF Drives, RetriesSpent, At, Live
      <3>3. \A r \in Requests : Owes(r, p) => Owes(r, p)'
        BY <2>1 DEF Owes
      <3>4. QED
        BY <2>1, <2>3, <3>1, <3>2, <3>3 DEF Covered, Unfinished, Driven
    <2>4. QED
      BY <2>3
  <1>2. ASSUME NEW r \in Requests, RequestFault(r)
        PROVE  \E q : \A p \in Papers : p # q /\ Covered(p) => Covered(p)'
    <2>1. request[r].step # "idle"
      BY <1>2 DEF RequestFault, RequestSteps
    <2>2. /\ jobStatus' = jobStatus /\ task' = task
          /\ \A x \in Requests \ {r} : request'[x] = request[x]
      BY <1>2 DEF RequestFault, Reply, tables, TypeOK
    <2>3. PICK q : q = request[r].paper
      OBVIOUS
    <2>4. ASSUME NEW p \in Papers, p # q, Covered(p)
          PROVE  Covered(p)'
      <3>1. ~Owes(r, p)
        BY <2>1, <2>3, <2>4, RequestMoves
      <3>2. \A u \in TaskIds : Drives(u, p) => Drives(u, p)'
        BY <2>2 DEF Drives, RetriesSpent, At, Live
      <3>3. \A x \in Requests \ {r} : Owes(x, p) => Owes(x, p)'
        BY <2>2 DEF Owes
      <3>4. QED
        BY <2>2, <2>4, <3>1, <3>2, <3>3 DEF Covered, Unfinished, Driven
    <2>5. QED
      BY <2>4
  <1>3. QED
    BY <1>1, <1>2

-----------------------------------------------------------------------------

\* The abandoned papers are finitely many, and are those not covered.
LEMMA AbandonedFinite ==
  /\ IsFiniteSet(Abandoned) /\ Cardinality(Abandoned) \in Nat
  /\ Abandoned = {p \in Papers : ~Covered(p)}
  <1>1. Abandoned \subseteq Papers
    BY DEF Abandoned
  <1>2. IsFiniteSet(Abandoned)
    BY <1>1, PapersAssumption, FS_Subset
  <1>3. QED
    BY <1>2, FS_CardinalityType DEF Abandoned, Covered

\* The inductive step of FaultsAbandonOneJobEach: a calm step abandons no
\* paper, a fault at most one.
LEMMA AbandonedStep ==
  ASSUME TypeOK, ReaderConfigured, [Next]_vars, Cardinality(Abandoned) <= faults
  PROVE  Cardinality(Abandoned)' <= faults'
  <1>a. /\ Abandoned = {p \in Papers : ~Covered(p)} /\ IsFiniteSet(Abandoned)
        /\ Abandoned' = {p \in Papers : ~Covered(p)'} /\ IsFiniteSet(Abandoned')
        /\ Cardinality(Abandoned) \in Nat /\ Cardinality(Abandoned') \in Nat
    <2>1. AbandonedFinite'
      BY AbandonedFinite, PTL
    <2>2. QED
      BY AbandonedFinite, <2>1
  <1>b. faults \in Nat
    BY FaultAssumption DEF TypeOK
  \* A step that is no fault abandons no one.
  <1>c. ASSUME \A p \in Papers : Covered(p) => Covered(p)', faults' = faults
        PROVE  Cardinality(Abandoned)' <= faults'
    <2>1. Abandoned' \subseteq Abandoned
      BY <1>c, <1>a
    <2>2. Cardinality(Abandoned') <= Cardinality(Abandoned)
      BY <2>1, <1>a, FS_Subset
    <2>3. QED
      BY <2>2, <1>a, <1>b, <1>c
  <1>1. CASE NewRequest
    BY <1>1, <1>c, NewRequestCovers DEF NewRequest, Calm
  <1>2. ASSUME NEW r \in Requests, ServeRequest(r)
        PROVE  Cardinality(Abandoned)' <= faults'
    BY <1>2, <1>c, RequestStepCovers DEF ServeRequest, Calm
  <1>3. ASSUME NEW t \in TaskIds, HandlerStep(t)
        PROVE  Cardinality(Abandoned)' <= faults'
    <2>1. PICK q : q = task[t].paper
      OBVIOUS
    <2>2. request' = request /\ faults' = faults
      BY <1>3 DEF HandlerStep, Calm
    <2>3. \A p \in Papers : Covered(p) => Covered(p)'
      BY <1>3, <2>1, <2>2, ParseStepCovers, ReadStepCovers DEF HandlerStep
    <2>4. QED
      BY <2>2, <2>3, <1>c
  <1>4. ASSUME NEW t \in TaskIds, TakeTask(t) \/ FinishTask(t) \/ WorkerStops(t)
        PROVE  Cardinality(Abandoned)' <= faults'
    <2>1. faults' = faults
      BY <1>4 DEF TakeTask, FinishTask, WorkerStops, Calm, Restart
    <2>2. QED
      BY <1>4, <2>1, <1>c, QueueStepCovers
  <1>5. CASE HandleCleanup
    BY <1>5, <1>c, CleanupCovers DEF HandleCleanup, Calm
  <1>6. CASE \/ \E t \in TaskIds : HandlerFault(t) \/ LastAttemptLost(t)
             \/ \E r \in Requests : RequestFault(r)
    <2>1. PICK q : \A p \in Papers : p # q /\ Covered(p) => Covered(p)'
      BY <1>6, FaultCovers
    <2>2. Abandoned' \subseteq Abandoned \cup {q}
      BY <2>1, <1>a
    <2>3. IsFiniteSet(Abandoned \cup {q}) /\ Cardinality(Abandoned \cup {q}) <= Cardinality(Abandoned) + 1
      <3>1. /\ IsFiniteSet(Abandoned \cup {q})
            /\ \/ Cardinality(Abandoned \cup {q}) = Cardinality(Abandoned)
               \/ Cardinality(Abandoned \cup {q}) = Cardinality(Abandoned) + 1
        BY <1>a, FS_AddElement
      <3>2. QED
        BY <3>1, <1>a
    <2>4. Cardinality(Abandoned') <= Cardinality(Abandoned \cup {q})
      BY <2>2, <2>3, FS_Subset
    <2>5. Cardinality(Abandoned \cup {q}) \in Nat
      BY <2>3, FS_CardinalityType
    <2>6. faults' = faults + 1
      BY <1>6 DEF HandlerFault, LastAttemptLost, RequestFault, Fault
    <2>7. QED
      BY <2>3, <2>4, <2>5, <2>6, <1>a, <1>b
  <1>7. CASE UNCHANGED vars
    <2>1. \A p \in Papers : Covered(p) => Covered(p)'
      BY <1>7 DEF vars, Covered, Unfinished, Driven, Drives, Owes, Live, At, RetriesSpent
    <2>2. QED
      BY <2>1, <1>7, <1>c DEF vars
  <1>8. QED
    BY <1>1, <1>2, <1>3, <1>4, <1>5, <1>6, <1>7 DEF Next, TaskStep

\* Each failing step leaves at most one job behind, whatever the numbers of
\* papers, tasks, requests, retries, faults and restarts.
THEOREM FaultsAbandonOneJobEachHolds == Spec => []FaultsAbandonOneJobEach
  <1>1. Init => FaultsAbandonOneJobEach
    <2> SUFFICES ASSUME Init
                 PROVE  Abandoned = {} /\ faults = 0
      BY FS_EmptySet DEF FaultsAbandonOneJobEach
    <2> QED
      BY DEF Init, TablesInit, Abandoned, Unfinished, Terminal
  <1>2. TypeOK /\ FaultsAbandonOneJobEach /\ [Next]_vars => FaultsAbandonOneJobEach'
    BY AbandonedStep DEF FaultsAbandonOneJobEach
  <1>3. QED
    BY <1>1, <1>2, TypeCorrect, PTL DEF Spec

\* Without a fault no job is left behind.
THEOREM NoAbandonedJobHolds == Spec => []NoAbandonedJob
  <1>1. FaultsAbandonOneJobEach => NoAbandonedJob
    <2> SUFFICES ASSUME ReaderConfigured, Cardinality(Abandoned) <= 0
                 PROVE  Abandoned = {}
      BY DEF FaultsAbandonOneJobEach, NoAbandonedJob, Abandoned
    <2>1. Cardinality(Abandoned) = 0
      BY AbandonedFinite
    <2>2. QED
      BY <2>1, AbandonedFinite, FS_EmptySet
  <1>2. QED
    BY <1>1, FaultsAbandonOneJobEachHolds, PTL
-----------------------------------------------------------------------------
(* Deletion.                                                               *)

\* Nothing of a deleted paper comes back.
THEOREM NoOrphanRowsHolds == Spec => []NoOrphanRows
  <1>1. Init => NoOrphanRows
    BY DEF Init, TablesInit, NoOrphanRows
  <1>2. ASSUME TypeOK, NoOrphanRows, [Next]_vars
        PROVE  NoOrphanRows'
    <2> USE DEF NoOrphanRows, TypeOK, TablesTypeOK
    <2>a. UNCHANGED tables => NoOrphanRows'
      BY <1>2 DEF tables
    <2>b. ASSUME NEW p \in Papers
          PROVE  /\ \A s \in StatusValues : JobExists(p) /\ SetJob(p, s) => NoOrphanRows'
                 /\ \A s \in StatusValues : PaperExists(p) /\ SetJob(p, s) => NoOrphanRows'
                 /\ \A s \in StatusValues : UpdatePaperStatus(p, s) => NoOrphanRows'
                 /\ CreatePaper(p) => NoOrphanRows'
                 /\ DeletePaper(p) => NoOrphanRows'
                 /\ DeleteSections(p) => NoOrphanRows'
                 /\ \A i : CreateSection(p, i) => NoOrphanRows'
                 /\ DeleteReferences(p) => NoOrphanRows'
                 /\ \A i : CreateReference(p, i) => NoOrphanRows'
                 /\ DeleteCards(p) => NoOrphanRows'
                 /\ CreateCard(p) => NoOrphanRows'
      <3> USE <1>2 DEF NoPaperRow, PaperExists, JobExists, StatusValues
      <3>1. \A s \in StatusValues : JobExists(p) /\ SetJob(p, s) => NoOrphanRows'
        BY DEF SetJob
      <3>2. \A s \in StatusValues : PaperExists(p) /\ SetJob(p, s) => NoOrphanRows'
        BY DEF SetJob
      <3>3. \A s \in StatusValues : UpdatePaperStatus(p, s) => NoOrphanRows'
        BY DEF UpdatePaperStatus
      <3>4. CreatePaper(p) => NoOrphanRows'
        BY DEF CreatePaper
      <3>5. DeletePaper(p) => NoOrphanRows'
        BY DEF DeletePaper
      <3>6. DeleteSections(p) => NoOrphanRows'
        BY DEF DeleteSections
      <3>7. \A i : CreateSection(p, i) => NoOrphanRows'
        BY DEF CreateSection
      <3>8. DeleteReferences(p) => NoOrphanRows'
        BY DEF DeleteReferences
      <3>9. \A i : CreateReference(p, i) => NoOrphanRows'
        BY DEF CreateReference
      <3>10. DeleteCards(p) => NoOrphanRows'
        BY DEF DeleteCards
      <3>11. CreateCard(p) => NoOrphanRows'
        BY DEF CreateCard
      <3>12. QED
        BY <3>1, <3>2, <3>3, <3>4, <3>5, <3>6, <3>7, <3>8, <3>9, <3>10, <3>11
    <2>1. ASSUME NEW t \in TaskIds, ParseStep(t)
          PROVE  NoOrphanRows'
      <3>1. task[t].paper \in Papers
        BY <2>1, <1>2, TypeParts, TaskAtStep
           DEF ParseStep, MarkProcessing, MarkPaperProcessing, ParsePDF, SaveMetadata, ReplaceSections,
               InsertSection, ReplaceReferences, InsertReference, MarkParsed, EnqueueRead, MarkFailed,
               MarkPaperFailed, At, Live
      <3>2. {"processing", "parsed", "failed"} \subseteq StatusValues
        BY DEF StatusValues
      <3>3. CASE UNCHANGED tables
        BY <3>3, <2>a
      <3>4. CASE ~UNCHANGED tables
        <4>1. CASE MarkProcessing(t) \/ MarkParsed(t) \/ MarkFailed(t)
          BY <4>1, <3>1, <3>2, <3>4, <2>b DEF MarkProcessing, MarkParsed, MarkFailed, Refused, UpdateJobStatus
        <4>2. CASE MarkPaperProcessing(t) \/ SaveMetadata(t) \/ MarkPaperFailed(t)
          BY <4>2, <3>1, <3>2, <3>4, <2>b DEF MarkPaperProcessing, SaveMetadata, MarkPaperFailed, Refused
        <4>3. CASE ReplaceSections(t) \/ InsertSection(t)
          BY <4>3, <3>1, <3>4, <2>b DEF ReplaceSections, InsertSection, Refused
        <4>4. CASE ReplaceReferences(t) \/ InsertReference(t)
          BY <4>4, <3>1, <3>4, <2>b DEF ReplaceReferences, InsertReference, Refused
        <4>5. CASE ParsePDF(t) \/ EnqueueRead(t)
          BY <4>5, <3>4 DEF ParsePDF, EnqueueRead, Refused
        <4>6. QED
          BY <2>1, <4>1, <4>2, <4>3, <4>4, <4>5 DEF ParseStep
      <3>5. QED
        BY <3>3, <3>4
    <2>2. ASSUME NEW t \in TaskIds, ReadStep(t)
          PROVE  NoOrphanRows'
      <3>1. task[t].paper \in Papers
        BY <2>2, <1>2, TypeParts, TaskAtStep
           DEF ReadStep, MarkReading, MarkPaperReading, CallReader, ReplaceCard, SaveCard, MarkCompleted,
               MarkPaperCompleted, MarkReadFailed, MarkPaperReadFailed, At, Live
      <3>2. {"reading", "completed", "failed"} \subseteq StatusValues
        BY DEF StatusValues
      <3>3. CASE MarkReading(t) \/ MarkCompleted(t) \/ MarkReadFailed(t)
        BY <3>3, <3>1, <3>2, <2>a, <2>b DEF MarkReading, MarkCompleted, MarkReadFailed, ReadRefused, UpdateJobStatus
      <3>4. CASE MarkPaperReading(t) \/ MarkPaperCompleted(t) \/ MarkPaperReadFailed(t)
        BY <3>4, <3>1, <3>2, <2>b DEF MarkPaperReading, MarkPaperCompleted, MarkPaperReadFailed
      <3>5. CASE CallReader(t) \/ ReplaceCard(t) \/ SaveCard(t)
        BY <3>5, <3>1, <2>a, <2>b DEF CallReader, ReplaceCard, SaveCard, ReadRefused
      <3>6. QED
        BY <2>2, <3>3, <3>4, <3>5 DEF ReadStep
    <2>3. ASSUME NEW r \in Requests, RequestStep(r)
          PROVE  NoOrphanRows'
      <3>1. request[r].step # "idle" => request[r].paper \in Papers
        BY <1>2, RequestMoves
      <3>2. "queued" \in StatusValues
        BY DEF StatusValues
      <3>3. CASE CreateJob(r)
        BY <3>3, <3>1, <3>2, <2>a, <2>b DEF CreateJob, RequestAt, CreateProcessingJob
      <3>4. CASE ClaimFailed(r)
        BY <3>4, <3>1, <3>2, <2>a, <2>b DEF ClaimFailed, RequestAt, ResetFailedJob, JobExists
      <3>5. CASE RequeueParse(r) \/ RequeueRead(r)
        BY <3>5, <3>1, <3>2, <2>a, <2>b DEF RequeueParse, RequeueRead, RequestAt, RequeueJob
      <3>6. CASE EnqueueProcessing(r) \/ EnqueueReading(r) \/ InferStage(r) \/ CheckSections(r) \/ Respond(r)
        BY <3>6, <2>a DEF EnqueueProcessing, EnqueueReading, InferStage, CheckSections, Respond
      <3>7. QED
        BY <2>3, <3>3, <3>4, <3>5, <3>6 DEF RequestStep
    <2>4. CASE NewRequest
      <3>1. ASSUME NEW r \in Requests, NEW p \in Papers, Arrive(r, p)
            PROVE  NoOrphanRows'
        BY <3>1, <2>a, <2>b DEF Arrive, Upload, Retry, Reprocess, RegenerateCard
      <3>2. ASSUME NEW p \in Papers, Delete(p)
            PROVE  NoOrphanRows'
        BY <3>2, <2>b DEF Delete
      <3>3. QED
        BY <2>4, <3>1, <3>2 DEF NewRequest
    <2>5. CASE HandleCleanup
      BY <2>5, <1>2 DEF HandleCleanup, DeleteFailedJobs
    <2>6. ASSUME UNCHANGED tables
          PROVE  NoOrphanRows'
      BY <2>6, <2>a
    <2>7. QED
      <3>1. \/ UNCHANGED tables \/ NewRequest \/ HandleCleanup
            \/ \E r \in Requests : RequestStep(r)
            \/ \E t \in TaskIds : ParseStep(t) \/ ReadStep(t)
        BY <1>2 DEF Next, vars, tables, TaskStep, TakeTask, HandlerStep, FinishTask, ServeRequest,
                    HandlerFault, RequestFault, WorkerStops, LastAttemptLost
      <3>2. QED
        BY <3>1, <2>1, <2>2, <2>3, <2>4, <2>5, <2>6
  <1>3. QED
    BY <1>1, <1>2, TypeCorrect, PTL DEF Spec
-----------------------------------------------------------------------------
(* A failure is answered once: what is not yet answered are the failures    *)
(* the jobs show, and those a retry has claimed without having acted on it. *)

Claims(p) == {r \in Requests : RequestAt(r, "countSections") /\ request[r].paper = p}

RetryResets(p) == \E r \in Requests : Moves(r, p, "resetFailed", {"countSections"})

HistoryInv ==
  /\ unanswered \in [Papers -> Int]
  /\ \A p \in Papers :
       /\ IsFiniteSet(Claims(p))
       /\ unanswered[p] >= Cardinality(Claims(p)) + Count(jobStatus[p] = "failed")
       /\ faults = 0 => unanswered[p] = Cardinality(Claims(p)) + Count(jobStatus[p] = "failed")

\* A step of one request leaves the other requests where they are.
LEMMA OneRequestMoves ==
  ASSUME TypeOK, NEW s \in Requests, NEW p \in Papers,
         \A r \in Requests \ {s} : request'[r] = request[r]
  PROVE  /\ ~ RequestAt(s, "countSections") /\ ~ RequestAt(s, "countSections")' =>
              Claims(p)' = Claims(p) /\ ~ RetryResumes(p) /\ ~ RetryResets(p)
         /\ RequestAt(s, "countSections") /\ request[s].paper # p /\ request'[s].step # "countSections" =>
              Claims(p)' = Claims(p) /\ ~ RetryResumes(p) /\ ~ RetryResets(p)
         /\ RequestAt(s, "countSections") /\ request[s].paper = p /\ request'[s].step # "countSections" =>
              /\ s \in Claims(p) /\ Claims(p)' = Claims(p) \ {s} /\ ~ RetryResets(p)
              /\ RetryResumes(p) <=> request'[s].step \in {"enqueueRead", "enqueueProcess"}
         /\ RequestAt(s, "resetFailed") /\ RequestAt(s, "countSections")' /\ request'[s].paper = request[s].paper =>
              /\ ~ RetryResumes(p)
              /\ request[s].paper # p => Claims(p)' = Claims(p) /\ ~ RetryResets(p)
              /\ request[s].paper = p => s \notin Claims(p) /\ Claims(p)' = Claims(p) \cup {s} /\ RetryResets(p)
  BY DEF Claims, RequestAt, RetryResumes, RetryResets, Moves

\* Three kinds of steps: a retry claims a failure, a retry is done with its claim,
\* and all the others.
Aside(p) == Claims(p)' = Claims(p) /\ ~ RetryResumes(p) /\ ~ RetryResets(p) /\ (faults' = 0 => faults = 0)

ClaimMade(p) ==
  /\ \E s \in Requests : s \notin Claims(p) /\ Claims(p)' = Claims(p) \cup {s}
  /\ jobStatus[p] = "failed" /\ jobStatus'[p] = "queued"
  /\ RetryResets(p) /\ ~ RetryResumes(p) /\ faults' = faults

ClaimOver(p) ==
  /\ \E s \in Claims(p) : Claims(p)' = Claims(p) \ {s}
  /\ jobStatus' = jobStatus /\ ~ RetryResets(p)
  /\ (RetryResumes(p) /\ faults' = faults) \/ (~ RetryResumes(p) /\ faults' # 0)

LEMMA ClaimSteps ==
  ASSUME TypeOK, Next, NEW p \in Papers
  PROVE  Aside(p) \/ ClaimMade(p) \/ ClaimOver(p)
  <1>f. (Calm \/ Fault \/ Restart) => (faults' = 0 => faults = 0)
    BY DEF Calm, Fault, Restart, TypeOK
  <1>1. CASE request' = request
    <2>1. Claims(p)' = Claims(p) /\ ~ RetryResumes(p) /\ ~ RetryResets(p)
      BY <1>1 DEF Claims, RequestAt, RetryResumes, RetryResets, Moves
    <2>2. Calm \/ Fault \/ Restart
      BY DEF Next, NewRequest, ServeRequest, RequestFault, TaskStep, TakeTask, HandlerStep, FinishTask,
             HandlerFault, WorkerStops, LastAttemptLost, HandleCleanup
    <2>3. QED
      BY <1>f, <2>1, <2>2 DEF Aside
  <1>2. ASSUME NEW r \in Requests, NEW q \in Papers, Arrive(r, q), Calm
        PROVE  Aside(p)
    <2>1. PICK step \in RequestSteps \ {"countSections"} : \E op \in Operations : Begin(r, op, q, step)
      BY <1>2 DEF Arrive, Upload, Retry, Reprocess, RegenerateCard, RequestSteps, Begin
    <2>2. /\ ~ RequestAt(r, "countSections") /\ ~ RequestAt(r, "countSections")'
          /\ \A s \in Requests \ {r} : request'[s] = request[s]
      BY <2>1 DEF Begin, RequestAt, TypeOK
    <2>3. QED
      BY <1>f, <1>2, <2>2, OneRequestMoves DEF Aside
  <1>3. ASSUME NEW s \in Requests, ServeRequest(s)
        PROVE  Aside(p) \/ ClaimMade(p) \/ ClaimOver(p)
    <2>1. request[s].step # "idle" /\ faults' = faults
      BY <1>3 DEF ServeRequest, Calm, RequestStep, CreateJob, EnqueueProcessing, EnqueueReading, ClaimFailed,
                  InferStage, RequeueParse, CheckSections, RequeueRead, Respond, RequestAt
    <2>2. request[s] \in PendingRequests /\ request \in [Requests -> PendingRequests \cup {IdleRequest}]
      BY <2>1 DEF TypeOK, IdleRequest
    <2>3. ASSUME NEW step, Move(s, step)
          PROVE  /\ request'[s].step = step /\ request'[s].paper = request[s].paper
                 /\ \A r \in Requests \ {s} : request'[r] = request[r]
      BY <2>2, <2>3 DEF Move, PendingRequests
    <2>4. ASSUME Reply(s)
          PROVE  /\ request'[s].step = "idle"
                 /\ \A r \in Requests \ {s} : request'[r] = request[r]
      BY <2>2, <2>4 DEF Reply, IdleRequest
    <2>5. CASE ClaimFailed(s)
      <3>1. CASE ResetFailedJob(request[s].paper) /\ Move(s, "countSections")
        <4>1. /\ RequestAt(s, "resetFailed") /\ RequestAt(s, "countSections")'
              /\ request'[s].paper = request[s].paper /\ \A r \in Requests \ {s} : request'[r] = request[r]
          BY <2>3, <2>5, <3>1 DEF ClaimFailed, RequestAt
        <4>2. CASE request[s].paper = p
          <5>1. jobStatus[p] = "failed" /\ jobStatus'[p] = "queued"
            BY <3>1, <4>2 DEF ResetFailedJob, SetJob, TypeOK, TablesTypeOK
          <5>2. QED
            BY <2>1, <4>1, <4>2, <5>1, OneRequestMoves DEF ClaimMade
        <4>3. CASE request[s].paper # p
          BY <2>1, <4>1, <4>3, OneRequestMoves DEF Aside
        <4>4. QED
          BY <4>2, <4>3
      <3>2. CASE Move(s, "conflict")
        <4>1. /\ ~ RequestAt(s, "countSections") /\ ~ RequestAt(s, "countSections")'
              /\ \A r \in Requests \ {s} : request'[r] = request[r]
          BY <2>3, <2>5, <3>2 DEF ClaimFailed, RequestAt
        <4>2. QED
          BY <2>1, <4>1, OneRequestMoves DEF Aside
      <3>3. QED
        BY <2>5, <3>1, <3>2 DEF ClaimFailed
    <2>6. CASE InferStage(s)
      <3>1. /\ RequestAt(s, "countSections") /\ request'[s].step \in {"enqueueRead", "enqueueProcess"}
            /\ \A r \in Requests \ {s} : request'[r] = request[r]
        BY <2>3, <2>6 DEF InferStage
      <3>2. jobStatus' = jobStatus
        BY <2>6 DEF InferStage, tables
      <3>3. CASE request[s].paper = p
        BY <2>1, <3>1, <3>2, <3>3, OneRequestMoves DEF ClaimOver
      <3>4. CASE request[s].paper # p
        BY <2>1, <3>1, <3>4, OneRequestMoves DEF Aside
      <3>5. QED
        BY <3>3, <3>4
    <2>7. CASE ~ ClaimFailed(s) /\ ~ InferStage(s)
      <3>1. /\ ~ RequestAt(s, "countSections")
            /\ Reply(s) \/ \E step : Move(s, step) /\ step # "countSections"
        BY <1>3, <2>7 DEF ServeRequest, RequestStep, CreateJob, EnqueueProcessing, EnqueueReading,
                          RequeueParse, CheckSections, RequeueRead, Respond, RequestAt
      <3>2. ~ RequestAt(s, "countSections")' /\ \A r \in Requests \ {s} : request'[r] = request[r]
        BY <2>3, <2>4, <3>1 DEF RequestAt
      <3>3. QED
        BY <2>1, <3>1, <3>2, OneRequestMoves DEF Aside
    <2>8. QED
      BY <2>5, <2>6, <2>7
  <1>4. ASSUME NEW s \in Requests, RequestFault(s)
        PROVE  Aside(p) \/ ClaimOver(p)
    <2>1. Reply(s) /\ UNCHANGED tables /\ Fault
      BY <1>4 DEF RequestFault
    <2>2. request'[s].step = "idle" /\ \A r \in Requests \ {s} : request'[r] = request[r]
      BY <2>1 DEF Reply, IdleRequest, TypeOK
    <2>3. faults' # 0 /\ jobStatus' = jobStatus
      BY <2>1 DEF Fault, TypeOK, tables
    <2>4. ~ RequestAt(s, "countSections")' /\ request'[s].step \notin {"enqueueRead", "enqueueProcess"}
      BY <2>2 DEF RequestAt
    <2>5. CASE ~ RequestAt(s, "countSections")
      BY <2>2, <2>3, <2>4, <2>5, OneRequestMoves DEF Aside
    <2>6. CASE RequestAt(s, "countSections") /\ request[s].paper # p
      BY <2>2, <2>3, <2>6, OneRequestMoves DEF Aside
    <2>7. CASE RequestAt(s, "countSections") /\ request[s].paper = p
      BY <2>2, <2>3, <2>4, <2>7, OneRequestMoves DEF ClaimOver
    <2>8. QED
      BY <2>5, <2>6, <2>7
  <1>5. \/ request' = request
        \/ \E r \in Requests, q \in Papers : Arrive(r, q) /\ Calm
        \/ \E s \in Requests : ServeRequest(s) \/ RequestFault(s)
    BY DEF Next, NewRequest, Delete, TaskStep, TakeTask, HandlerStep, FinishTask, HandlerFault, WorkerStops,
           LastAttemptLost, HandleCleanup
  <1>6. QED
    BY <1>1, <1>2, <1>3, <1>4, <1>5

LEMMA HistoryStep ==
  ASSUME TypeOK, HistoryInv, [Next /\ Tally]_historyVars
  PROVE  HistoryInv'
  <1>1. CASE UNCHANGED historyVars
    BY <1>1 DEF historyVars, vars, HistoryInv, Claims, RequestAt
  <1>2. CASE Next /\ Tally
    <2>1. unanswered' \in [Papers -> Int]
      BY <1>2 DEF Tally, HistoryInv, Count
    <2>2. ASSUME NEW p \in Papers
          PROVE  /\ IsFiniteSet(Claims(p)')
                 /\ unanswered'[p] >= Cardinality(Claims(p)') + Count(jobStatus'[p] = "failed")
                 /\ faults' = 0 => unanswered'[p] = Cardinality(Claims(p)') + Count(jobStatus'[p] = "failed")
      <3> DEFINE c == Cardinality(Claims(p))
      <3>1. /\ IsFiniteSet(Claims(p)) /\ c \in Nat /\ unanswered[p] \in Int
            /\ unanswered[p] >= c + Count(jobStatus[p] = "failed")
            /\ faults = 0 => unanswered[p] = c + Count(jobStatus[p] = "failed")
        BY FS_CardinalityType DEF HistoryInv
      <3>2. unanswered'[p] = unanswered[p] + Count(JobFails(p)) - Count(RetryResumes(p)) - Count(Overwritten(p))
        BY <1>2 DEF Tally
      <3>3. Overwritten(p) <=> jobStatus[p] = "failed" /\ jobStatus'[p] # "failed" /\ ~ RetryResets(p)
        BY DEF Overwritten, RetryResets
      <3>4. CASE Aside(p)
        BY <3>1, <3>2, <3>3, <3>4 DEF Aside, Count, JobFails
      <3>5. CASE ClaimMade(p)
        <4>1. PICK s \in Requests : s \notin Claims(p) /\ Claims(p)' = Claims(p) \cup {s}
          BY <3>5 DEF ClaimMade
        <4>2. IsFiniteSet(Claims(p)') /\ Cardinality(Claims(p)') = c + 1
          BY <3>1, <4>1, FS_AddElement
        <4>3. QED
          BY <3>1, <3>2, <3>3, <3>5, <4>2 DEF ClaimMade, Count, JobFails
      <3>6. CASE ClaimOver(p)
        <4>1. PICK s \in Claims(p) : Claims(p)' = Claims(p) \ {s}
          BY <3>6 DEF ClaimOver
        <4>2. IsFiniteSet(Claims(p)') /\ Cardinality(Claims(p)') = c - 1
          BY <3>1, <4>1, FS_RemoveElement
        <4>3. QED
          BY <3>1, <3>2, <3>3, <3>6, <4>2 DEF ClaimOver, Count, JobFails
      <3>7. QED
        BY <1>2, <3>4, <3>5, <3>6, ClaimSteps
    <2>3. QED
      BY <2>1, <2>2 DEF HistoryInv
  <1>3. QED
    BY <1>1, <1>2

\* However retries, the other calls and the handlers interleave, a failure is answered
\* by one retry's task at most, and when all is at rest without a fault each failure
\* that no longer shows has been answered.
THEOREM OneAnswerPerFailureHolds == HistorySpec => []OneAnswerPerFailure
  <1>1. HistoryInit => Init /\ HistoryInv
    <2> SUFFICES ASSUME HistoryInit PROVE HistoryInv
      BY DEF HistoryInit
    <2>1. \A p \in Papers : Claims(p) = {}
      BY DEF HistoryInit, Init, RequestInit, Claims, RequestAt, IdleRequest
    <2>2. \A p \in Papers : jobStatus[p] = "none" /\ unanswered[p] = 0
      BY DEF HistoryInit, Init, TablesInit
    <2>3. QED
      BY <2>1, <2>2, FS_EmptySet DEF HistoryInit, HistoryInv, Count
  <1>2. [Next /\ Tally]_historyVars => [Next]_vars
    BY DEF historyVars
  <1>3. TypeOK /\ HistoryInv /\ [Next /\ Tally]_historyVars => HistoryInv'
    BY HistoryStep
  <1>4. TypeOK /\ HistoryInv => OneAnswerPerFailure
    <2> SUFFICES ASSUME TypeOK, HistoryInv, NEW p \in Papers
                 PROVE  /\ unanswered[p] >= Count(jobStatus[p] = "failed")
                        /\ faults = 0 /\ AtRest(p) => unanswered[p] = Count(jobStatus[p] = "failed")
      BY DEF OneAnswerPerFailure
    <2>1. IsFiniteSet(Claims(p)) /\ Cardinality(Claims(p)) \in Nat /\ unanswered[p] \in Int
      BY FS_CardinalityType DEF HistoryInv
    <2>2. Count(jobStatus[p] = "failed") \in Nat
      BY DEF Count
    <2>3. AtRest(p) => Claims(p) = {}
      BY DEF AtRest, Claims, RequestAt
    <2>4. AtRest(p) => Cardinality(Claims(p)) = 0
      BY <2>3, FS_EmptySet
    <2>5. QED
      BY <2>1, <2>2, <2>4 DEF HistoryInv
  <1>5. QED
    BY <1>1, <1>2, <1>3, <1>4, TypeCorrect, PTL DEF HistorySpec, Spec
-----------------------------------------------------------------------------
(***************************************************************************)
(* Second part: what a job that is over promises.  A completed one has all *)
(* its rows and a card, however parses and reads of its paper overlap; and *)
(* where tasks of a paper follow each other, papers.status agrees with the *)
(* job's and a failed read is over.                                        *)
(***************************************************************************)

(* What a step of each actor may change.                                   *)

\* Task t goes to step s; nothing else about the tasks changes that matters here.
Moved(t, s) ==
  /\ \A u \in TaskIds \ {t} : task'[u] = task[u]
  /\ task'[t].pc = s /\ task'[t].paper = task[t].paper
  /\ task'[t].kind = task[t].kind /\ task'[t].retried = task[t].retried

\* Goto moves one task.
LEMMA GotoMoves ==
  ASSUME TypeOK, NEW t \in TaskIds, Live(t), NEW s, Goto(t, s)
  PROVE  Moved(t, s)
  BY LiveTask DEF Goto, TypeOK, ParseTasks, ReadTasks, Moved

\* So does a loop, to its body or its exit.
LEMMA LoopMoves ==
  ASSUME TypeOK, NEW t \in TaskIds, Live(t), NEW i, NEW n, NEW body, NEW exit,
         LoopFrom(t, i, n, body, exit)
  PROVE  Moved(t, body) \/ Moved(t, exit)
  <1>1. CASE task' = [task EXCEPT ![t].pc = body, ![t].next = i + 1]
    BY <1>1, LiveTask DEF TypeOK, ParseTasks, ReadTasks, Moved
  <1>2. CASE task' = [task EXCEPT ![t].pc = exit, ![t].next = 0]
    BY <1>2, LiveTask DEF TypeOK, ParseTasks, ReadTasks, Moved
  <1>3. QED
    BY <1>1, <1>2 DEF LoopFrom

\* The steps of ProcessPaper that come after it has deleted the sections.
AfterSections ==
  {"createSections", "deleteReferences", "createReferences", "markParsed", "enqueueRead"}

\* A step of a handler changes rows of its own paper only, its rows and its card by
\* the statements of SaveParsedPaper and SavePaperCard, and it is at a later step
\* afterwards.
LEMMA HandlerWrites ==
  ASSUME TypeOK, NEW t \in TaskIds, ParseStep(t) \/ ReadStep(t), NEW q, q = task[t].paper
  PROVE  /\ Live(t) /\ q \in Papers
         /\ \A p \in Papers : p # q =>
              /\ paperStatus'[p] = paperStatus[p] /\ jobStatus'[p] = jobStatus[p]
              /\ sections'[p] = sections[p] /\ references'[p] = references[p] /\ card'[p] = card[p]
         /\ PaperExists(q)' <=> PaperExists(q)
         /\ paperStatus'[q] = "absent" => paperStatus[q] = "absent"
         /\ jobStatus'[q] = "completed" => jobStatus[q] = "completed" \/ At(t, "markCompleted")
         /\ sections'[q] = sections[q] \/ ReplaceSections(t) \/ InsertSection(t)
         /\ references'[q] = references[q] \/ ReplaceReferences(t) \/ InsertReference(t)
         /\ card'[q] = card[q] \/ ReplaceCard(t) \/ SaveCard(t)
  <1>a. TablesTypeOK /\ TasksTyped
    BY TypeParts
  <1>b. Live(t) /\ q \in Papers
    <2>1. Live(t)
      BY DEF ParseStep, MarkProcessing, MarkPaperProcessing, ParsePDF, SaveMetadata, ReplaceSections,
             InsertSection, ReplaceReferences, InsertReference, MarkParsed, EnqueueRead, MarkFailed,
             MarkPaperFailed, ReadStep, MarkReading, MarkPaperReading, CallReader, ReplaceCard, SaveCard,
             MarkCompleted, MarkPaperCompleted, MarkReadFailed, MarkPaperReadFailed, At, Live
    <2>2. QED
      BY <2>1, <1>a, TaskAtStep
  <1> DEFINE Others == \A p \in Papers : p # q =>
               /\ paperStatus'[p] = paperStatus[p] /\ jobStatus'[p] = jobStatus[p]
               /\ sections'[p] = sections[p] /\ references'[p] = references[p] /\ card'[p] = card[p]
             Stays == (PaperExists(q)' <=> PaperExists(q)) /\ (paperStatus'[q] = "absent" => paperStatus[q] = "absent")
             SameRows == sections' = sections /\ references' = references /\ card' = card
  <1>1. CASE UNCHANGED tables
    BY <1>1, <1>b DEF tables, PaperExists
  <1>2. ASSUME NEW status \in StatusValues, SetJob(q, status), status = "completed" => At(t, "markCompleted")
        PROVE  Others /\ Stays /\ SameRows /\ (jobStatus'[q] = "completed" => At(t, "markCompleted"))
    BY <1>2, <1>a, <1>b DEF SetJob, PaperExists, TablesTypeOK
  <1>3. ASSUME NEW status \in StatusValues, UpdatePaperStatus(q, status)
        PROVE  Others /\ Stays /\ SameRows /\ jobStatus' = jobStatus
    BY <1>3, <1>a, <1>b DEF UpdatePaperStatus, PaperExists, TablesTypeOK, StatusValues, NoPaperRow
  <1>4. CASE MarkProcessing(t) \/ MarkParsed(t) \/ MarkFailed(t) \/ MarkReading(t) \/ MarkCompleted(t) \/ MarkReadFailed(t)
    <2>1. \/ UNCHANGED tables
          \/ \E status \in StatusValues : SetJob(q, status) /\ (status = "completed" => At(t, "markCompleted"))
      BY <1>4 DEF MarkProcessing, MarkParsed, MarkFailed, MarkReading, MarkCompleted, MarkReadFailed,
                  Refused, ReadRefused, UpdateJobStatus, StatusValues
    <2>2. QED
      BY <2>1, <1>1, <1>2, <1>b
  <1>5. CASE \/ MarkPaperProcessing(t) \/ SaveMetadata(t) \/ MarkPaperFailed(t)
             \/ MarkPaperReading(t) \/ MarkPaperCompleted(t) \/ MarkPaperReadFailed(t)
    <2>1. UNCHANGED tables \/ \E status \in StatusValues : UpdatePaperStatus(q, status)
      BY <1>5 DEF MarkPaperProcessing, SaveMetadata, MarkPaperFailed, MarkPaperReading, MarkPaperCompleted,
                  MarkPaperReadFailed, Refused, StatusValues
    <2>2. QED
      BY <2>1, <1>1, <1>3, <1>b
  <1>6. CASE ReplaceSections(t) \/ InsertSection(t) \/ ReplaceReferences(t) \/ InsertReference(t)
    BY <1>6, <1>1, <1>a, <1>b DEF ReplaceSections, InsertSection, ReplaceReferences, InsertReference, DeleteSections,
       CreateSection, DeleteReferences, CreateReference, Refused, TablesTypeOK, PaperExists
  <1>7. CASE ReplaceCard(t) \/ SaveCard(t)
    BY <1>7, <1>1, <1>a, <1>b DEF ReplaceCard, SaveCard, DeleteCards, CreateCard, ReadRefused, TablesTypeOK, PaperExists
  <1>8. CASE ParsePDF(t) \/ EnqueueRead(t) \/ CallReader(t)
    BY <1>8, <1>1 DEF ParsePDF, EnqueueRead, CallReader, Refused, ReadRefused
  <1>9. QED
    BY <1>4, <1>5, <1>6, <1>7, <1>8 DEF ParseStep, ReadStep

\* It moves its own task on, and the task it may enqueue is a read of the same paper.
LEMMA HandlerMoves ==
  ASSUME TypeOK, NEW t \in TaskIds, ParseStep(t) \/ ReadStep(t), NEW q, q = task[t].paper
  PROVE  /\ \A u \in TaskIds \ {t} :
              \/ task'[u] = task[u]
              \/ ~Live(u) /\ At(t, "enqueueRead") /\ task'[u] = NewTask("read", q)
         /\ task'[t].pc # "free" /\ task'[t].paper = q /\ task'[t].kind = task[t].kind
         /\ task'[t].pc \in AfterSections => task[t].pc \in AfterSections \/ ReplaceSections(t)
         /\ task'[t].pc = "markCompleted" => CreateCard(q)
  <1> DEFINE Onwards(s) == /\ s # "free"
                           /\ s \in AfterSections => task[t].pc \in AfterSections \/ ReplaceSections(t)
                           /\ s = "markCompleted" => CreateCard(q)
             Goal == /\ \A u \in TaskIds \ {t} :
                          \/ task'[u] = task[u]
                          \/ ~Live(u) /\ At(t, "enqueueRead") /\ task'[u] = NewTask("read", q)
                     /\ task'[t].pc # "free" /\ task'[t].paper = q /\ task'[t].kind = task[t].kind
                     /\ Onwards(task'[t].pc)
  <1>a. Live(t)
    BY HandlerWrites
  <1>b. ASSUME NEW s, Moved(t, s), Onwards(s)
        PROVE  Goal
    BY <1>b DEF Moved
  <1>c. ASSUME NEW s, Goto(t, s), Onwards(s)
        PROVE  Goal
    BY <1>a, <1>b, <1>c, GotoMoves
  <1>1. CASE \/ MarkProcessing(t) \/ MarkPaperProcessing(t) \/ ParsePDF(t) \/ SaveMetadata(t)
             \/ MarkFailed(t) \/ MarkPaperFailed(t) \/ MarkParsed(t)
    <2>1. \E s \in {"markPaperProcessing", "parsePDF", "saveMetadata", "deleteSections", "markFailed",
                    "markPaperFailed", "nack", "ack", "enqueueRead"} :
            Goto(t, s) /\ (s = "enqueueRead" => At(t, "markParsed"))
      BY <1>1 DEF MarkProcessing, MarkPaperProcessing, ParsePDF, SaveMetadata, MarkFailed, MarkPaperFailed,
                  MarkParsed, Refused, ParseError, ParseSteps, At
    <2>2. QED
      BY <2>1, <1>c DEF AfterSections, At
  <1>2. CASE ReplaceSections(t)
    BY <1>2, <1>a, <1>b, LoopMoves DEF ReplaceSections
  <1>3. CASE InsertSection(t) \/ ReplaceReferences(t) \/ InsertReference(t)
    <2>1. task[t].pc \in AfterSections
      BY <1>3 DEF InsertSection, ReplaceReferences, InsertReference, AfterSections, At
    <2>2. \E s \in {"createSections", "deleteReferences", "createReferences", "markParsed", "markFailed"} :
            Moved(t, s)
      BY <1>3, <1>a, LoopMoves, GotoMoves
         DEF InsertSection, ReplaceReferences, InsertReference, Refused, ParseError, ParseSteps, At
    <2>3. QED
      BY <2>1, <2>2, <1>b
  <1>4. CASE EnqueueRead(t)
    <2>1. PICK u \in TaskIds : /\ Fresh(u)
                               /\ task' = [task EXCEPT ![u] = NewTask("read", q), ![t].pc = "ack"]
      BY <1>4 DEF EnqueueRead
    <2>2. u # t /\ ~Live(u) /\ At(t, "enqueueRead")
      BY <1>4, <1>a, <2>1 DEF EnqueueRead, Fresh, At, Live
    <2>3. task'[u] = NewTask("read", q) /\ \A v \in TaskIds \ {t, u} : task'[v] = task[v]
      BY <2>1, <2>2 DEF TypeOK
    <2>4. task'[t].pc = "ack" /\ task'[t].paper = q /\ task'[t].kind = task[t].kind
      BY <1>a, <2>1, <2>2, LiveTask DEF TypeOK, ParseTasks, ReadTasks
    <2>5. QED
      BY <2>2, <2>3, <2>4 DEF AfterSections
  <1>5. CASE ReadStep(t)
    <2>1. \E s \in {"markPaperReading", "readPaper", "deleteCards", "createCard", "markCompleted",
                    "markPaperCompleted", "markReadFailed", "markPaperReadFailed", "nack", "ack"} :
            Goto(t, s) /\ (s = "markCompleted" => CreateCard(q))
      BY <1>5 DEF ReadStep, MarkReading, MarkPaperReading, CallReader, ReplaceCard, SaveCard, MarkCompleted,
                  MarkPaperCompleted, MarkReadFailed, MarkPaperReadFailed, ReadRefused, ReadError, ReadSteps, At
    <2>2. QED
      BY <2>1, <1>c DEF AfterSections
  <1>6. QED
    BY <1>1, <1>2, <1>3, <1>4, <1>5 DEF ParseStep

\* Delivery and the end of a handler move a task that is at none of a handler's steps.
LEMMA QueueMoves ==
  ASSUME TypeOK, NEW t \in TaskIds, TakeTask(t) \/ FinishTask(t)
  PROVE  /\ task[t].pc \in {"waiting", "ack", "nack"}
         /\ UNCHANGED tables /\ request' = request
         /\ \A u \in TaskIds \ {t} : task'[u] = task[u]
         /\ \/ task'[t] = FreeTask
            \/ /\ task'[t].pc \in {"waiting", "markProcessing", "markReading", "nack"}
               /\ task'[t].paper = task[t].paper /\ task'[t].kind = task[t].kind
  <1>1. CASE TakeTask(t)
    <2>1. Live(t) /\ At(t, "waiting")
      BY <1>1 DEF TakeTask, At, Live
    <2>2. FirstStep(task[t].kind) \in {"markProcessing", "markReading", "nack"}
      BY <2>1, TypeParts, TaskAtStep DEF FirstStep
    <2>3. Moved(t, FirstStep(task[t].kind))
      BY <1>1, <2>1, GotoMoves DEF TakeTask, Dequeue
    <2>4. QED
      BY <1>1, <2>1, <2>2, <2>3 DEF TakeTask, At, Moved
  <1>2. CASE FinishTask(t)
    <2>1. Live(t) /\ task[t].pc \in {"ack", "nack"}
      BY <1>2 DEF FinishTask, Ack, Nack, At, Live
    <2>2. CASE Drop(t)
      BY <1>2, <2>1, <2>2 DEF FinishTask, Drop, TypeOK
    <2>3. CASE Redeliver(t)
      BY <1>2, <2>1, <2>3, LiveTask DEF FinishTask, Redeliver, TypeOK, ParseTasks, ReadTasks
    <2>4. QED
      BY <1>2, <2>2, <2>3 DEF FinishTask, Ack, Nack
  <1>3. QED
    BY <1>1, <1>2

\* The steps of a call that resumes at the read stage, and those of an answer.
Rereading == {"requeueRead", "enqueueRead"}
Answering == {"notFound", "conflict"}

\* A step of a request changes no rows and completes no job; it resumes at the read
\* stage only where there are sections, and enqueues for its own paper.
LEMMA RequestWrites ==
  ASSUME TypeOK, NEW r \in Requests, RequestStep(r), NEW q, q = request[r].paper
  PROVE  /\ q \in Papers
         /\ UNCHANGED <<paperStatus, sections, references, card>>
         /\ \A p \in Papers : jobStatus'[p] = "completed" => jobStatus[p] = "completed"
         /\ \A u \in TaskIds :
              \/ task'[u] = task[u]
              \/ /\ ~Live(u) /\ request[r].step \notin Answering
                 /\ \/ task'[u] = NewTask("process", q)
                    \/ task'[u] = NewTask("read", q) /\ request[r].step \in Rereading
         /\ \A x \in Requests \ {r} : request'[x] = request[x]
         /\ \/ request'[r] = IdleRequest
            \/ /\ request'[r].paper = q
               /\ request[r].step \notin Answering
               /\ request'[r].step \in Rereading => request[r].step \in Rereading \/ sections[q] # {}
  <1>a. request[r].step # "idle"
    BY DEF RequestStep, CreateJob, EnqueueProcessing, EnqueueReading, ClaimFailed, InferStage, RequeueParse,
           CheckSections, RequeueRead, Respond, RequestAt
  <1>b. /\ request[r] \in PendingRequests /\ q \in Papers
        /\ request \in [Requests -> PendingRequests \cup {IdleRequest}]
    BY <1>a, RequestMoves DEF TypeOK, IdleRequest
  <1>c. ASSUME NEW s, Move(r, s)
        PROVE  /\ \A x \in Requests \ {r} : request'[x] = request[x]
               /\ request'[r].paper = q /\ request'[r].step = s
    BY <1>b, <1>c DEF Move, PendingRequests
  <1>d. ASSUME Reply(r)
        PROVE  /\ \A x \in Requests \ {r} : request'[x] = request[x]
               /\ request'[r] = IdleRequest
    BY <1>b, <1>d DEF Reply
  <1>e. ASSUME NEW s \in StatusValues \ {"completed"}, SetJob(q, s)
        PROVE  /\ UNCHANGED <<paperStatus, sections, references, card>>
               /\ \A p \in Papers : jobStatus'[p] = "completed" => jobStatus[p] = "completed"
    BY <1>b, <1>e DEF SetJob, TypeOK, TablesTypeOK
  <1>f. "queued" \in StatusValues \ {"completed"}
    BY DEF StatusValues
  <1>g. ASSUME NEW kind, Enqueue(kind, q)
        PROVE  \A u \in TaskIds : task'[u] = task[u] \/ (~Live(u) /\ task'[u] = NewTask(kind, q))
    BY <1>g DEF Enqueue, Fresh, At, Live, TypeOK
  <1>1. CASE CreateJob(r) \/ ClaimFailed(r) \/ RequeueParse(r)
    <2>1. /\ UNCHANGED task /\ request[r].step \notin Answering
          /\ SetJob(q, "queued") \/ UNCHANGED tables
          /\ Reply(r) \/ \E s \in {"enqueueProcess", "countSections", "conflict"} : Move(r, s)
      BY <1>1 DEF CreateJob, ClaimFailed, RequeueParse, CreateProcessingJob, ResetFailedJob, RequeueJob,
                  RequestAt, Answering
    <2>2. QED
      BY <2>1, <1>b, <1>c, <1>d, <1>e, <1>f DEF tables, Rereading
  <1>2. CASE RequeueRead(r)
    <2>1. /\ UNCHANGED task /\ request[r].step = "requeueRead"
          /\ SetJob(q, "queued") \/ UNCHANGED tables
          /\ Move(r, "enqueueRead")
      BY <1>2 DEF RequeueRead, RequeueJob, RequestAt
    <2>2. QED
      BY <2>1, <1>b, <1>c, <1>e, <1>f DEF tables, Rereading, Answering
  <1>3. CASE EnqueueProcessing(r) \/ EnqueueReading(r)
    <2>1. /\ UNCHANGED tables /\ Reply(r)
          /\ \/ Enqueue("process", q) /\ request[r].step = "enqueueProcess"
             \/ Enqueue("read", q) /\ request[r].step = "enqueueRead"
      BY <1>3 DEF EnqueueProcessing, EnqueueReading, RequestAt
    <2>2. QED
      BY <2>1, <1>b, <1>d, <1>g DEF tables, Rereading, Answering
  <1>4. CASE InferStage(r) \/ CheckSections(r)
    <2>1. /\ UNCHANGED <<tables, task>> /\ request[r].step \notin Answering
          /\ \E s \in RequestSteps : Move(r, s) /\ (s \in Rereading => sections[q] # {})
      BY <1>4 DEF InferStage, CheckSections, RequestAt, Answering, RequestSteps, Rereading
    <2>2. QED
      BY <2>1, <1>b, <1>c DEF tables
  <1>5. CASE Respond(r)
    BY <1>5, <1>b, <1>d DEF Respond, tables
  <1>6. QED
    BY <1>1, <1>2, <1>3, <1>4, <1>5 DEF RequestStep

\* A call that begins changes nothing but the row of a new paper.
LEMMA ArriveWrites ==
  ASSUME TypeOK, NoOrphanRows, NEW r \in Requests, NEW q \in Papers, Arrive(r, q)
  PROVE  /\ UNCHANGED <<jobStatus, sections, references, card, task>>
         /\ \A p \in Papers : paperStatus'[p] = paperStatus[p] \/ (paperStatus[p] = "absent" /\ paperStatus'[p] = "queued")
         /\ RequestAt(r, "idle") /\ \A x \in Requests \ {r} : request'[x] = request[x]
         /\ request'[r].paper = q /\ request'[r].step \notin Rereading
         /\ request'[r].step \notin Answering => paperStatus'[q] # "absent"
  <1>a. ASSUME NEW op, NEW step, Begin(r, op, q, step)
        PROVE  /\ RequestAt(r, "idle") /\ \A x \in Requests \ {r} : request'[x] = request[x]
               /\ request'[r].paper = q /\ request'[r].step = step
    BY <1>a DEF Begin, TypeOK
  <1>b. JobExists(q) => paperStatus[q] # "absent"
    BY DEF NoOrphanRows, NoPaperRow, JobExists
  <1>1. CASE Upload(r, q)
    BY <1>1, <1>a DEF Upload, CreatePaper, TypeOK, TablesTypeOK, Rereading
  <1>2. CASE Retry(r, q) \/ Reprocess(r, q) \/ RegenerateCard(r, q)
    <2> DEFINE Starts(step) == step \notin Rereading /\ (step \notin Answering => JobExists(q))
    <2>1. /\ UNCHANGED <<tables, task>>
          /\ \E op, step : Begin(r, op, q, step) /\ Starts(step)
      <3>1. /\ Starts("notFound") /\ Starts("conflict")
            /\ JobExists(q) => Starts("resetFailed") /\ Starts("requeueParse") /\ Starts("checkSections")
        BY DEF Rereading, Answering
      <3> HIDE DEF Starts
      <3>2. CASE Retry(r, q)
        <4>1. CASE ~JobExists(q)
          <5>1. Begin(r, "retry", q, "notFound") /\ UNCHANGED <<tables, task>>
            BY <3>2, <4>1 DEF Retry, JobExists
          <5>2. QED
            BY <3>1, <5>1
        <4>2. CASE JobExists(q) /\ jobStatus[q] = "failed"
          BY <3>1, <3>2, <4>2 DEF Retry
        <4>3. CASE JobExists(q) /\ jobStatus[q] # "failed"
          BY <3>1, <3>2, <4>3 DEF Retry
        <4>4. QED
          BY <4>1, <4>2, <4>3
      <3>3. CASE Reprocess(r, q)
        BY <3>1, <3>3 DEF Reprocess
      <3>4. CASE RegenerateCard(r, q)
        BY <3>1, <3>4 DEF RegenerateCard
      <3>5. QED
        BY <1>2, <3>2, <3>3, <3>4
    <2>2. PICK op, step : Begin(r, op, q, step) /\ Starts(step)
      BY <2>1
    <2>3. /\ RequestAt(r, "idle") /\ \A x \in Requests \ {r} : request'[x] = request[x]
          /\ request'[r].paper = q /\ request'[r].step = step
      BY <2>2, <1>a
    <2>4. QED
      BY <2>1, <2>2, <2>3, <1>b DEF tables
  <1>3. QED
    BY <1>1, <1>2 DEF Arrive

\* A deletion empties the rows of its paper, and leaves the others alone.
LEMMA DeleteWrites ==
  ASSUME TypeOK, NEW q \in Papers, Delete(q)
  PROVE  /\ UNCHANGED <<task, request>>
         /\ ~PaperExists(q)' /\ paperStatus'[q] # "absent" /\ jobStatus'[q] = "none"
         /\ \A p \in Papers : p # q =>
              /\ paperStatus'[p] = paperStatus[p] /\ jobStatus'[p] = jobStatus[p]
              /\ sections'[p] = sections[p] /\ references'[p] = references[p] /\ card'[p] = card[p]
  BY DEF Delete, DeletePaper, TypeOK, TablesTypeOK, PaperExists, NoPaperRow

-----------------------------------------------------------------------------
(* The rows of a completed job.                                            *)

\* Without a fault or restart, nothing ends a handler between two of its steps.
Undisturbed == faults = 0 /\ restarts = 0

LEMMA CalmSteps ==
  ASSUME TypeOK, Next, Undisturbed'
  PROVE  /\ Undisturbed
         /\ \/ \E r \in Requests, p \in Papers : Arrive(r, p)
            \/ \E p \in Papers : Delete(p)
            \/ \E r \in Requests : RequestStep(r)
            \/ \E t \in TaskIds : TakeTask(t) \/ FinishTask(t)
            \/ \E t \in TaskIds : (ParseStep(t) \/ ReadStep(t)) /\ request' = request
            \/ HandleCleanup
  <1>1. faults \in Nat /\ restarts \in Nat
    BY FaultAssumption DEF TypeOK
  <1>2. ~Fault /\ ~Restart
    BY <1>1 DEF Fault, Restart, Undisturbed
  <1>3. \/ \E r \in Requests, p \in Papers : Arrive(r, p)
        \/ \E p \in Papers : Delete(p)
        \/ \E r \in Requests : RequestStep(r)
        \/ \E t \in TaskIds : TakeTask(t) \/ FinishTask(t)
        \/ \E t \in TaskIds : (ParseStep(t) \/ ReadStep(t)) /\ request' = request
        \/ HandleCleanup
    BY <1>2 DEF Next, NewRequest, ServeRequest, TaskStep, HandlerStep, HandlerFault, RequestFault, WorkerStops,
                LastAttemptLost
  <1>4. Undisturbed
    BY <1>1, <1>2 DEF Next, NewRequest, ServeRequest, TaskStep, TakeTask, HandlerStep, FinishTask, HandleCleanup,
                 HandlerFault, RequestFault, WorkerStops, LastAttemptLost, Calm, Undisturbed
  <1>5. QED
    BY <1>3, <1>4

Handling(t, p) == Live(t) /\ task[t].paper = p

\* No task or call is about a paper that has had no row yet.
UnbornIdle ==
  \A p \in Papers : paperStatus[p] = "absent" =>
    /\ \A t \in TaskIds : ~Handling(t, p)
    /\ \A r \in Requests :
         request[r] # IdleRequest /\ request[r].step \notin Answering => request[r].paper # p

LEMMA UnbornIdleHolds == Spec => []UnbornIdle
  <1>1. Init => UnbornIdle
    BY DEF Init, TaskInit, RequestInit, UnbornIdle, Handling, Live, FreeTask
  <1>2. ASSUME TypeOK, NoOrphanRows, UnbornIdle, [Next]_vars
        PROVE  UnbornIdle'
    <2> SUFFICES ASSUME NEW p \in Papers, paperStatus'[p] = "absent"
                 PROVE  /\ \A t \in TaskIds : ~Handling(t, p)'
                        /\ \A r \in Requests :
                             request'[r] # IdleRequest /\ request'[r].step \notin Answering => request'[r].paper # p
      BY DEF UnbornIdle
    <2> USE <1>2 DEF Handling, Live
    <2>a. ASSUME paperStatus[p] = "absent"
          PROVE  /\ \A t \in TaskIds : Live(t) => task[t].paper # p
                 /\ \A r \in Requests :
                      request[r] # IdleRequest /\ request[r].step \notin Answering => request[r].paper # p
      BY <2>a DEF UnbornIdle
    <2>1. ASSUME NEW q \in Papers, NEW r \in Requests, Arrive(r, q)
          PROVE  /\ \A t \in TaskIds : ~Handling(t, p)'
                 /\ \A x \in Requests :
                      request'[x] # IdleRequest /\ request'[x].step \notin Answering => request'[x].paper # p
      BY <2>1, <2>a, ArriveWrites
    <2>2. ASSUME NEW q \in Papers, Delete(q)
          PROVE  /\ \A t \in TaskIds : ~Handling(t, p)'
                 /\ \A x \in Requests :
                      request'[x] # IdleRequest /\ request'[x].step \notin Answering => request'[x].paper # p
      BY <2>2, <2>a, DeleteWrites
    <2>3. ASSUME NEW r \in Requests, RequestStep(r)
          PROVE  /\ \A t \in TaskIds : ~Handling(t, p)'
                 /\ \A x \in Requests :
                      request'[x] # IdleRequest /\ request'[x].step \notin Answering => request'[x].paper # p
      <3>1. PICK q : q = request[r].paper
        OBVIOUS
      <3>2. request[r] # IdleRequest
        BY <2>3 DEF RequestStep, CreateJob, EnqueueProcessing, EnqueueReading, ClaimFailed, InferStage, RequeueParse,
           CheckSections, RequeueRead, Respond, RequestAt, IdleRequest
      <3>3. paperStatus[p] = "absent"
        BY <2>3, <3>1, RequestWrites
      <3>4. request[r].step \notin Answering => q # p
        BY <3>1, <3>2, <3>3, <2>a
      <3>5. ASSUME NEW t \in TaskIds
            PROVE  ~Handling(t, p)'
        <4>1. \/ task'[t] = task[t]
              \/ task'[t].paper = q /\ request[r].step \notin Answering
          <5>1. NewTask("process", q).paper = q /\ NewTask("read", q).paper = q
            BY DEF NewTask
          <5>2. QED
            BY <2>3, <3>1, <5>1, RequestWrites
        <4>2. QED
          BY <4>1, <3>3, <3>4, <2>a
      <3>6. ASSUME NEW x \in Requests, request'[x] # IdleRequest, request'[x].step \notin Answering
            PROVE  request'[x].paper # p
        <4>1. \/ request'[x] = request[x]
              \/ request'[x].paper = q /\ request[r].step \notin Answering
          BY <2>3, <3>1, <3>6, RequestWrites
        <4>2. QED
          BY <4>1, <3>3, <3>4, <3>6, <2>a
      <3>7. QED
        BY <3>5, <3>6
    <2>4. ASSUME NEW t \in TaskIds, TakeTask(t) \/ FinishTask(t) \/ HandlerFault(t) \/ WorkerStops(t) \/ LastAttemptLost(t)
          PROVE  /\ \A u \in TaskIds : ~Handling(u, p)'
                 /\ \A x \in Requests :
                      request'[x] # IdleRequest /\ request'[x].step \notin Answering => request'[x].paper # p
      <3>1. UNCHANGED tables /\ request' = request
        BY <2>4 DEF TakeTask, FinishTask, HandlerFault, WorkerStops, LastAttemptLost
      <3>2. \A u \in TaskIds : Live(u)' => Live(u) /\ task'[u].paper = task[u].paper
        BY <2>4, LiveTask
           DEF TakeTask, Dequeue, FinishTask, Ack, Nack, HandlerFault, WorkerStops, LastAttemptLost, Requeue,
               LoseAttempt, LoseLastAttempt, Redeliver, Drop, FreeTask, Goto, TypeOK, ParseTasks, ReadTasks, At,
               Running, ParseSteps, ReadSteps
      <3>3. QED
        BY <3>1, <3>2, <2>a DEF tables
    <2>5. ASSUME NEW t \in TaskIds, HandlerStep(t)
          PROVE  /\ \A u \in TaskIds : ~Handling(u, p)'
                 /\ \A x \in Requests :
                      request'[x] # IdleRequest /\ request'[x].step \notin Answering => request'[x].paper # p
      <3>1. PICK q : q = task[t].paper
        OBVIOUS
      <3>2. ParseStep(t) \/ ReadStep(t)
        BY <2>5 DEF HandlerStep
      <3>3. paperStatus[p] = "absent" /\ Live(t)
        BY <3>1, <3>2, HandlerWrites
      <3>4. q # p /\ request' = request
        BY <3>1, <3>3, <2>a, <2>5 DEF HandlerStep
      <3>5. ASSUME NEW u \in TaskIds
            PROVE  task'[u] = task[u] \/ task'[u].paper = q
        <4>1. NewTask("read", q).paper = q
          BY DEF NewTask
        <4>2. QED
          BY <3>1, <3>2, <4>1, HandlerMoves
      <3>6. QED
        BY <3>3, <3>4, <3>5, <2>a
    <2>6. CASE HandleCleanup \/ UNCHANGED vars
      BY <2>6, <2>a DEF HandleCleanup, DeleteFailedJobs, vars
    <2>7. ASSUME NEW r \in Requests, RequestFault(r)
          PROVE  /\ \A u \in TaskIds : ~Handling(u, p)'
                 /\ \A x \in Requests :
                      request'[x] # IdleRequest /\ request'[x].step \notin Answering => request'[x].paper # p
      <3>1. UNCHANGED <<tables, task>> /\ \A x \in Requests : request'[x] = request[x] \/ request'[x] = IdleRequest
        BY <2>7 DEF RequestFault, Reply, TypeOK
      <3>2. QED
        BY <3>1, <2>a DEF tables
    <2>8. QED
      BY <2>1, <2>2, <2>3, <2>4, <2>5, <2>6, <2>7 DEF Next, NewRequest, ServeRequest, TaskStep
  <1>3. QED
    BY <1>1, <1>2, TypeCorrect, NoOrphanRowsHolds, PTL DEF Spec

\* A parse has begun to replace the paper's rows, or a read has been asked for since.
Started(p) ==
  \/ sections[p] # {} \/ jobStatus[p] = "completed"
  \/ \E t \in TaskIds : Handling(t, p) /\ (task[t].kind = "read" \/ task[t].pc \in AfterSections)
  \/ \E r \in Requests : request[r].step \in Rereading /\ request[r].paper = p

\* The task will insert row i: no row from the one it is at up to i is there to refuse it.
Fills(t, p, step, rows, i) ==
  /\ Handling(t, p) /\ At(t, step)
  /\ task[t].next <= i /\ \A k \in rows : ~(task[t].next <= k /\ k <= i)

SectionsFill(p) ==
  \A i \in (1..NumSections) \ sections[p] : \E t \in TaskIds : Fills(t, p, "createSections", sections[p], i)

\* Whoever inserts the last section goes on to replace the references.
ReferencesFill(p) ==
  \/ NumSections \in (1..NumSections) \ sections[p]
  \/ \E t \in TaskIds : Handling(t, p) /\ At(t, "deleteReferences")
  \/ \A i \in (1..NumReferences) \ references[p] :
       \E t \in TaskIds : Fills(t, p, "createReferences", references[p], i)

\* Every row that is missing will be inserted by a parse under way.
RowsFill ==
  Undisturbed => \A p \in Papers : PaperExists(p) /\ Started(p) => SectionsFill(p) /\ ReferencesFill(p)

RowSteps == {"createSections", "deleteReferences", "createReferences"}

\* A step that changes no row of the paper and moves none of its tasks that insert
\* rows keeps both.
LEMMA FillStays ==
  ASSUME NEW p \in Papers, sections'[p] = sections[p], references'[p] = references[p],
         \A t \in TaskIds : Handling(t, p) /\ task[t].pc \in RowSteps => task'[t] = task[t],
         SectionsFill(p), ReferencesFill(p)
  PROVE  SectionsFill(p)' /\ ReferencesFill(p)'
  <1>1. SectionsFill(p)'
    <2> SUFFICES ASSUME NEW i \in (1..NumSections) \ sections'[p]
                 PROVE  \E t \in TaskIds : Fills(t, p, "createSections", sections[p], i)'
      BY DEF SectionsFill
    <2>1. PICK t \in TaskIds : Fills(t, p, "createSections", sections[p], i)
      BY DEF SectionsFill
    <2>2. QED
      BY <2>1 DEF Fills, Handling, At, Live, RowSteps
  <1>2. ReferencesFill(p)'
    <2>1. CASE NumSections \in (1..NumSections) \ sections[p]
      BY <2>1 DEF ReferencesFill
    <2>2. CASE \E t \in TaskIds : Handling(t, p) /\ At(t, "deleteReferences")
      BY <2>2 DEF ReferencesFill, Handling, At, Live, RowSteps
    <2>3. CASE \A i \in (1..NumReferences) \ references[p] :
                 \E t \in TaskIds : Fills(t, p, "createReferences", references[p], i)
      BY <2>3 DEF ReferencesFill, Fills, Handling, At, Live, RowSteps
    <2>4. QED
      BY <2>1, <2>2, <2>3 DEF ReferencesFill
  <1>3. QED
    BY <1>1, <1>2

\* Where a loop goes on.
LEMMA LoopGoesOn ==
  ASSUME TypeOK, NEW t \in TaskIds, Live(t), NEW i \in Nat, NEW n \in Nat, NEW body, NEW exit,
         LoopFrom(t, i, n, body, exit)
  PROVE  /\ \A u \in TaskIds \ {t} : task'[u] = task[u]
         /\ task'[t].paper = task[t].paper
         /\ i < n => task'[t].pc = body /\ task'[t].next = i + 1
         /\ ~(i < n) => task'[t].pc = exit
  BY LiveTask DEF LoopFrom, TypeOK, ParseTasks, ReadTasks

\* A parse that deletes the sections will insert every one of them.
LEMMA ReplaceSectionsFills ==
  ASSUME TypeOK, NEW t \in TaskIds, ReplaceSections(t), NEW p \in Papers, p = task[t].paper
  PROVE  SectionsFill(p)' /\ ReferencesFill(p)'
  <1>1. Live(t) /\ NumSections \in Nat
    BY SectionsAssumption DEF ReplaceSections, At, Live
  <1>2. sections'[p] = {}
    BY TypeParts DEF ReplaceSections, DeleteSections, TablesTypeOK
  <1>3. /\ task'[t].paper = p
        /\ 0 < NumSections => task'[t].pc = "createSections" /\ task'[t].next = 1
        /\ ~(0 < NumSections) => task'[t].pc = "deleteReferences"
    BY <1>1, LoopGoesOn DEF ReplaceSections
  <1>4. CASE 0 < NumSections
    <2>1. \A i \in 1..NumSections : Fills(t, p, "createSections", sections[p], i)'
      BY <1>2, <1>3, <1>4 DEF Fills, Handling, Live, At
    <2>2. NumSections \in (1..NumSections) \ sections'[p]
      BY <1>1, <1>2, <1>4
    <2>3. QED
      BY <2>1, <2>2 DEF SectionsFill, ReferencesFill
  <1>5. CASE ~(0 < NumSections)
    <2>1. (1..NumSections) = {}
      BY <1>1, <1>5
    <2>2. Handling(t, p)' /\ At(t, "deleteReferences")'
      BY <1>3, <1>5 DEF Handling, Live, At
    <2>3. QED
      BY <2>1, <2>2 DEF SectionsFill, ReferencesFill
  <1>6. QED
    BY <1>4, <1>5

\* A parse that inserts row i takes over what others, now refused at i, would have
\* inserted after it.
LEMMA InsertSectionFills ==
  ASSUME TypeOK, NEW t \in TaskIds, InsertSection(t), NEW p \in Papers, p = task[t].paper, PaperExists(p),
         SectionsFill(p), ReferencesFill(p)
  PROVE  SectionsFill(p)' /\ ReferencesFill(p)'
  <1> DEFINE i == task[t].next
  <1>1. Live(t) /\ At(t, "createSections") /\ i \in 1..NumSections /\ NumSections \in Nat /\ i \in Nat
    BY SectionsAssumption DEF InsertSection, At, Live, TypeOK, LoopsInRange
  <1>2. CASE /\ CreateSection(p, i)
             /\ LoopFrom(t, i, NumSections, "createSections", "deleteReferences")
    <2>1. /\ \A u \in TaskIds \ {t} : task'[u] = task[u]
          /\ task'[t].paper = p
          /\ i < NumSections => task'[t].pc = "createSections" /\ task'[t].next = i + 1
          /\ ~(i < NumSections) => task'[t].pc = "deleteReferences"
      BY <1>1, <1>2, LoopGoesOn
    <2>2. sections'[p] = sections[p] \cup {i} /\ references'[p] = references[p]
      BY <1>2, TypeParts DEF CreateSection, TablesTypeOK
    <2>3. SectionsFill(p)'
      <3> SUFFICES ASSUME NEW j \in (1..NumSections) \ sections'[p]
                   PROVE  \E u \in TaskIds : Fills(u, p, "createSections", sections[p], j)'
        BY DEF SectionsFill
      <3>1. PICK u \in TaskIds : Fills(u, p, "createSections", sections[p], j)
        BY <2>2 DEF SectionsFill
      <3>2. task[u].next \in 1..NumSections
        BY <3>1 DEF Fills, TypeOK, LoopsInRange
      <3>3. CASE task[u].next <= i /\ i <= j
        <4>1. i < j /\ i < NumSections
          BY <1>1, <2>2, <3>3
        <4>2. \A k \in sections'[p] : ~(i + 1 <= k /\ k <= j)
          <5>1. \A k \in sections[p] : k \in Nat
            BY TypeParts DEF TablesTypeOK
          <5>2. QED
            BY <1>1, <2>2, <3>1, <3>2, <3>3, <5>1 DEF Fills
        <4>3. QED
          BY <1>1, <2>1, <4>1, <4>2 DEF Fills, Handling, Live, At
      <3>4. CASE ~(task[u].next <= i /\ i <= j)
        <4>1. u # t
          BY <1>1, <3>1, <3>4 DEF Fills
        <4>2. QED
          BY <2>1, <2>2, <3>1, <3>4, <4>1 DEF Fills, Handling, Live, At
      <3>5. QED
        BY <3>3, <3>4
    <2>4. ReferencesFill(p)'
      <3>1. CASE NumSections \in (1..NumSections) \ sections[p]
        <4>1. CASE i < NumSections
          BY <1>1, <2>2, <3>1, <4>1 DEF ReferencesFill
        <4>2. CASE ~(i < NumSections)
          BY <2>1, <4>2 DEF ReferencesFill, Handling, Live, At
        <4>3. QED
          BY <4>1, <4>2
      <3>2. CASE \E u \in TaskIds : Handling(u, p) /\ At(u, "deleteReferences")
        BY <1>1, <2>1, <3>2 DEF ReferencesFill, Handling, Live, At
      <3>3. CASE \A k \in (1..NumReferences) \ references[p] :
                   \E u \in TaskIds : Fills(u, p, "createReferences", references[p], k)
        BY <1>1, <2>1, <2>2, <3>3 DEF ReferencesFill, Fills, Handling, Live, At
      <3>4. QED
        BY <3>1, <3>2, <3>3 DEF ReferencesFill
    <2>5. QED
      BY <2>3, <2>4
  <1>3. CASE i \in sections[p] /\ Refused(t)
    <2>1. /\ sections' = sections /\ references' = references
          /\ \A u \in TaskIds \ {t} : task'[u] = task[u]
      BY <1>3, GotoOthers DEF Refused, tables
    <2>2. \A j : ~Fills(t, p, "createSections", sections[p], j)
      BY <1>1, <1>3 DEF Fills
    <2>3. SectionsFill(p)'
      BY <2>1, <2>2 DEF SectionsFill, Fills, Handling, Live, At
    <2>4. ReferencesFill(p)'
      BY <1>1, <2>1 DEF ReferencesFill, Fills, Handling, Live, At
    <2>5. QED
      BY <2>3, <2>4
  <1>4. QED
    BY <1>2, <1>3 DEF InsertSection

\* The same for the references.
LEMMA ReplaceReferencesFills ==
  ASSUME TypeOK, NEW t \in TaskIds, ReplaceReferences(t), NEW p \in Papers, p = task[t].paper,
         SectionsFill(p)
  PROVE  SectionsFill(p)' /\ ReferencesFill(p)'
  <1>1. Live(t) /\ At(t, "deleteReferences") /\ NumReferences \in Nat
    BY ReferencesAssumption DEF ReplaceReferences, At, Live
  <1>2. references'[p] = {} /\ sections' = sections
    BY TypeParts DEF ReplaceReferences, DeleteReferences, TablesTypeOK
  <1>3. /\ \A u \in TaskIds \ {t} : task'[u] = task[u]
        /\ task'[t].paper = p
        /\ 0 < NumReferences => task'[t].pc = "createReferences" /\ task'[t].next = 1
    BY <1>1, LoopGoesOn DEF ReplaceReferences
  <1>4. SectionsFill(p)'
    BY <1>1, <1>2, <1>3 DEF SectionsFill, Fills, Handling, Live, At
  <1>5. \A i \in 1..NumReferences : Fills(t, p, "createReferences", references[p], i)'
    BY <1>1, <1>2, <1>3 DEF Fills, Handling, Live, At
  <1>6. QED
    BY <1>4, <1>5 DEF ReferencesFill

LEMMA InsertReferenceFills ==
  ASSUME TypeOK, NEW t \in TaskIds, InsertReference(t), NEW p \in Papers, p = task[t].paper, PaperExists(p),
         SectionsFill(p), ReferencesFill(p)
  PROVE  SectionsFill(p)' /\ ReferencesFill(p)'
  <1> DEFINE i == task[t].next
  <1>1. Live(t) /\ At(t, "createReferences") /\ i \in 1..NumReferences /\ NumReferences \in Nat /\ i \in Nat
    BY ReferencesAssumption DEF InsertReference, At, Live, TypeOK, LoopsInRange
  <1>2. sections' = sections /\ \A u \in TaskIds \ {t} : task'[u] = task[u]
    BY <1>1, LoopGoesOn, GotoOthers DEF InsertReference, CreateReference, Refused, tables
  <1>3. SectionsFill(p)'
    BY <1>1, <1>2 DEF SectionsFill, Fills, Handling, Live, At
  <1>4. CASE \/ NumSections \in (1..NumSections) \ sections[p]
             \/ \E u \in TaskIds : Handling(u, p) /\ At(u, "deleteReferences")
    BY <1>1, <1>2, <1>3, <1>4 DEF ReferencesFill, Handling, Live, At
  <1>5. CASE \A j \in (1..NumReferences) \ references[p] :
               \E u \in TaskIds : Fills(u, p, "createReferences", references[p], j)
    <2>1. CASE /\ CreateReference(p, i)
               /\ LoopFrom(t, i, NumReferences, "createReferences", "markParsed")
      <3>1. /\ task'[t].paper = p
            /\ i < NumReferences => task'[t].pc = "createReferences" /\ task'[t].next = i + 1
        BY <1>1, <2>1, LoopGoesOn
      <3>2. references'[p] = references[p] \cup {i}
        BY <2>1, TypeParts DEF CreateReference, TablesTypeOK
      <3>3. ASSUME NEW j \in (1..NumReferences) \ references'[p]
            PROVE  \E u \in TaskIds : Fills(u, p, "createReferences", references[p], j)'
        <4>1. PICK u \in TaskIds : Fills(u, p, "createReferences", references[p], j)
          BY <1>5, <3>2
        <4>2. task[u].next \in 1..NumReferences
          BY <4>1 DEF Fills, TypeOK, LoopsInRange
        <4>3. CASE task[u].next <= i /\ i <= j
          <5>1. i < j /\ i < NumReferences
            BY <1>1, <3>2, <4>3
          <5>2. \A k \in references[p] : k \in Nat
            BY TypeParts DEF TablesTypeOK
          <5>3. \A k \in references'[p] : ~(i + 1 <= k /\ k <= j)
            BY <1>1, <3>2, <4>1, <4>2, <4>3, <5>2 DEF Fills
          <5>4. QED
            BY <1>1, <3>1, <5>1, <5>3 DEF Fills, Handling, Live, At
        <4>4. CASE ~(task[u].next <= i /\ i <= j)
          <5>1. u # t
            BY <1>1, <4>1, <4>4 DEF Fills
          <5>2. QED
            BY <1>2, <3>2, <4>1, <4>4, <5>1 DEF Fills, Handling, Live, At
        <4>5. QED
          BY <4>3, <4>4
      <3>4. QED
        BY <1>3, <3>3 DEF ReferencesFill
    <2>2. CASE i \in references[p] /\ Refused(t)
      <3>1. references' = references
        BY <2>2 DEF Refused, tables
      <3>2. \A j : ~Fills(t, p, "createReferences", references[p], j)
        BY <1>1, <2>2 DEF Fills
      <3>3. QED
        BY <1>2, <1>3, <1>5, <3>1, <3>2 DEF ReferencesFill, Fills, Handling, Live, At
    <2>3. QED
      BY <2>1, <2>2 DEF InsertReference
  <1>6. QED
    BY <1>4, <1>5 DEF ReferencesFill

\* Nothing starts a paper's rows but a parse that deletes the old ones, and a paper
\* that has no row yet is not started.
LEMMA StartedBefore ==
  ASSUME TypeOK, NoOrphanRows, UnbornIdle, NEW p \in Papers, Started(p)', PaperExists(p)',
         \/ \E r \in Requests, q \in Papers : Arrive(r, q)
         \/ \E q \in Papers : Delete(q)
         \/ \E r \in Requests : RequestStep(r)
         \/ \E t \in TaskIds : TakeTask(t) \/ FinishTask(t)
         \/ \E t \in TaskIds : (ParseStep(t) \/ ReadStep(t)) /\ request' = request
         \/ HandleCleanup
  PROVE  \/ Started(p) /\ PaperExists(p)
         \/ \E t \in TaskIds : ReplaceSections(t) /\ p = task[t].paper
  <1>a. paperStatus[p] = "absent" => ~Started(p)
    <2>1. \A r \in Requests : request[r].step \in Rereading =>
            request[r] # IdleRequest /\ request[r].step \notin Answering
      BY DEF Rereading, Answering, IdleRequest
    <2>2. QED
      BY <2>1 DEF UnbornIdle, Started, NoOrphanRows, NoPaperRow
  <1>1. CASE \E r \in Requests, q \in Papers : Arrive(r, q)
    <2>1. PICK r \in Requests, q \in Papers : Arrive(r, q)
      BY <1>1
    <2>2. /\ UNCHANGED <<jobStatus, sections, references, card, task>>
          /\ paperStatus'[p] = paperStatus[p] \/ paperStatus[p] = "absent"
          /\ \A x \in Requests \ {r} : request'[x] = request[x]
          /\ request'[r].step \notin Rereading
      BY <2>1, ArriveWrites
    <2>3. Started(p)
      BY <2>2 DEF Started, Handling, Live
    <2>4. QED
      BY <2>2, <2>3, <1>a DEF PaperExists
  <1>2. CASE \E q \in Papers : Delete(q)
    <2>1. PICK q \in Papers : Delete(q)
      BY <1>2
    <2>2. p # q
      BY <2>1, DeleteWrites
    <2>3. QED
      BY <2>1, <2>2, DeleteWrites DEF Started, Handling, Live, PaperExists
  <1>3. CASE \E r \in Requests : RequestStep(r)
    <2>1. PICK r \in Requests : RequestStep(r)
      BY <1>3
    <2>2. PICK q : q = request[r].paper
      OBVIOUS
    <2>3. PaperExists(p)
      BY <2>1, <2>2, RequestWrites DEF PaperExists
    <2>4. CASE sections'[p] # {} \/ jobStatus'[p] = "completed"
      BY <2>1, <2>2, <2>3, <2>4, RequestWrites DEF Started
    <2>5. CASE \E x \in Requests : request'[x].step \in Rereading /\ request'[x].paper = p
      <3>1. PICK x \in Requests : request'[x].step \in Rereading /\ request'[x].paper = p
        BY <2>5
      <3>2. request'[x] # IdleRequest
        BY <3>1 DEF Rereading, IdleRequest
      <3>3. QED
        BY <2>1, <2>2, <2>3, <3>1, <3>2, RequestWrites DEF Started
    <2>6. CASE \E t \in TaskIds : Handling(t, p)' /\ (task'[t].kind = "read" \/ task'[t].pc \in AfterSections)
      <3>1. PICK t \in TaskIds : Handling(t, p)' /\ (task'[t].kind = "read" \/ task'[t].pc \in AfterSections)
        BY <2>6
      <3>2. CASE task'[t] = task[t]
        BY <2>3, <3>1, <3>2 DEF Started, Handling, Live
      <3>3. CASE task'[t] = NewTask("process", q)
        BY <3>1, <3>3 DEF NewTask, AfterSections
      <3>4. CASE task'[t] = NewTask("read", q) /\ request[r].step \in Rereading
        BY <2>2, <2>3, <3>1, <3>4 DEF NewTask, Started, Handling
      <3>5. QED
        BY <2>1, <2>2, <3>2, <3>3, <3>4, RequestWrites
    <2>7. QED
      BY <2>4, <2>5, <2>6 DEF Started
  <1>4. CASE \E t \in TaskIds : TakeTask(t) \/ FinishTask(t)
    <2>1. PICK t \in TaskIds : TakeTask(t) \/ FinishTask(t)
      BY <1>4
    <2>2. UNCHANGED tables /\ request' = request
      BY <2>1, QueueMoves
    <2>3. ASSUME NEW u \in TaskIds, Handling(u, p)', task'[u].kind = "read" \/ task'[u].pc \in AfterSections
          PROVE  Handling(u, p) /\ (task[u].kind = "read" \/ task[u].pc \in AfterSections)
      <3>1. CASE u # t
        BY <2>1, <2>3, <3>1, QueueMoves DEF Handling, Live
      <3>2. CASE u = t
        <4>1. Live(t) /\ task'[t] # FreeTask
          BY <2>1, <2>3, <3>2, QueueMoves DEF Handling, Live, FreeTask
        <4>2. /\ task'[t].pc \in {"waiting", "markProcessing", "markReading", "nack"}
              /\ task'[t].paper = task[t].paper /\ task'[t].kind = task[t].kind
          BY <2>1, <4>1, QueueMoves
        <4>3. QED
          BY <2>3, <3>2, <4>1, <4>2 DEF Handling, AfterSections
      <3>3. QED
        BY <3>1, <3>2
    <2>4. QED
      BY <2>2, <2>3 DEF Started, tables, PaperExists
  <1>5. CASE \E t \in TaskIds : (ParseStep(t) \/ ReadStep(t)) /\ request' = request
    <2>1. PICK t \in TaskIds : (ParseStep(t) \/ ReadStep(t)) /\ request' = request
      BY <1>5
    <2>2. PICK q : q = task[t].paper
      OBVIOUS
    <2>3. Live(t) /\ q \in Papers /\ PaperExists(p)
      BY <2>1, <2>2, HandlerWrites DEF PaperExists
    <2>4. CASE ReplaceSections(t) /\ p = q
      BY <2>2, <2>4
    <2>5. CASE ~(ReplaceSections(t) /\ p = q)
      <3>1. InsertSection(t) => task[t].pc \in AfterSections
        BY DEF InsertSection, At, AfterSections
      <3>2. At(t, "markCompleted") => task[t].kind = "read"
        BY TypeParts, TaskAtStep DEF At, ReadSteps, ReadTasks
      <3>3. At(t, "enqueueRead") => task[t].pc \in AfterSections
        BY DEF At, AfterSections
      <3>4. CASE sections'[p] # {} \/ jobStatus'[p] = "completed"
        BY <2>1, <2>2, <2>3, <2>5, <3>1, <3>2, <3>4, HandlerWrites DEF Started, Handling
      <3>5. ASSUME NEW u \in TaskIds, Handling(u, p)', task'[u].kind = "read" \/ task'[u].pc \in AfterSections
            PROVE  Started(p)
        <4>1. CASE task'[u] = task[u]
          BY <3>5, <4>1 DEF Started, Handling, Live
        <4>2. CASE At(t, "enqueueRead") /\ task'[u] = NewTask("read", q)
          BY <2>2, <2>3, <3>3, <3>5, <4>2 DEF Started, Handling, NewTask
        <4>3. CASE u = t
          BY <2>1, <2>2, <2>3, <2>5, <3>5, <4>3, HandlerMoves DEF Started, Handling
        <4>4. QED
          BY <2>1, <2>2, <4>1, <4>2, <4>3, HandlerMoves
      <3>6. QED
        BY <2>1, <2>3, <3>4, <3>5 DEF Started
    <2>6. QED
      BY <2>4, <2>5
  <1>6. CASE HandleCleanup
    BY <1>6 DEF HandleCleanup, DeleteFailedJobs, Started, Handling, Live, PaperExists
  <1>7. QED
    BY <1>1, <1>2, <1>3, <1>4, <1>5, <1>6

\* The inductive step: five statements change rows, and no other step ends a task that
\* inserts some.
LEMMA RowsFillStep ==
  ASSUME TypeOK, NoOrphanRows, UnbornIdle, RowsFill, [Next]_vars
  PROVE  RowsFill'
  <1> SUFFICES ASSUME Undisturbed', NEW p \in Papers, PaperExists(p)', Started(p)'
               PROVE  SectionsFill(p)' /\ ReferencesFill(p)'
    BY DEF RowsFill
  <1>1. CASE UNCHANGED vars
    <2>1. SectionsFill(p) /\ ReferencesFill(p)
      BY <1>1 DEF vars, RowsFill, Undisturbed, PaperExists, Started, Handling, Live
    <2>2. QED
      BY <1>1, <2>1, FillStays DEF vars
  <1>2. CASE \E t \in TaskIds : ReplaceSections(t) /\ p = task[t].paper
    BY <1>2, ReplaceSectionsFills
  <1>3. CASE Next /\ ~(\E t \in TaskIds : ReplaceSections(t) /\ p = task[t].paper)
    <2>1. PaperExists(p) /\ SectionsFill(p) /\ ReferencesFill(p)
      BY <1>3, CalmSteps, StartedBefore DEF RowsFill
    <2>2. CASE \E r \in Requests, q \in Papers : Arrive(r, q)
      BY <2>1, <2>2, ArriveWrites, FillStays
    <2>3. CASE \E q \in Papers : Delete(q)
      BY <2>1, <2>3, DeleteWrites, FillStays
    <2>4. CASE \E r \in Requests : RequestStep(r)
      <3>1. PICK r \in Requests : RequestStep(r)
        BY <2>4
      <3>2. sections' = sections /\ references' = references
        BY <3>1, RequestWrites
      <3>3. \A u \in TaskIds : Live(u) => task'[u] = task[u]
        BY <3>1, RequestWrites
      <3>4. QED
        BY <2>1, <3>2, <3>3, FillStays DEF Handling
    <2>5. CASE \E t \in TaskIds : TakeTask(t) \/ FinishTask(t)
      <3>1. PICK t \in TaskIds : TakeTask(t) \/ FinishTask(t)
        BY <2>5
      <3>2. /\ sections' = sections /\ references' = references
            /\ \A u \in TaskIds \ {t} : task'[u] = task[u]
            /\ task[t].pc \notin RowSteps
        BY <3>1, QueueMoves DEF tables, RowSteps
      <3>3. QED
        BY <2>1, <3>2, FillStays
    <2>6. CASE \E t \in TaskIds : (ParseStep(t) \/ ReadStep(t)) /\ request' = request
      <3>1. PICK t \in TaskIds : ParseStep(t) \/ ReadStep(t)
        BY <2>6
      <3>2. PICK q : q = task[t].paper
        OBVIOUS
      <3>3. Live(t) /\ \A u \in TaskIds \ {t} : Live(u) => task'[u] = task[u]
        BY <3>1, <3>2, HandlerWrites, HandlerMoves
      <3>4. CASE p # q
        <4>1. sections'[p] = sections[p] /\ references'[p] = references[p]
          BY <3>1, <3>2, <3>4, HandlerWrites
        <4>2. QED
          BY <2>1, <3>2, <3>3, <3>4, <4>1, FillStays DEF Handling
      <3>5. CASE p = q /\ (InsertSection(t) \/ ReplaceReferences(t) \/ InsertReference(t))
        BY <2>1, <3>2, <3>5, InsertSectionFills, ReplaceReferencesFills, InsertReferenceFills
      <3>6. CASE p = q /\ ~(InsertSection(t) \/ ReplaceReferences(t) \/ InsertReference(t))
        <4>1. ~ReplaceSections(t)
          BY <1>3, <3>2, <3>6
        <4>2. sections'[p] = sections[p] /\ references'[p] = references[p]
          BY <3>1, <3>2, <3>6, <4>1, HandlerWrites
        <4>3. task[t].pc \notin RowSteps
          BY <3>1, <3>6, <4>1
             DEF ParseStep, MarkProcessing, MarkPaperProcessing, ParsePDF, SaveMetadata, MarkParsed, EnqueueRead,
                 MarkFailed, MarkPaperFailed, ReadStep, MarkReading, MarkPaperReading, CallReader, ReplaceCard,
                 SaveCard, MarkCompleted, MarkPaperCompleted, MarkReadFailed, MarkPaperReadFailed, At, RowSteps
        <4>4. QED
          BY <2>1, <3>3, <4>2, <4>3, FillStays DEF Handling
      <3>7. QED
        BY <3>4, <3>5, <3>6
    <2>7. CASE HandleCleanup
      BY <2>1, <2>7, FillStays DEF HandleCleanup, DeleteFailedJobs
    <2>8. QED
      BY <1>3, <2>2, <2>3, <2>4, <2>5, <2>6, <2>7, CalmSteps
  <1>4. QED
    BY <1>1, <1>2, <1>3

\* A completed job has all the rows of a parse, unless one is replacing them right now,
\* for any number of sections, references and parses that overlap.
THEOREM CompletedIsParsedHolds == Spec => []CompletedIsParsed
  <1>1. Init => RowsFill
    BY DEF Init, TablesInit, RowsFill, PaperExists, NoPaperRow
  <1>2. TypeOK /\ NoOrphanRows /\ UnbornIdle /\ RowsFill /\ [Next]_vars => RowsFill'
    BY RowsFillStep
  <1>3. TypeOK /\ NoOrphanRows /\ RowsFill => CompletedIsParsed
    <2> SUFFICES ASSUME TypeOK, NoOrphanRows, RowsFill, Undisturbed,
                        NEW p \in Papers, jobStatus[p] = "completed", ~Saving(p)
                 PROVE  RowsComplete(p)
      BY DEF CompletedIsParsed, Undisturbed
    <2>1. PaperExists(p) /\ Started(p)
      BY DEF NoOrphanRows, PaperExists, Started
    <2>2. SectionsFill(p) /\ ReferencesFill(p)
      BY <2>1 DEF RowsFill
    <2>3. sections[p] = 1..NumSections
      BY <2>2, TypeParts DEF SectionsFill, Fills, Handling, At, Saving, TablesTypeOK
    <2>4. references[p] = 1..NumReferences
      BY <2>2, <2>3, TypeParts DEF ReferencesFill, Fills, Handling, At, Saving, TablesTypeOK
    <2>5. QED
      BY <2>3, <2>4 DEF RowsComplete
  <1>4. QED
    BY <1>1, <1>2, <1>3, TypeCorrect, NoOrphanRowsHolds, UnbornIdleHolds, PTL DEF Spec

-----------------------------------------------------------------------------
(* The card of a completed job.                                            *)

Finishing(p) ==
  jobStatus[p] = "completed" \/ \E t \in TaskIds : Handling(t, p) /\ At(t, "markCompleted")

Carded(p) == card[p] \/ \E t \in TaskIds : Handling(t, p) /\ At(t, "createCard")

\* A paper whose job is, or is about to be, completed has a card or a read that is
\* about to insert one.
CardsFill == Undisturbed => \A p \in Papers : PaperExists(p) /\ Finishing(p) => Carded(p)

LEMMA CardsFillStep ==
  ASSUME TypeOK, NoOrphanRows, UnbornIdle, CardsFill, [Next]_vars
  PROVE  CardsFill'
  <1> SUFFICES ASSUME Undisturbed', NEW p \in Papers, PaperExists(p)', Finishing(p)'
               PROVE  Carded(p)'
    BY DEF CardsFill
  <1>a. ASSUME card'[p] = card[p], PaperExists(p), Finishing(p), Undisturbed,
               \A t \in TaskIds : Handling(t, p) /\ At(t, "createCard") => task'[t] = task[t]
        PROVE  Carded(p)'
    BY <1>a DEF CardsFill, Carded, Handling, Live, At
  <1>1. CASE UNCHANGED vars
    BY <1>1, <1>a DEF vars, Undisturbed, PaperExists, Finishing, Handling, Live, At
  <1>2. CASE Next /\ \E r \in Requests, q \in Papers : Arrive(r, q)
    <2>1. PICK r \in Requests, q \in Papers : Arrive(r, q)
      BY <1>2
    <2>2. /\ UNCHANGED <<jobStatus, card, task>>
          /\ paperStatus'[p] = paperStatus[p] \/ paperStatus[p] = "absent"
      BY <2>1, ArriveWrites
    <2>3. Finishing(p)
      BY <2>2 DEF Finishing, Handling, Live, At
    <2>4. paperStatus[p] # "absent"
      BY <2>3 DEF UnbornIdle, NoOrphanRows, NoPaperRow, Finishing
    <2>5. QED
      BY <1>2, <2>2, <2>3, <2>4, <1>a, CalmSteps DEF PaperExists
  <1>3. CASE Next /\ \E q \in Papers : Delete(q)
    <2>1. PICK q \in Papers : Delete(q)
      BY <1>3
    <2>2. p # q
      BY <2>1, DeleteWrites
    <2>3. UNCHANGED task /\ paperStatus'[p] = paperStatus[p] /\ jobStatus'[p] = jobStatus[p] /\ card'[p] = card[p]
      BY <2>1, <2>2, DeleteWrites
    <2>4. QED
      BY <1>3, <2>3, <1>a, CalmSteps DEF Finishing, Handling, Live, At, PaperExists
  <1>4. CASE Next /\ \E r \in Requests : RequestStep(r)
    <2>1. PICK r \in Requests : RequestStep(r)
      BY <1>4
    <2>2. PICK q : q = request[r].paper
      OBVIOUS
    <2>3. PaperExists(p) /\ card' = card /\ (jobStatus'[p] = "completed" => jobStatus[p] = "completed")
      BY <2>1, <2>2, RequestWrites DEF PaperExists
    <2>4. \A u \in TaskIds : task'[u] = task[u] \/ (~Live(u) /\ task'[u].pc = "waiting")
      <3>1. \A kind : NewTask(kind, q).pc = "waiting"
        BY DEF NewTask
      <3>2. QED
        BY <2>1, <2>2, <3>1, RequestWrites
    <2>5. Finishing(p)
      BY <2>3, <2>4 DEF Finishing, Handling, Live, At
    <2>6. QED
      BY <1>4, <2>3, <2>4, <2>5, <1>a, CalmSteps DEF Handling
  <1>5. CASE Next /\ \E t \in TaskIds : TakeTask(t) \/ FinishTask(t)
    <2>1. PICK t \in TaskIds : TakeTask(t) \/ FinishTask(t)
      BY <1>5
    <2>2. /\ UNCHANGED tables
          /\ \A u \in TaskIds \ {t} : task'[u] = task[u]
          /\ task[t].pc \in {"waiting", "ack", "nack"}
          /\ task'[t].pc \in {"free", "waiting", "markProcessing", "markReading", "nack"}
      BY <2>1, QueueMoves DEF FreeTask
    <2>3. Finishing(p) /\ PaperExists(p)
      BY <2>2 DEF Finishing, Handling, Live, At, tables, PaperExists
    <2>4. QED
      BY <1>5, <2>2, <2>3, <1>a, CalmSteps DEF tables, At
  <1>6. CASE Next /\ \E t \in TaskIds : (ParseStep(t) \/ ReadStep(t)) /\ request' = request
    <2>1. PICK t \in TaskIds : ParseStep(t) \/ ReadStep(t)
      BY <1>6
    <2>2. PICK q : q = task[t].paper
      OBVIOUS
    <2>3. Live(t) /\ q \in Papers /\ PaperExists(p)
      BY <2>1, <2>2, HandlerWrites DEF PaperExists
    <2>4. \A u \in TaskIds \ {t} : task'[u] = task[u] \/ (~Live(u) /\ task'[u].pc = "waiting")
      <3>1. NewTask("read", q).pc = "waiting"
        BY DEF NewTask
      <3>2. QED
        BY <2>1, <2>2, <3>1, HandlerMoves
    <2>5. CASE CreateCard(p)
      BY <2>5, TypeParts DEF CreateCard, TablesTypeOK, Carded
    <2>6. CASE ~CreateCard(p)
      <3>1. Finishing(p)
        <4>1. CASE jobStatus'[p] = "completed"
          BY <2>1, <2>2, <2>3, <4>1, HandlerWrites DEF Finishing, Handling
        <4>2. CASE \E u \in TaskIds : Handling(u, p)' /\ At(u, "markCompleted")'
          <5>1. PICK u \in TaskIds : Handling(u, p)' /\ At(u, "markCompleted")'
            BY <4>2
          <5>2. u # t
            BY <2>1, <2>2, <2>6, <5>1, HandlerMoves DEF Handling, At
          <5>3. task'[u] = task[u]
            BY <2>4, <5>1, <5>2 DEF At
          <5>4. QED
            BY <5>1, <5>3 DEF Finishing, Handling, Live, At
        <4>3. QED
          BY <4>1, <4>2 DEF Finishing
      <3>2. CASE p = q /\ ReplaceCard(t)
        <4>1. Handling(t, p)' /\ At(t, "createCard")'
          BY <2>2, <2>3, <3>2, GotoMoves DEF ReplaceCard, Moved, Handling, Live, At
        <4>2. QED
          BY <4>1 DEF Carded
      <3>3. CASE p = q /\ SaveCard(t)
        BY <2>2, <2>3, <2>6, <3>3 DEF SaveCard
      <3>4. CASE p # q \/ ~(ReplaceCard(t) \/ SaveCard(t))
        <4>1. card'[p] = card[p]
          BY <2>1, <2>2, <3>4, HandlerWrites
        <4>2. ~(Handling(t, p) /\ At(t, "createCard"))
          BY <2>1, <2>2, <3>4
             DEF ParseStep, MarkProcessing, MarkPaperProcessing, ParsePDF, SaveMetadata, ReplaceSections,
                 InsertSection, ReplaceReferences, InsertReference, MarkParsed, EnqueueRead,
                 MarkFailed, MarkPaperFailed, ReadStep, MarkReading, MarkPaperReading, CallReader,
                 MarkCompleted, MarkPaperCompleted, MarkReadFailed, MarkPaperReadFailed, ReplaceCard, At, Handling
        <4>3. \A u \in TaskIds : Handling(u, p) /\ At(u, "createCard") => task'[u] = task[u]
          BY <2>4, <4>2 DEF Handling
        <4>4. QED
          BY <1>6, <2>3, <3>1, <4>1, <4>3, <1>a, CalmSteps
      <3>5. QED
        BY <3>2, <3>3, <3>4
    <2>7. QED
      BY <2>5, <2>6
  <1>7. CASE Next /\ HandleCleanup
    <2>1. /\ UNCHANGED <<paperStatus, card, task>>
          /\ jobStatus'[p] = "completed" => jobStatus[p] = "completed"
      BY <1>7 DEF HandleCleanup, DeleteFailedJobs
    <2>2. QED
      BY <1>7, <2>1, <1>a, CalmSteps DEF Finishing, Handling, Live, At, PaperExists
  <1>8. QED
    BY <1>1, <1>2, <1>3, <1>4, <1>5, <1>6, <1>7, CalmSteps

\* A completed job has a card, unless a read is replacing it, for any number of reads
\* that overlap.
THEOREM CompletedHasCardHolds == Spec => []CompletedHasCard
  <1>1. Init => CardsFill
    BY DEF Init, TablesInit, CardsFill, PaperExists, NoPaperRow
  <1>2. TypeOK /\ NoOrphanRows /\ UnbornIdle /\ CardsFill /\ [Next]_vars => CardsFill'
    BY CardsFillStep
  <1>3. NoOrphanRows /\ CardsFill => CompletedHasCard
    BY DEF NoOrphanRows, CardsFill, CompletedHasCard, Undisturbed, PaperExists, Finishing, Carded, Handling
  <1>4. QED
    BY <1>1, <1>2, <1>3, TypeCorrect, NoOrphanRowsHolds, UnbornIdleHolds, PTL DEF Spec

-----------------------------------------------------------------------------
(* The two statuses of a paper whose tasks follow each other.              *)

\* Clients upload and delete papers, and call nothing that starts a second task.
OneTaskEach == Operations \subseteq {"upload", "delete", "cleanup"}

Agree(p) == paperStatus[p] = jobStatus[p]

\* The task may still write the statuses of its paper: a parse that has succeeded
\* will not, and leaves the paper to the read it has enqueued.
Works(t, p) == Handling(t, p) /\ ~(At(t, "ack") /\ task[t].kind = "process")

Uploads(r, p) == request[r] # IdleRequest /\ request[r].paper = p

\* What the rows of paper p say while its task t is at the step it is at.
Fits(t, p) ==
  /\ task[t].pc \in {"waiting", "markProcessing", "markReading", "enqueueRead", "ack", "nack"} => Agree(p)
  /\ task[t].pc \in {"deleteSections", "createSections", "deleteReferences", "createReferences",
                     "markParsed"} => paperStatus[p] = "parsed"
  /\ task[t].pc \in {"readPaper", "deleteCards", "createCard", "markCompleted",
                     "markReadFailed"} => paperStatus[p] = "reading"
  /\ At(t, "markPaperFailed") => jobStatus[p] = "failed"
  /\ At(t, "markPaperReading") => jobStatus[p] = "reading"
  /\ At(t, "markPaperCompleted") => jobStatus[p] = "completed"
  /\ At(t, "enqueueRead") => jobStatus[p] = "parsed"
  /\ At(t, "markPaperReadFailed") => jobStatus[p] = "failed"
  /\ task[t].kind = "read" /\ jobStatus[p] = "failed" =>
       task[t].pc \in {"markPaperReadFailed", "nack"} /\ RetriesSpent(t)

\* One upload or one task at a time has the paper; whoever has it knows what its rows
\* say, and whoever leaves it leaves them in agreement.
Turn(p) ==
  /\ \A t, u \in TaskIds : Works(t, p) /\ Works(u, p) => t = u
  /\ \A r, s \in Requests : Uploads(r, p) /\ Uploads(s, p) => r = s
  /\ \A t \in TaskIds, r \in Requests : ~(Works(t, p) /\ Uploads(r, p))
  /\ \A r \in Requests : Uploads(r, p) /\ RequestAt(r, "createJob") =>
       ~PaperExists(p) \/ (paperStatus[p] = "queued" /\ jobStatus[p] = "none")
  /\ JobExists(p) => \A t \in TaskIds : Works(t, p) => Fits(t, p)
  /\ JobExists(p) /\ (\A t \in TaskIds : ~Works(t, p)) => Agree(p)

OnlyUploads == \A r \in Requests : request[r].step \in {"idle", "createJob", "enqueueProcess"}

Turns == Undisturbed => OnlyUploads /\ \A p \in Papers : Turn(p)

\* A step that leaves a paper's statuses, tasks and upload alone.
LEMMA TurnStays ==
  ASSUME NEW p \in Papers, Turn(p), paperStatus'[p] = paperStatus[p], jobStatus'[p] = jobStatus[p],
         \A t \in TaskIds : Works(t, p)' <=> Works(t, p),
         \A t \in TaskIds : Works(t, p) => task'[t] = task[t],
         \A r \in Requests : Uploads(r, p)' => Uploads(r, p) /\ request'[r] = request[r]
  PROVE  Turn(p)'
  <1>1. \A t \in TaskIds : Works(t, p) /\ Fits(t, p) => Fits(t, p)'
    BY DEF Fits, Agree, At, RetriesSpent
  <1>2. \A r \in Requests : Uploads(r, p)' /\ RequestAt(r, "createJob")' => RequestAt(r, "createJob")
    BY DEF RequestAt
  <1>3. (Agree(p)' <=> Agree(p)) /\ (JobExists(p)' <=> JobExists(p)) /\ (PaperExists(p)' <=> PaperExists(p))
    BY DEF Agree, JobExists, PaperExists
  <1>4. QED
    BY <1>1, <1>2, <1>3 DEF Turn

\* A handler that has the paper, and the job still exists, knows what the rows say
\* after its step too.
LEMMA StepFits ==
  ASSUME TypeOK, NoOrphanRows, NEW t \in TaskIds, ParseStep(t) \/ ReadStep(t), ~EnqueueRead(t),
         NEW p, p = task[t].paper, JobExists(p), Fits(t, p)
  PROVE  Fits(t, p)'
  <1>a. /\ Live(t) /\ p \in Papers /\ PaperExists(p) /\ TablesTypeOK
        /\ jobStatus \in [Papers -> StatusValues \cup {"none"}]
        /\ paperStatus \in [Papers -> StatusValues \cup NoPaperRow]
    BY HandlerWrites, TypeParts DEF NoOrphanRows, PaperExists, JobExists, TablesTypeOK
  <1>b. ASSUME NEW s, Goto(t, s)
        PROVE  /\ task'[t].pc = s /\ task'[t].kind = task[t].kind
               /\ RetriesSpent(t)' <=> RetriesSpent(t)
    BY <1>a, <1>b, GotoMoves DEF Moved, RetriesSpent
  <1>c. ASSUME NEW s, SetJob(p, s)
        PROVE  jobStatus'[p] = s /\ paperStatus'[p] = paperStatus[p]
    BY <1>a, <1>c DEF SetJob
  <1>d. ASSUME NEW s, UpdatePaperStatus(p, s)
        PROVE  jobStatus'[p] = jobStatus[p] /\ paperStatus'[p] = s
    BY <1>a, <1>d DEF UpdatePaperStatus
  <1>e. /\ task[t].pc \in ParseSteps => task[t].kind = "process"
        /\ task[t].pc \in ReadSteps => task[t].kind = "read"
    BY TypeParts, TaskAtStep DEF ParseTasks, ReadTasks
  <1> USE DEF Fits, Agree, At
  <1>1. CASE MarkProcessing(t)
    <2>1. SetJob(p, "processing") /\ Goto(t, "markPaperProcessing")
      BY <1>1 DEF MarkProcessing, UpdateJobStatus
    <2>2. QED
      BY <1>1, <2>1, <1>b, <1>c DEF MarkProcessing
  <1>2. CASE MarkPaperProcessing(t)
    <2>1. UpdatePaperStatus(p, "processing") /\ Goto(t, "parsePDF") /\ task[t].kind = "process"
      BY <1>2, <1>e DEF MarkPaperProcessing, ParseSteps
    <2>2. QED
      BY <2>1, <1>b
  <1>3. CASE ParsePDF(t)
    <2>1. (Goto(t, "saveMetadata") \/ Goto(t, "markFailed")) /\ task[t].kind = "process"
      BY <1>3, <1>e DEF ParsePDF, Refused, ParseError, ParseSteps
    <2>2. QED
      BY <2>1, <1>b
  <1>4. CASE SaveMetadata(t)
    <2>1. UpdatePaperStatus(p, "parsed") /\ Goto(t, "deleteSections") /\ task[t].kind = "process"
      BY <1>4, <1>a, <1>e DEF SaveMetadata, ParseSteps
    <2>2. QED
      BY <2>1, <1>b, <1>d
  <1>5. CASE ReplaceSections(t) \/ InsertSection(t) \/ ReplaceReferences(t) \/ InsertReference(t)
    <2>1. /\ paperStatus' = paperStatus /\ paperStatus[p] = "parsed" /\ task[t].kind = "process"
      BY <1>5, <1>e DEF ReplaceSections, InsertSection, ReplaceReferences, InsertReference, DeleteSections,
         CreateSection, DeleteReferences, CreateReference, Refused, tables, ParseSteps
    <2>2. \E s \in {"createSections", "deleteReferences", "createReferences", "markParsed", "markFailed"} :
            Moved(t, s)
      BY <1>5, <1>a, LoopMoves, GotoMoves
         DEF ReplaceSections, InsertSection, ReplaceReferences, InsertReference, Refused, ParseError, ParseSteps
    <2>3. QED
      BY <2>1, <2>2 DEF Moved
  <1>6. CASE MarkParsed(t)
    <2>1. /\ SetJob(p, "parsed") /\ (Goto(t, "enqueueRead") \/ Goto(t, "ack"))
          /\ task[t].kind = "process" /\ paperStatus[p] = "parsed"
      BY <1>6, <1>e DEF MarkParsed, UpdateJobStatus, ParseSteps
    <2>2. QED
      BY <2>1, <1>b, <1>c
  <1>7. CASE MarkFailed(t)
    <2>1. SetJob(p, "failed") /\ Goto(t, "markPaperFailed") /\ task[t].kind = "process"
      BY <1>7, <1>e DEF MarkFailed, UpdateJobStatus, ParseSteps
    <2>2. QED
      BY <2>1, <1>b, <1>c
  <1>8. CASE MarkPaperFailed(t)
    <2>1. /\ UpdatePaperStatus(p, "failed") /\ Goto(t, "nack") /\ task[t].kind = "process"
          /\ jobStatus[p] = "failed"
      BY <1>8, <1>e DEF MarkPaperFailed, ParseSteps
    <2>2. QED
      BY <2>1, <1>b, <1>d
  <1>9. CASE MarkReading(t)
    <2>1. SetJob(p, "reading") /\ Goto(t, "markPaperReading")
      BY <1>9 DEF MarkReading, UpdateJobStatus
    <2>2. QED
      BY <2>1, <1>b, <1>c
  <1>10. CASE MarkPaperReading(t)
    <2>1. UpdatePaperStatus(p, "reading") /\ Goto(t, "readPaper") /\ jobStatus[p] = "reading"
      BY <1>10 DEF MarkPaperReading
    <2>2. QED
      BY <2>1, <1>b, <1>d
  <1>11. CASE CallReader(t) \/ ReplaceCard(t) \/ SaveCard(t)
    <2>1. /\ paperStatus' = paperStatus /\ jobStatus' = jobStatus /\ paperStatus[p] = "reading"
          /\ task[t].kind = "read" /\ jobStatus[p] # "failed"
      BY <1>11, <1>e DEF CallReader, ReplaceCard, SaveCard, DeleteCards, CreateCard, ReadRefused, tables, ReadSteps
    <2>2. \E s \in {"deleteCards", "createCard", "markCompleted", "markReadFailed"} : Goto(t, s)
      BY <1>11 DEF CallReader, ReplaceCard, SaveCard, ReadRefused, ReadError, ReadSteps
    <2>3. QED
      BY <2>1, <2>2, <1>b
  <1>12. CASE MarkCompleted(t)
    <2>1. SetJob(p, "completed") /\ Goto(t, "markPaperCompleted")
      BY <1>12 DEF MarkCompleted, UpdateJobStatus
    <2>2. QED
      BY <2>1, <1>b, <1>c
  <1>13. CASE MarkPaperCompleted(t)
    <2>1. UpdatePaperStatus(p, "completed") /\ Goto(t, "ack") /\ jobStatus[p] = "completed"
      BY <1>13 DEF MarkPaperCompleted
    <2>2. QED
      BY <2>1, <1>b, <1>d
  <1>14. CASE MarkReadFailed(t)
    <2>1. /\ paperStatus[p] = "reading"
          /\ \/ SetJob(p, "failed") /\ Goto(t, "markPaperReadFailed") /\ RetriesSpent(t)
             \/ SetJob(p, "reading") /\ Goto(t, "nack")
      BY <1>14 DEF MarkReadFailed, UpdateJobStatus, IsFinalAttempt, RetriesSpent
    <2>2. QED
      BY <2>1, <1>b, <1>c
  <1>15. CASE MarkPaperReadFailed(t)
    <2>1. /\ UpdatePaperStatus(p, "failed") /\ Goto(t, "nack") /\ jobStatus[p] = "failed"
          /\ task[t].kind = "read" /\ RetriesSpent(t)
      BY <1>15, <1>e DEF MarkPaperReadFailed, ReadSteps
    <2>2. QED
      BY <2>1, <1>b, <1>d
  <1>16. QED
    BY <1>1, <1>2, <1>3, <1>4, <1>5, <1>6, <1>7, <1>8, <1>9, <1>10, <1>11, <1>12, <1>13, <1>14, <1>15
       DEF ParseStep, ReadStep

\* A step of a handler.
LEMMA HandlerTurn ==
  ASSUME TypeOK, NoOrphanRows, NEW t \in TaskIds, ParseStep(t) \/ ReadStep(t), request' = request,
         NEW p \in Papers, Turn(p)
  PROVE  Turn(p)'
  <1>1. PICK q : q = task[t].paper
    OBVIOUS
  <1>2. Live(t) /\ q \in Papers /\ task[t].pc \in ParseSteps \cup ReadSteps
    BY <1>1, HandlerWrites
       DEF ParseStep, MarkProcessing, MarkPaperProcessing, ParsePDF, SaveMetadata, ReplaceSections,
           InsertSection, ReplaceReferences, InsertReference, MarkParsed, EnqueueRead, MarkFailed,
           MarkPaperFailed, ReadStep, MarkReading, MarkPaperReading, CallReader, ReplaceCard, SaveCard,
           MarkCompleted, MarkPaperCompleted, MarkReadFailed, MarkPaperReadFailed, At, ParseSteps, ReadSteps
  <1>3. Works(t, q)
    BY <1>1, <1>2 DEF Works, Handling, At, ParseSteps, ReadSteps
  <1>4. /\ NewTask("read", q).pc = "waiting" /\ NewTask("read", q).paper = q
        /\ NewTask("read", q).kind = "read"
    BY DEF NewTask
  <1>5. \A u \in TaskIds \ {t} :
          \/ task'[u] = task[u]
          \/ ~Live(u) /\ At(t, "enqueueRead") /\ task'[u] = NewTask("read", q)
    BY <1>1, HandlerMoves
  <1>6. CASE p # q
    <2>1. paperStatus'[p] = paperStatus[p] /\ jobStatus'[p] = jobStatus[p]
      BY <1>1, <1>6, HandlerWrites
    <2>2. task'[t].paper = q
      BY <1>1, HandlerMoves
    <2>3. \A u \in TaskIds : (Works(u, p)' <=> Works(u, p)) /\ (Works(u, p) => task'[u] = task[u])
      BY <1>1, <1>4, <1>5, <1>6, <2>2 DEF Works, Handling, Live, At
    <2>4. QED
      BY <2>1, <2>3, TurnStays DEF Uploads
  <1>7. CASE p = q
    <2>1. \A u \in TaskIds \ {t} : ~Works(u, p)
      BY <1>3, <1>7 DEF Turn
    <2>2. \A r \in Requests : ~Uploads(r, p)'
      BY <1>3, <1>7 DEF Turn, Uploads
    <2>3. JobExists(p)' => JobExists(p) /\ Fits(t, p)
      <3>1. JobExists(p)' => JobExists(p)
        BY <1>1, <1>2, <1>7
           DEF ParseStep, MarkProcessing, MarkPaperProcessing, ParsePDF, SaveMetadata, ReplaceSections,
               InsertSection, ReplaceReferences, InsertReference, MarkParsed, EnqueueRead, MarkFailed,
               MarkPaperFailed, ReadStep, MarkReading, MarkPaperReading, CallReader, ReplaceCard, SaveCard,
               MarkCompleted, MarkPaperCompleted, MarkReadFailed, MarkPaperReadFailed, Refused, ReadRefused,
               UpdateJobStatus, UpdatePaperStatus, DeleteSections, CreateSection, DeleteReferences,
               CreateReference, DeleteCards, CreateCard, tables, JobExists
      <3>2. QED
        BY <1>3, <1>7, <3>1 DEF Turn
    <2>4. CASE EnqueueRead(t)
      <3>1. PICK u \in TaskIds : /\ Fresh(u)
                                 /\ task' = [task EXCEPT ![u] = NewTask("read", q), ![t].pc = "ack"]
        BY <1>1, <2>4 DEF EnqueueRead
      <3>2. u # t
        BY <1>2, <3>1 DEF Fresh, At, Live
      <3>3. /\ task'[u] = NewTask("read", q) /\ \A v \in TaskIds \ {t, u} : task'[v] = task[v]
            /\ task'[t].pc = "ack"
        BY <3>1, <3>2, <1>2, LiveTask DEF TypeOK, ParseTasks, ReadTasks
      <3>4. task'[t].kind = "process"
        BY <1>1, <2>4, HandlerMoves, TypeParts, TaskAtStep DEF EnqueueRead, At, ParseSteps, ParseTasks
      <3>5. Works(u, p)' /\ \A v \in TaskIds \ {u} : ~Works(v, p)'
        BY <1>4, <1>7, <2>1, <3>2, <3>3, <3>4 DEF Works, Handling, Live, At
      <3>6. UNCHANGED tables
        BY <2>4 DEF EnqueueRead
      <3>7. JobExists(p)' => Fits(u, p)'
        BY <1>4, <2>3, <2>4, <3>3, <3>6 DEF Fits, EnqueueRead, At, Agree, tables
      <3>8. QED
        BY <2>2, <3>5, <3>7 DEF Turn
    <2>5. CASE ~EnqueueRead(t)
      <3>1. ~At(t, "enqueueRead")
        BY <2>5, <1>2
           DEF ParseStep, MarkProcessing, MarkPaperProcessing, ParsePDF, SaveMetadata, ReplaceSections,
               InsertSection, ReplaceReferences, InsertReference, MarkParsed, MarkFailed,
               MarkPaperFailed, ReadStep, MarkReading, MarkPaperReading, CallReader, ReplaceCard, SaveCard,
               MarkCompleted, MarkPaperCompleted, MarkReadFailed, MarkPaperReadFailed, At
      <3>2. \A u \in TaskIds \ {t} : ~Works(u, p)'
        BY <1>5, <2>1, <3>1 DEF Works, Handling, Live, At
      <3>3. task'[t].paper = q /\ task'[t].pc # "free"
        BY <1>1, HandlerMoves
      <3>4. JobExists(p)' => Fits(t, p)'
        BY <1>1, <1>7, <2>3, <2>5, StepFits
      <3>5. ~Works(t, p)' => At(t, "ack")'
        BY <1>7, <3>3 DEF Works, Handling, Live
      <3>6. JobExists(p)' /\ ~Works(t, p)' => Agree(p)'
        BY <3>4, <3>5 DEF Fits, At
      <3>7. QED
        BY <2>2, <3>2, <3>4, <3>6 DEF Turn
    <2>6. QED
      BY <2>4, <2>5
  <1>8. QED
    BY <1>6, <1>7

\* Delivery, and the end of a handler.
LEMMA QueueTurn ==
  ASSUME TypeOK, NEW t \in TaskIds, TakeTask(t) \/ FinishTask(t), NEW p \in Papers, Turn(p)
  PROVE  Turn(p)'
  <1>1. PICK q : q = task[t].paper
    OBVIOUS
  <1>2. /\ task[t].pc \in {"waiting", "ack", "nack"}
        /\ UNCHANGED tables /\ request' = request
        /\ \A u \in TaskIds \ {t} : task'[u] = task[u]
        /\ \/ task'[t] = FreeTask
           \/ /\ task'[t].pc \in {"waiting", "markProcessing", "markReading", "nack"}
              /\ task'[t].paper = q /\ task'[t].kind = task[t].kind
    BY <1>1, QueueMoves
  <1>3. (task'[t] = FreeTask => ~Live(t)') /\ Live(t)
    BY <1>2 DEF FreeTask, Live
  <1>4. At(t, "ack") => task'[t] = FreeTask
    <2>1. ~At(t, "ack") \/ Drop(t)
      BY DEF TakeTask, FinishTask, Ack, Nack, At
    <2>2. QED
      BY <2>1 DEF Drop, TypeOK
  <1>5. CASE p # q \/ ~Works(t, p)
    <2>1. ~Works(t, p) /\ ~Works(t, p)'
      BY <1>1, <1>2, <1>3, <1>4, <1>5 DEF Works, Handling, Live, At
    <2>2. \A u \in TaskIds : (Works(u, p)' <=> Works(u, p)) /\ (Works(u, p) => task'[u] = task[u])
      BY <1>2, <2>1 DEF Works, Handling, Live, At
    <2>3. QED
      BY <1>2, <2>2, TurnStays DEF tables, Uploads
  <1>6. CASE p = q /\ Works(t, p)
    <2>1. \A u \in TaskIds \ {t} : ~Works(u, p)'
      BY <1>2, <1>6 DEF Turn, Works, Handling, Live, At
    <2>2. \A r \in Requests : ~Uploads(r, p)'
      BY <1>2, <1>6 DEF Turn, Uploads
    <2>3. JobExists(p)' => Fits(t, p) /\ Agree(p)
      BY <1>2, <1>6 DEF Turn, JobExists, tables, Fits
    <2>4. Agree(p) => Agree(p)'
      BY <1>2 DEF Agree, tables
    <2>5. JobExists(p)' /\ Works(t, p)' => Fits(t, p)'
      <3> SUFFICES ASSUME JobExists(p)', Works(t, p)' PROVE Fits(t, p)'
        OBVIOUS
      <3>1. /\ task'[t].pc \in {"waiting", "markProcessing", "markReading", "nack"}
            /\ task'[t].kind = task[t].kind
        BY <1>2, <1>3 DEF Works, Handling
      <3>2. task[t].kind = "read" => jobStatus[p] # "failed"
        <4>1. ~At(t, "nack") \/ ~RetriesSpent(t)
          <5>1. CASE At(t, "nack") /\ RetriesSpent(t)
            <6>1. Drop(t)
              BY <5>1 DEF TakeTask, FinishTask, Ack, Nack, At
            <6>2. ~Live(t)'
              BY <6>1 DEF Drop, TypeOK, FreeTask, Live
            <6>3. QED
              BY <6>2 DEF Works, Handling
          <5>2. QED
            BY <5>1
        <4>2. QED
          BY <1>2, <2>3, <4>1 DEF Fits, At
      <3>3. jobStatus'[p] = jobStatus[p] /\ Agree(p)'
        BY <1>2, <2>3, <2>4 DEF tables
      <3>4. QED
        BY <3>1, <3>2, <3>3 DEF Fits, At
    <2>6. QED
      BY <2>1, <2>2, <2>3, <2>4, <2>5 DEF Turn
  <1>7. QED
    BY <1>5, <1>6

\* An upload creates the job, or enqueues its first task.
LEMMA UploadTurn ==
  ASSUME TypeOK, OnlyUploads, NEW r \in Requests, RequestStep(r),
         NEW p \in Papers, Turn(p)
  PROVE  Turn(p)' /\ request'[r].step \in {"idle", "enqueueProcess"}
  <1>1. PICK q : q = request[r].paper
    OBVIOUS
  <1>2. (CreateJob(r) /\ RequestAt(r, "createJob")) \/ (EnqueueProcessing(r) /\ RequestAt(r, "enqueueProcess"))
    BY DEF OnlyUploads, RequestStep, CreateJob, EnqueueProcessing, EnqueueReading, ClaimFailed, InferStage,
           RequeueParse, CheckSections, RequeueRead, Respond, RequestAt
  <1>3. /\ request[r] \in PendingRequests /\ q \in Papers /\ request[r] # IdleRequest
        /\ request \in [Requests -> PendingRequests \cup {IdleRequest}]
    BY <1>1, <1>2, RequestMoves DEF TypeOK, IdleRequest, RequestAt
  <1>4. Uploads(r, q)
    BY <1>1, <1>3 DEF Uploads
  <1>5. \A x \in Requests \ {r} : request'[x] = request[x]
    BY <1>1, RequestWrites
  <1>6. Reply(r) => request'[r] = IdleRequest /\ ~Uploads(r, p)' /\ request'[r].step = "idle"
    BY <1>3 DEF Reply, Uploads, IdleRequest
  <1>7. Move(r, "enqueueProcess") => request'[r].paper = q /\ request'[r].step = "enqueueProcess"
    BY <1>1, <1>3 DEF Move, PendingRequests
  <1>8. request'[r].step \in {"idle", "enqueueProcess"}
    BY <1>2, <1>6, <1>7 DEF CreateJob, EnqueueProcessing
  <1>9. NewTask("process", q).pc = "waiting" /\ NewTask("process", q).paper = q /\ NewTask("process", q).kind = "process"
    BY DEF NewTask
  <1>10. TablesTypeOK
    BY TypeParts
  <1>11. CASE p # q
    <2>1. ~Uploads(r, p)'
      BY <1>2, <1>6, <1>7, <1>11 DEF CreateJob, EnqueueProcessing, Uploads
    <2>2. \A x \in Requests : Uploads(x, p)' => Uploads(x, p) /\ request'[x] = request[x]
      BY <1>5, <2>1 DEF Uploads
    <2>3. paperStatus'[p] = paperStatus[p] /\ jobStatus'[p] = jobStatus[p]
      BY <1>1, <1>2, <1>10, <1>11
         DEF CreateJob, EnqueueProcessing, CreateProcessingJob, SetJob, tables, TablesTypeOK
    <2>4. \A u \in TaskIds : task'[u] = task[u] \/ (~Live(u) /\ task'[u] = NewTask("process", q))
      BY <1>1, <1>2 DEF CreateJob, EnqueueProcessing, Enqueue, Fresh, At, Live, TypeOK
    <2>5. \A u \in TaskIds : (Works(u, p)' <=> Works(u, p)) /\ (Works(u, p) => task'[u] = task[u])
      BY <1>9, <1>11, <2>4 DEF Works, Handling, Live, At
    <2>6. QED
      BY <1>8, <2>2, <2>3, <2>5, TurnStays
  <1>12. CASE p = q
    <2>1. \A t \in TaskIds : ~Works(t, p)
      BY <1>4, <1>12 DEF Turn
    <2>2. \A x \in Requests \ {r} : ~Uploads(x, p)'
      BY <1>4, <1>5, <1>12 DEF Turn, Uploads
    <2>3. CASE CreateJob(r) /\ RequestAt(r, "createJob")
      <3>1. \A t \in TaskIds : ~Works(t, p)'
        BY <2>1, <2>3 DEF CreateJob, Works, Handling, Live, At
      <3>2. ~RequestAt(r, "createJob")'
        BY <1>8 DEF RequestAt
      <3>3. JobExists(p)' => Agree(p)'
        <4>1. CASE CreateProcessingJob(p)
          <5>1. paperStatus[p] = "queued"
            BY <1>4, <1>12, <2>3, <4>1 DEF Turn, CreateProcessingJob
          <5>2. QED
            BY <4>1, <5>1, <1>10 DEF CreateProcessingJob, SetJob, TablesTypeOK, Agree
        <4>2. CASE UNCHANGED tables
          BY <2>1, <4>2 DEF Turn, tables, JobExists, Agree
        <4>3. QED
          BY <1>1, <1>12, <2>3, <4>1, <4>2 DEF CreateJob
      <3>4. QED
        BY <1>8, <2>2, <3>1, <3>2, <3>3 DEF Turn
    <2>4. CASE EnqueueProcessing(r) /\ RequestAt(r, "enqueueProcess")
      <3>1. PICK u \in TaskIds : Fresh(u) /\ task' = [task EXCEPT ![u] = NewTask("process", q)]
        BY <1>1, <2>4 DEF EnqueueProcessing, Enqueue
      <3>2. task'[u] = NewTask("process", q) /\ \A v \in TaskIds \ {u} : task'[v] = task[v]
        BY <3>1 DEF TypeOK
      <3>3. \A v \in TaskIds \ {u} : ~Works(v, p)'
        BY <2>1, <3>2 DEF Works, Handling, Live, At
      <3>4. ~Uploads(r, p)' /\ UNCHANGED tables
        BY <1>6, <2>4 DEF EnqueueProcessing
      <3>5. JobExists(p)' => Agree(p)'
        BY <2>1, <3>4 DEF Turn, tables, JobExists, Agree
      <3>6. JobExists(p)' => Fits(u, p)'
        BY <1>9, <3>2, <3>5 DEF Fits, At
      <3>7. QED
        BY <1>8, <2>2, <3>3, <3>4, <3>5, <3>6 DEF Turn
    <2>5. QED
      BY <1>2, <2>3, <2>4
  <1>13. QED
    BY <1>11, <1>12

\* A new paper has no task and no job.
LEMMA NewPaperTurn ==
  ASSUME TypeOK, NoOrphanRows, UnbornIdle, OnlyUploads, OneTaskEach,
         NEW r \in Requests, NEW q \in Papers, Arrive(r, q), NEW p \in Papers, Turn(p)
  PROVE  Turn(p)' /\ request'[r].step = "createJob"
  <1>1. Upload(r, q)
    BY DEF Arrive, Retry, Reprocess, RegenerateCard, Begin, OneTaskEach
  <1>2. /\ request'[r] = [step |-> "createJob", paper |-> q] /\ RequestAt(r, "idle")
        /\ \A x \in Requests \ {r} : request'[x] = request[x]
    BY <1>1 DEF Upload, Begin, TypeOK
  <1>3. request'[r].step = "createJob" /\ request'[r].paper = q
    BY <1>2
  <1>4. paperStatus[q] = "absent" /\ paperStatus' = [paperStatus EXCEPT ![q] = "queued"] /\ UNCHANGED <<jobStatus, task>>
    BY <1>1 DEF Upload, CreatePaper
  <1>5. CASE p # q
    <2>1. ~Uploads(r, p)'
      BY <1>3, <1>5 DEF Uploads
    <2>2. \A x \in Requests : Uploads(x, p)' => Uploads(x, p) /\ request'[x] = request[x]
      BY <1>2, <2>1 DEF Uploads
    <2>3. \A u \in TaskIds : (Works(u, p)' <=> Works(u, p)) /\ task'[u] = task[u]
      BY <1>4 DEF Works, Handling, Live, At
    <2>4. paperStatus'[p] = paperStatus[p] /\ jobStatus'[p] = jobStatus[p]
      BY <1>4, <1>5, TypeParts DEF TablesTypeOK
    <2>5. QED
      BY <1>3, <2>2, <2>3, <2>4, TurnStays
  <1>6. CASE p = q
    <2>1. jobStatus'[p] = "none" /\ paperStatus'[p] = "queued"
      BY <1>4, <1>6, TypeParts DEF NoOrphanRows, NoPaperRow, TablesTypeOK
    <2>2. \A u \in TaskIds : ~Works(u, p)'
      BY <1>4, <1>6 DEF UnbornIdle, Works, Handling, Live
    <2>3. \A x \in Requests \ {r} : ~Uploads(x, p)'
      <3>1. \A x \in Requests : request[x].step \notin Answering
        BY DEF OnlyUploads, Answering
      <3>2. QED
        BY <1>2, <1>4, <1>6, <3>1 DEF UnbornIdle, Uploads
    <2>4. QED
      BY <1>3, <2>1, <2>2, <2>3 DEF Turn, JobExists
  <1>7. QED
    BY <1>5, <1>6

\* A deletion, and the cleanup, leave a paper without a job or do not touch it.
LEMMA RemovalTurn ==
  ASSUME TypeOK, (\E q \in Papers : Delete(q)) \/ HandleCleanup, NEW p \in Papers, Turn(p)
  PROVE  Turn(p)' /\ request' = request
  <1>1. UNCHANGED <<task, request>>
    BY DEF HandleCleanup, Delete
  <1>2. \/ paperStatus'[p] = paperStatus[p] /\ jobStatus'[p] = jobStatus[p]
        \/ jobStatus'[p] = "none" /\ (PaperExists(p)' => paperStatus'[p] = paperStatus[p])
    BY DeleteWrites DEF HandleCleanup, DeleteFailedJobs
  <1>3. CASE paperStatus'[p] = paperStatus[p] /\ jobStatus'[p] = jobStatus[p]
    BY <1>1, <1>3, TurnStays DEF Works, Handling, Live, At, Uploads
  <1>4. CASE jobStatus'[p] = "none" /\ (PaperExists(p)' => paperStatus'[p] = paperStatus[p])
    <2>1. /\ \A u \in TaskIds : Works(u, p)' <=> Works(u, p)
          /\ \A x \in Requests : /\ Uploads(x, p)' <=> Uploads(x, p)
                                 /\ RequestAt(x, "createJob")' <=> RequestAt(x, "createJob")
      BY <1>1 DEF Works, Handling, Live, At, Uploads, RequestAt
    <2>2. ~JobExists(p)'
      BY <1>4 DEF JobExists
    <2>3. PaperExists(p)' => PaperExists(p)
      BY <1>4 DEF PaperExists
    <2>4. QED
      BY <1>1, <1>4, <2>1, <2>2, <2>3 DEF Turn
  <1>5. QED
    BY <1>1, <1>2, <1>3, <1>4

LEMMA TurnsHold == OneTaskEach => (Spec => []Turns)
  <1> SUFFICES ASSUME OneTaskEach PROVE Spec => []Turns
    OBVIOUS
  <1>1. Init => Turns
    BY DEF Init, TablesInit, TaskInit, RequestInit, Turns, OnlyUploads, Turn, Works, Handling, Live, Uploads,
           IdleRequest, FreeTask, JobExists
  <1>2. ASSUME TypeOK, NoOrphanRows, UnbornIdle, Turns, [Next]_vars
        PROVE  Turns'
    <2> SUFFICES ASSUME Undisturbed' PROVE OnlyUploads' /\ \A p \in Papers : Turn(p)'
      BY DEF Turns
    <2>a. CASE UNCHANGED vars
      <3>1. UNCHANGED <<paperStatus, jobStatus, task, request>> /\ Undisturbed
        BY <2>a DEF vars, Undisturbed
      <3>2. OnlyUploads /\ \A p \in Papers : Turn(p)
        BY <1>2, <3>1 DEF Turns
      <3>3. ASSUME NEW p \in Papers
            PROVE  Turn(p)'
        BY <3>1, <3>2, TurnStays DEF Works, Handling, Live, At, Uploads
      <3>4. QED
        BY <3>1, <3>2, <3>3 DEF OnlyUploads
    <2>b. CASE Next
      <3>a. OnlyUploads /\ \A p \in Papers : Turn(p)
        BY <1>2, <2>b, CalmSteps DEF Turns
      <3>1. CASE \E r \in Requests, q \in Papers : Arrive(r, q)
        <4>1. PICK r \in Requests, q \in Papers : Arrive(r, q)
          BY <3>1
        <4>2. request'[r].step = "createJob" /\ \A p \in Papers : Turn(p)'
          BY <1>2, <3>a, <4>1, NewPaperTurn
        <4>3. \A x \in Requests \ {r} : request'[x] = request[x]
          BY <1>2, <4>1, ArriveWrites
        <4>4. QED
          BY <3>a, <4>2, <4>3 DEF OnlyUploads
      <3>2. CASE (\E q \in Papers : Delete(q)) \/ HandleCleanup
        <4>1. request' = request
          BY <3>2 DEF Delete, HandleCleanup
        <4>2. QED
          BY <1>2, <3>a, <3>2, <4>1, RemovalTurn DEF OnlyUploads
      <3>3. CASE \E r \in Requests : RequestStep(r)
        <4>1. PICK r \in Requests : RequestStep(r)
          BY <3>3
        <4>2. \A p \in Papers : Turn(p)' /\ request'[r].step \in {"idle", "enqueueProcess"}
          BY <1>2, <3>a, <4>1, UploadTurn
        <4>3. \A x \in Requests \ {r} : request'[x] = request[x]
          BY <1>2, <4>1, RequestWrites
        <4>4. request[r].paper \in Papers
          BY <1>2, <4>1, RequestWrites
        <4>5. QED
          BY <3>a, <4>2, <4>3, <4>4 DEF OnlyUploads
      <3>4. CASE \E t \in TaskIds : TakeTask(t) \/ FinishTask(t)
        <4>1. request' = request
          BY <1>2, <3>4, QueueMoves
        <4>2. QED
          BY <1>2, <3>a, <3>4, <4>1, QueueTurn DEF OnlyUploads
      <3>5. CASE \E t \in TaskIds : (ParseStep(t) \/ ReadStep(t)) /\ request' = request
        BY <1>2, <3>a, <3>5, HandlerTurn DEF OnlyUploads
      <3>6. QED
        BY <1>2, <2>b, <3>1, <3>2, <3>3, <3>4, <3>5, CalmSteps
    <2>c. QED
      BY <1>2, <2>a, <2>b
  <1>3. QED
    BY <1>1, <1>2, TypeCorrect, NoOrphanRowsHolds, UnbornIdleHolds, PTL DEF Spec

\* Where clients start no second task, papers.status equals the job's as soon as nobody
\* works on the paper, for any number of papers, tasks and retries.
THEOREM PaperAgreesWithJobHolds == OneTaskEach => (Spec => []PaperAgreesWithJob)
  <1> SUFFICES ASSUME OneTaskEach PROVE Spec => []PaperAgreesWithJob
    OBVIOUS
  <1>1. Turns => PaperAgreesWithJob
    BY DEF Turns, Undisturbed, PaperAgreesWithJob, Turn, AtRest, Works, Handling, Agree
  <1>2. QED
    BY <1>1, TurnsHold, PTL

\* Where clients start no second task, a read that has failed its job has no delivery
\* left and nothing more to write but papers.status.
THEOREM FailedReadIsOverHolds == OneTaskEach => (Spec => []FailedReadIsOver)
  <1> SUFFICES ASSUME OneTaskEach PROVE Spec => []FailedReadIsOver
    OBVIOUS
  <1>1. TypeOK /\ Turns => FailedReadIsOver
    <2> SUFFICES ASSUME TypeOK, Turns, Undisturbed, NEW t \in TaskIds, Live(t), task[t].kind = "read",
                        jobStatus[task[t].paper] = "failed"
                 PROVE  At(t, "markPaperReadFailed") \/ (At(t, "nack") /\ RetriesSpent(t))
      BY DEF FailedReadIsOver, Undisturbed
    <2>1. PICK p \in Papers : p = task[t].paper
      BY TypeParts, TaskAtStep
    <2>2. Works(t, p) /\ JobExists(p)
      BY <2>1 DEF Works, Handling, JobExists
    <2>3. Fits(t, p)
      BY <2>2 DEF Turns, Turn
    <2>4. QED
      BY <2>1, <2>3 DEF Fits, At
  <1>2. QED
    BY <1>1, TurnsHold, TypeCorrect, PTL
-----------------------------------------------------------------------------
(***************************************************************************)
(* Third part: the handlers, calls and the cleanup implement JobLife, for  *)
(* any number of papers, rows, tasks, retries, requests, faults and        *)
(* restarts, when the worker has a reader.  The steps of both handlers have *)
(* one of five shapes; each shape keeps the invariant LifeInv and is a step *)
(* of JobLife or a stutter.                                                *)
(***************************************************************************)

\* Some handler has written papers.status, or the paper is deleted.
Begun(p) == paperStatus[p] \notin {"absent", "queued"}

\* The paper's job is there, or is gone for good.
Known(p) == JobExists(p) \/ Begun(p)

\* The steps after a handler's first write of papers.status.
Advanced ==
  (ParseSteps \cup ReadSteps)
    \ {"markProcessing", "markPaperProcessing", "markReading", "markPaperReading"}

\* The steps of a call that has found the paper's job.
Calling ==
  {"enqueueProcess", "resetFailed", "countSections", "requeueParse", "checkSections",
   "requeueRead", "enqueueRead"}

FailedHasBegun == \A p \in Papers : jobStatus[p] = "failed" => Begun(p)

TasksKnown ==
  \A t \in TaskIds : Live(t) =>
    /\ Known(task[t].paper)
    /\ task[t].pc \in Advanced => Begun(task[t].paper)

CallsKnown == \A r \in Requests : request[r].step \in Calling => Known(request[r].paper)

\* Between CreatePaper and CreateProcessingJob an upload has the paper to itself.
UploadsAlone ==
  /\ \A r \in Requests : RequestAt(r, "createJob") =>
       \/ paperStatus[request[r].paper] = "deleted"
       \/ paperStatus[request[r].paper] = "queued" /\ jobStatus[request[r].paper] = "none"
  /\ \A r, s \in Requests :
       RequestAt(r, "createJob") /\ RequestAt(s, "createJob")
         /\ request[r].paper = request[s].paper => r = s

LifeInv ==
  /\ FailedHasBegun
  /\ TasksKnown
  /\ CallsKnown
  /\ UploadsAlone
-----------------------------------------------------------------------------
(* The shapes of a handler's steps.                                        *)

\* Steps between a handler's first write of papers.status and its last of the job's.
Middle == Advanced \ {"enqueueRead", "markPaperFailed", "markPaperCompleted", "markPaperReadFailed"}

SameStatuses == jobStatus' = jobStatus /\ paperStatus' = paperStatus

\* It works on, and no status changes.
Advances(t) ==
  /\ SameStatuses
  /\ task[t].pc \in Middle
  /\ \E s \in Middle : Moved(t, s)

PaperWrites ==
  {<<"markPaperProcessing", "parsePDF">>, <<"saveMetadata", "deleteSections">>,
   <<"markPaperReading", "readPaper">>, <<"markPaperFailed", "nack">>,
   <<"markPaperReadFailed", "nack">>, <<"markPaperCompleted", "ack">>}

\* It writes papers.status.
WritesPaper(t) ==
  /\ \E status \in StatusValues \ {"queued"} : UpdatePaperStatus(task[t].paper, status)
  /\ \E s \in {"parsePDF", "deleteSections", "readPaper", "nack", "ack"} :
       <<task[t].pc, s>> \in PaperWrites /\ Moved(t, s)

JobWriters ==
  {"markProcessing", "markParsed", "markFailed", "markReading", "markCompleted", "markReadFailed"}

\* It writes the job's status.
WritesJob(t) ==
  /\ task[t].pc \in JobWriters
  /\ JobExists(task[t].paper)
  /\ \E status \in StatusValues, s \in QueueSteps \cup ParseSteps \cup ReadSteps :
       /\ SetJob(task[t].paper, status)
       /\ Moved(t, s)
       /\ s \in Advanced => task[t].pc \in Advanced
       /\ status = "failed" => task[t].pc \in Advanced
       /\ status \in {"failed", "completed"} \/ WorksOn(t, task[t].paper)'

\* It finds no job to write.
FindsNoJob(t) ==
  /\ task[t].pc \in JobWriters
  /\ ~JobExists(task[t].paper)
  /\ SameStatuses
  /\ Moved(t, "nack")

\* The steps of ProcessPaper have these shapes.
LEMMA ParseShapes ==
  ASSUME TypeOK, ReaderConfigured, NEW t \in TaskIds, ParseStep(t)
  PROVE  Advances(t) \/ WritesPaper(t) \/ WritesJob(t) \/ FindsNoJob(t) \/ EnqueueRead(t)
  <1>a. task[t].pc \in ParseSteps /\ Live(t)
    BY DEF ParseStep, MarkProcessing, MarkPaperProcessing, ParsePDF, SaveMetadata, ReplaceSections,
           InsertSection, ReplaceReferences, InsertReference, MarkParsed, EnqueueRead, MarkFailed,
           MarkPaperFailed, At, ParseSteps, Live
  <1>b. \A s : Goto(t, s) => Moved(t, s)
    BY <1>a, GotoMoves
  <1>c. \A i, n, body, exit : LoopFrom(t, i, n, body, exit) => Moved(t, body) \/ Moved(t, exit)
    BY <1>a, LoopMoves
  <1>d. UNCHANGED tables => SameStatuses
    BY DEF tables, SameStatuses
  <1>e. {"parsePDF", "saveMetadata", "deleteSections", "createSections", "deleteReferences",
         "createReferences", "markParsed", "markFailed"} \subseteq Middle
    BY DEF Middle, Advanced, ParseSteps
  <1>f. ASSUME task[t].pc \in {"parsePDF", "saveMetadata", "deleteSections", "createSections",
                               "deleteReferences", "createReferences"}, Refused(t)
        PROVE  Advances(t)
    BY <1>f, <1>a, <1>b, <1>d, <1>e DEF Refused, ParseError, Advances
  <1>g. ASSUME task[t].pc \in {"markProcessing", "markParsed", "markFailed"}, Refused(t),
               ~JobExists(task[t].paper)
        PROVE  FindsNoJob(t)
    BY <1>g, <1>a, <1>b, <1>d DEF Refused, ParseError, FindsNoJob, JobWriters
  <1>1. CASE MarkProcessing(t)
    <2>1. ASSUME UpdateJobStatus(task[t].paper, "processing"), Goto(t, "markPaperProcessing")
          PROVE  WritesJob(t)
      <3>1. WorksOn(t, task[t].paper)'
        BY <2>1, <1>b DEF Moved, WorksOn, Live
      <3>2. QED
        BY <1>1, <2>1, <1>b, <3>1
           DEF MarkProcessing, At, WritesJob, JobWriters, UpdateJobStatus, StatusValues, ParseSteps, Advanced
    <2>2. QED
      BY <1>1, <2>1, <1>g DEF MarkProcessing, At
  <1>2. CASE MarkPaperProcessing(t)
    BY <1>2, <1>b DEF MarkPaperProcessing, At, WritesPaper, PaperWrites, StatusValues
  <1>3. CASE ParsePDF(t)
    BY <1>3, <1>b, <1>d, <1>e, <1>f DEF ParsePDF, At, Advances
  <1>4. CASE SaveMetadata(t)
    BY <1>4, <1>b, <1>f DEF SaveMetadata, At, WritesPaper, PaperWrites, StatusValues
  <1>5. CASE ReplaceSections(t)
    BY <1>5, <1>c, <1>e DEF ReplaceSections, At, DeleteSections, Advances, SameStatuses
  <1>6. CASE InsertSection(t)
    BY <1>6, <1>c, <1>e, <1>f DEF InsertSection, At, CreateSection, Advances, SameStatuses
  <1>7. CASE ReplaceReferences(t)
    BY <1>7, <1>c, <1>e DEF ReplaceReferences, At, DeleteReferences, Advances, SameStatuses
  <1>8. CASE InsertReference(t)
    BY <1>8, <1>c, <1>e, <1>f DEF InsertReference, At, CreateReference, Advances, SameStatuses
  <1>9. CASE MarkParsed(t)
    <2>1. ASSUME UpdateJobStatus(task[t].paper, "parsed"), Goto(t, "enqueueRead")
          PROVE  WritesJob(t)
      <3>1. WorksOn(t, task[t].paper)'
        BY <2>1, <1>b DEF Moved, WorksOn, Live
      <3>2. QED
        BY <1>9, <2>1, <1>b, <3>1
           DEF MarkParsed, At, WritesJob, JobWriters, UpdateJobStatus, StatusValues, ParseSteps, Advanced
    <2>2. QED
      BY <1>9, <2>1, <1>g DEF MarkParsed, At
  <1>10. CASE MarkFailed(t)
    <2>1. ASSUME UpdateJobStatus(task[t].paper, "failed"), Goto(t, "markPaperFailed")
          PROVE  WritesJob(t)
      BY <1>10, <2>1, <1>b
         DEF MarkFailed, At, WritesJob, JobWriters, UpdateJobStatus, StatusValues, ParseSteps, Advanced
    <2>2. QED
      BY <1>10, <2>1, <1>g DEF MarkFailed, At
  <1>11. CASE MarkPaperFailed(t)
    BY <1>11, <1>b DEF MarkPaperFailed, At, WritesPaper, PaperWrites, StatusValues
  <1>12. QED
    BY <1>1, <1>2, <1>3, <1>4, <1>5, <1>6, <1>7, <1>8, <1>9, <1>10, <1>11 DEF ParseStep

\* And those of ReadPaper.
LEMMA ReadShapes ==
  ASSUME TypeOK, NEW t \in TaskIds, ReadStep(t)
  PROVE  Advances(t) \/ WritesPaper(t) \/ WritesJob(t) \/ FindsNoJob(t)
  <1>a. task[t].pc \in ReadSteps /\ Live(t)
    BY DEF ReadStep, MarkReading, MarkPaperReading, CallReader, ReplaceCard, SaveCard, MarkCompleted,
           MarkPaperCompleted, MarkReadFailed, MarkPaperReadFailed, At, ReadSteps, Live
  <1>b. \A s : Goto(t, s) => Moved(t, s)
    BY <1>a, GotoMoves
  <1>d. UNCHANGED tables => SameStatuses
    BY DEF tables, SameStatuses
  <1>e. {"readPaper", "deleteCards", "createCard", "markCompleted", "markReadFailed"} \subseteq Middle
    BY DEF Middle, Advanced, ReadSteps
  <1>f. ASSUME task[t].pc \in {"readPaper", "deleteCards", "createCard"}, ReadRefused(t)
        PROVE  Advances(t)
    BY <1>f, <1>a, <1>b, <1>d, <1>e DEF ReadRefused, ReadError, Advances
  <1>g. ASSUME task[t].pc \in {"markReading", "markCompleted", "markReadFailed"}, ReadRefused(t),
               ~JobExists(task[t].paper)
        PROVE  FindsNoJob(t)
    BY <1>g, <1>a, <1>b, <1>d DEF ReadRefused, ReadError, FindsNoJob, JobWriters
  <1>1. CASE MarkReading(t)
    <2>1. ASSUME UpdateJobStatus(task[t].paper, "reading"), Goto(t, "markPaperReading")
          PROVE  WritesJob(t)
      <3>1. WorksOn(t, task[t].paper)'
        BY <2>1, <1>b DEF Moved, WorksOn, Live
      <3>2. QED
        BY <1>1, <2>1, <1>b, <3>1
           DEF MarkReading, At, WritesJob, JobWriters, UpdateJobStatus, StatusValues, ReadSteps, Advanced
    <2>2. QED
      BY <1>1, <2>1, <1>g DEF MarkReading, At
  <1>2. CASE MarkPaperReading(t)
    BY <1>2, <1>b DEF MarkPaperReading, At, WritesPaper, PaperWrites, StatusValues
  <1>3. CASE CallReader(t)
    BY <1>3, <1>b, <1>d, <1>e, <1>f DEF CallReader, At, Advances
  <1>4. CASE ReplaceCard(t)
    BY <1>4, <1>b, <1>e DEF ReplaceCard, At, DeleteCards, Advances, SameStatuses
  <1>5. CASE SaveCard(t)
    BY <1>5, <1>b, <1>e, <1>f DEF SaveCard, At, CreateCard, Advances, SameStatuses
  <1>6. CASE MarkCompleted(t)
    <2>1. ASSUME UpdateJobStatus(task[t].paper, "completed"), Goto(t, "markPaperCompleted")
          PROVE  WritesJob(t)
      BY <1>6, <2>1, <1>b
         DEF MarkCompleted, At, WritesJob, JobWriters, UpdateJobStatus, StatusValues, ReadSteps, Advanced
    <2>2. QED
      BY <1>6, <2>1, <1>g DEF MarkCompleted, At
  <1>7. CASE MarkPaperCompleted(t)
    BY <1>7, <1>b DEF MarkPaperCompleted, At, WritesPaper, PaperWrites, StatusValues
  <1>8. CASE MarkReadFailed(t)
    <2>1. ASSUME UpdateJobStatus(task[t].paper, "failed"), Goto(t, "markPaperReadFailed")
          PROVE  WritesJob(t)
      BY <1>8, <2>1, <1>b
         DEF MarkReadFailed, At, WritesJob, JobWriters, UpdateJobStatus, StatusValues, ReadSteps, Advanced
    <2>2. ASSUME ~IsFinalAttempt(t), UpdateJobStatus(task[t].paper, "reading"), Goto(t, "nack")
          PROVE  WritesJob(t)
      <3>1. WorksOn(t, task[t].paper)'
        BY <2>2, <1>b DEF Moved, WorksOn, Live, IsFinalAttempt, RetriesSpent
      <3>2. "nack" \in QueueSteps /\ "nack" \notin Advanced /\ "reading" \in StatusValues
        BY DEF QueueSteps, Advanced, ParseSteps, ReadSteps, StatusValues
      <3>3. QED
        BY <1>8, <2>2, <1>b, <3>1, <3>2 DEF MarkReadFailed, At, WritesJob, JobWriters, UpdateJobStatus
    <2>3. QED
      BY <1>8, <2>1, <2>2, <1>g DEF MarkReadFailed, At
  <1>9. CASE MarkPaperReadFailed(t)
    BY <1>9, <1>b DEF MarkPaperReadFailed, At, WritesPaper, PaperWrites, StatusValues
  <1>10. QED
    BY <1>1, <1>2, <1>3, <1>4, <1>5, <1>6, <1>7, <1>8, <1>9 DEF ReadStep
-----------------------------------------------------------------------------
(* LifeInv is an invariant.                                                *)

Grows == \A p \in Papers : (Begun(p) => Begun(p)') /\ (Known(p) => Known(p)')

\* No statement takes a paper back to where nothing has begun, and a job goes only
\* when its paper does or after it has failed.
LEMMA StatementsGrow ==
  ASSUME TypeOK, FailedHasBegun
  PROVE  /\ SameStatuses => Grows
         /\ \A q \in Papers :
              /\ \A status \in StatusValues : SetJob(q, status) => Grows
              /\ \A status \in StatusValues \ {"queued"} : UpdatePaperStatus(q, status) => Grows
              /\ CreatePaper(q) => Grows
              /\ DeletePaper(q) => Grows
         /\ \A old \in SUBSET Papers : DeleteFailedJobs(old) => Grows
  <1> USE DEF Grows, Begun, Known, JobExists
  <1>a. /\ paperStatus \in [Papers -> StatusValues \cup NoPaperRow]
        /\ jobStatus \in [Papers -> StatusValues \cup {"none"}]
    BY DEF TypeOK, TablesTypeOK
  <1>1. SameStatuses => Grows
    BY DEF SameStatuses
  <1>2. ASSUME NEW q \in Papers, NEW status \in StatusValues, SetJob(q, status)
        PROVE  Grows
    BY <1>2, <1>a DEF SetJob, StatusValues
  <1>3. ASSUME NEW q \in Papers, NEW status \in StatusValues \ {"queued"}, UpdatePaperStatus(q, status)
        PROVE  Grows
    BY <1>3, <1>a DEF UpdatePaperStatus, StatusValues
  <1>4. ASSUME NEW q \in Papers, CreatePaper(q)
        PROVE  Grows
    BY <1>4, <1>a DEF CreatePaper
  <1>5. ASSUME NEW q \in Papers, DeletePaper(q)
        PROVE  Grows
    BY <1>5, <1>a DEF DeletePaper
  <1>6. ASSUME NEW old \in SUBSET Papers, DeleteFailedJobs(old)
        PROVE  Grows
    BY <1>6, <1>a DEF DeleteFailedJobs, FailedHasBegun
  <1>7. QED
    BY <1>1, <1>2, <1>3, <1>4, <1>5, <1>6

\* A paper of which a task is live has its row, or had it.
LEMMA LivePaper ==
  ASSUME TypeOK, NoOrphanRows, TasksKnown, NEW t \in TaskIds, Live(t), NEW q, q = task[t].paper
  PROVE  /\ q \in Papers /\ Known(q) /\ paperStatus[q] # "absent"
         /\ task[t].pc \in Advanced => Begun(q)
  BY TypeParts, TaskAtStep DEF TasksKnown, NoOrphanRows, NoPaperRow, Known, JobExists, Begun

\* A step of a handler leaves LifeInv true, whatever its shape.
LEMMA HandlerKeeps ==
  ASSUME TypeOK, NoOrphanRows, LifeInv, NEW t \in TaskIds, request' = request,
         Advances(t) \/ WritesPaper(t) \/ WritesJob(t) \/ FindsNoJob(t) \/ EnqueueRead(t)
  PROVE  LifeInv'
  <1> DEFINE q == task[t].paper
  <1> USE DEF LifeInv
  <1>a. /\ paperStatus \in [Papers -> StatusValues \cup NoPaperRow]
        /\ jobStatus \in [Papers -> StatusValues \cup {"none"}]
        /\ task \in [TaskIds -> TaskType]
    BY TypeParts DEF TablesTypeOK, TasksTyped
  <1>b. /\ Live(t) /\ q \in Papers /\ Known(q) /\ paperStatus[q] # "absent"
        /\ task[t].pc \in Advanced => Begun(q)
    <2>1. Live(t)
      BY DEF Advances, WritesPaper, PaperWrites, WritesJob, FindsNoJob, EnqueueRead, Live, At, Middle,
             Advanced, ParseSteps, ReadSteps, JobWriters
    <2>2. QED
      BY <2>1, LivePaper
  <1>c. /\ SameStatuses \/ (\E status \in StatusValues : SetJob(q, status))
              \/ (\E status \in StatusValues \ {"queued"} : UpdatePaperStatus(q, status))
    BY DEF Advances, WritesPaper, WritesJob, FindsNoJob, EnqueueRead, SameStatuses, tables
  <1>d. Grows
    BY <1>b, <1>c, StatementsGrow
  <1>1. FailedHasBegun'
    <2> SUFFICES ASSUME NEW p \in Papers, jobStatus'[p] = "failed"
                 PROVE  Begun(p)'
      BY DEF FailedHasBegun
    <2>1. CASE jobStatus[p] = "failed"
      BY <2>1, <1>d DEF FailedHasBegun, Grows
    <2>2. CASE jobStatus[p] # "failed"
      <3>1. WritesJob(t) /\ p = q
        BY <2>2, <1>a DEF Advances, WritesPaper, WritesJob, FindsNoJob, EnqueueRead, SameStatuses, tables,
                          SetJob, UpdatePaperStatus
      <3>2. task[t].pc \in Advanced
        BY <3>1, <1>a, <1>b DEF WritesJob, SetJob
      <3>3. QED
        BY <3>1, <3>2, <1>b, <1>d DEF Grows
    <2>3. QED
      BY <2>1, <2>2
  <1>2. TasksKnown'
    <2> SUFFICES ASSUME NEW u \in TaskIds, Live(u)', NEW p, p = task'[u].paper
                 PROVE  Known(p)' /\ (task'[u].pc \in Advanced => Begun(p)')
      BY DEF TasksKnown, Known, JobExists, Begun
    <2>1. CASE EnqueueRead(t)
      <3>1. PICK v \in TaskIds : /\ Fresh(v)
                                 /\ task' = [task EXCEPT ![v] = NewTask("read", q), ![t].pc = "ack"]
        BY <2>1 DEF EnqueueRead
      <3>2. v # t
        BY <3>1, <1>b DEF Fresh, At, Live
      <3>3. task'[v] = NewTask("read", q) /\ \A w \in TaskIds \ {t, v} : task'[w] = task[w]
        BY <3>1, <3>2, <1>a
      <3>4. task'[t].pc = "ack" /\ task'[t].paper = q
        BY <3>1, <3>2, <1>a, <1>b, LiveTask DEF ParseTasks, ReadTasks
      <3>5. {"ack", "waiting"} \cap Advanced = {}
        BY DEF Advanced, ParseSteps, ReadSteps
      <3>6. CASE u \in {t, v}
        BY <3>6, <3>3, <3>4, <3>5, <1>b, <1>d DEF NewTask, Grows
      <3>7. CASE u \notin {t, v}
        BY <3>7, <3>3, <1>d, LivePaper DEF Grows, Live
      <3>8. QED
        BY <3>6, <3>7
    <2>2. CASE ~EnqueueRead(t)
      <3>1. PICK s : Moved(t, s) /\ (s \in Advanced => task[t].pc \in Advanced \/ WritesPaper(t))
        BY <2>2 DEF Advances, WritesPaper, WritesJob, FindsNoJob, Middle, Advanced, ParseSteps, ReadSteps
      <3>2. CASE u # t
        BY <3>1, <3>2, <1>d, LivePaper DEF Grows, Live, Moved
      <3>3. CASE u = t
        <4>1. ASSUME WritesPaper(t), NEW x, x = q
              PROVE  Begun(x)'
          BY <4>1, <1>a, <1>b DEF WritesPaper, UpdatePaperStatus, Begun, PaperExists, NoPaperRow, StatusValues
        <4>2. QED
          BY <4>1, <3>1, <3>3, <1>b, <1>d DEF Grows, Moved
      <3>4. QED
        BY <3>2, <3>3
    <2>3. QED
      BY <2>1, <2>2
  <1>3. CallsKnown'
    <2>1. \A r \in Requests : request[r].step \in Calling => request[r].paper \in Papers
      BY RequestMoves DEF Calling
    <2>2. QED
      BY <2>1, <1>d DEF CallsKnown, Grows
  <1>4. UploadsAlone'
    <2>1. ASSUME NEW r \in Requests, RequestAt(r, "createJob")
          PROVE  \/ paperStatus'[request[r].paper] = "deleted"
                 \/ paperStatus'[request[r].paper] = "queued" /\ jobStatus'[request[r].paper] = "none"
      <3>1. request[r].paper \in Papers
        BY <2>1, RequestMoves DEF RequestAt
      <3>2. CASE paperStatus[request[r].paper] = "deleted"
        BY <3>1, <3>2, <1>a, <1>b, <1>c
           DEF SameStatuses, SetJob, UpdatePaperStatus, PaperExists, NoPaperRow
      <3>3. CASE paperStatus[request[r].paper] = "queued" /\ jobStatus[request[r].paper] = "none"
        <4>1. request[r].paper # q
          BY <3>3, <1>b DEF Known, JobExists, Begun
        <4>2. QED
          BY <3>1, <3>3, <4>1, <1>a, <1>b, <1>c DEF SameStatuses, SetJob, UpdatePaperStatus
      <3>4. QED
        BY <2>1, <3>2, <3>3 DEF UploadsAlone
    <2>2. QED
      BY <2>1 DEF UploadsAlone, RequestAt
  <1>5. QED
    BY <1>1, <1>2, <1>3, <1>4

\* The queue moves one task on or back, or frees its slot.
Shifts(t) ==
  /\ SameStatuses /\ request' = request
  /\ Live(t)
  /\ \A u \in TaskIds \ {t} : task'[u] = task[u]
  /\ \/ task'[t] = FreeTask
     \/ /\ task'[t].pc # "free" /\ task'[t].paper = task[t].paper
        /\ task'[t].pc \in Advanced => task[t].pc \in Advanced

\* The steps of the queue, and failing steps of a handler, are such moves.
LEMMA QueueShifts ==
  ASSUME TypeOK, NEW t \in TaskIds,
         TakeTask(t) \/ FinishTask(t) \/ HandlerFault(t) \/ WorkerStops(t) \/ LastAttemptLost(t)
  PROVE  Shifts(t)
  <1>a. SameStatuses /\ request' = request
    BY DEF TakeTask, FinishTask, HandlerFault, WorkerStops, LastAttemptLost, tables, SameStatuses
  <1>b. Live(t)
    BY DEF TakeTask, FinishTask, Ack, Nack, HandlerFault, WorkerStops, Requeue, LoseAttempt,
           LastAttemptLost, LoseLastAttempt, Running, Live, At, ParseSteps, ReadSteps
  <1>c. Drop(t) => Shifts(t)
    BY <1>a, <1>b DEF Drop, TypeOK, Shifts
  <1>d. ASSUME Redeliver(t) \/ Requeue(t)
        PROVE  Shifts(t)
    <2>1. /\ task'[t].pc = "waiting" /\ task'[t].paper = task[t].paper
          /\ \A u \in TaskIds \ {t} : task'[u] = task[u]
      <3>1. CASE Redeliver(t)
        BY <1>b, <3>1, LiveTask DEF Redeliver, TypeOK, ParseTasks, ReadTasks
      <3>2. CASE Requeue(t)
        BY <1>b, <3>2, LiveTask DEF Requeue, TypeOK, ParseTasks, ReadTasks
      <3>3. QED
        BY <1>d, <3>1, <3>2
    <2>2. QED
      BY <2>1, <1>a, <1>b DEF Shifts, Advanced, ParseSteps, ReadSteps
  <1>e. ASSUME NEW s, Goto(t, s), s # "free", s \in Advanced => task[t].pc \in Advanced
        PROVE  Shifts(t)
    BY <1>e, <1>a, <1>b, GotoMoves DEF Moved, Shifts
  <1>1. CASE TakeTask(t)
    <2>1. FirstStep(task[t].kind) \in {"markProcessing", "markReading", "nack"}
      BY <1>b, TypeParts, TaskAtStep DEF FirstStep
    <2>2. QED
      BY <1>1, <2>1, <1>e DEF TakeTask, Dequeue, Advanced, ParseSteps, ReadSteps
  <1>2. CASE FinishTask(t) \/ WorkerStops(t) \/ LastAttemptLost(t)
    BY <1>2, <1>c, <1>d DEF FinishTask, Ack, Nack, WorkerStops, LoseAttempt, LastAttemptLost, LoseLastAttempt
  <1>3. CASE HandlerFault(t)
    <2>1. CASE task[t].pc \in ParseSteps /\ Goto(t, ParseError[task[t].pc])
      <3>1. /\ ParseError[task[t].pc] \in {"markFailed", "nack"}
            /\ ParseError[task[t].pc] \in Advanced => task[t].pc \in Advanced
        BY <2>1 DEF ParseError, Advanced, ParseSteps, ReadSteps
      <3>2. QED
        BY <2>1, <3>1, <1>e
    <2>2. CASE task[t].pc \in ReadSteps /\ Goto(t, ReadError[task[t].pc])
      <3>1. /\ ReadError[task[t].pc] \in {"markReadFailed", "nack"}
            /\ ReadError[task[t].pc] \in Advanced => task[t].pc \in Advanced
        BY <2>2 DEF ReadError, Advanced, ParseSteps, ReadSteps
      <3>2. QED
        BY <2>2, <3>1, <1>e
    <2>3. QED
      BY <1>3, <2>1, <2>2 DEF HandlerFault
  <1>4. QED
    BY <1>1, <1>2, <1>3

\* They leave LifeInv true.
LEMMA ShiftKeeps ==
  ASSUME TypeOK, NoOrphanRows, LifeInv, NEW t \in TaskIds, Shifts(t)
  PROVE  LifeInv'
  <1> USE DEF LifeInv
  <1>a. Grows
    BY StatementsGrow DEF Shifts
  <1>1. TasksKnown'
    <2> SUFFICES ASSUME NEW u \in TaskIds, Live(u)', NEW p, p = task'[u].paper
                 PROVE  Known(p)' /\ (task'[u].pc \in Advanced => Begun(p)')
      BY DEF TasksKnown, Known, JobExists, Begun
    <2>1. Live(u) /\ p = task[u].paper /\ (task'[u].pc \in Advanced => task[u].pc \in Advanced)
      BY DEF Shifts, Live, FreeTask
    <2>2. QED
      BY <2>1, <1>a, LivePaper DEF Grows
  <1>2. FailedHasBegun' /\ CallsKnown' /\ UploadsAlone'
    <2>1. \A r \in Requests : request[r].step # "idle" => request[r].paper \in Papers
      BY RequestMoves
    <2>2. QED
      BY <2>1 DEF Shifts, SameStatuses, FailedHasBegun, CallsKnown, UploadsAlone, RequestAt,
                  Begun, Known, JobExists, Calling
  <1>3. QED
    BY <1>1, <1>2

\* What a step of a request or the cleanup must not do to the papers being uploaded.
SparesUploads(r) ==
  /\ \A s \in Requests \ {r} : request'[s] = request[s]
  /\ request'[r].step # "createJob"
  /\ \A p \in Papers : paperStatus'[p] = paperStatus[p]
  /\ \A p \in Papers :
       jobStatus[p] = "none" => \/ jobStatus'[p] = "none"
                                \/ RequestAt(r, "createJob") /\ p = request[r].paper

\* The papers that other requests upload stay theirs.
LEMMA UploadsStay ==
  ASSUME TypeOK, LifeInv, NEW r \in Requests, SparesUploads(r)
  PROVE  UploadsAlone'
  <1>1. ASSUME NEW s \in Requests, RequestAt(s, "createJob")'
        PROVE  /\ s # r /\ request'[s] = request[s] /\ RequestAt(s, "createJob")
               /\ request[s].paper \in Papers
               /\ RequestAt(r, "createJob") => request[r].paper # request[s].paper
    BY <1>1, RequestMoves DEF SparesUploads, RequestAt, LifeInv, UploadsAlone
  <1>2. ASSUME NEW s \in Requests, RequestAt(s, "createJob")'
        PROVE  \/ paperStatus'[request'[s].paper] = "deleted"
               \/ paperStatus'[request'[s].paper] = "queued" /\ jobStatus'[request'[s].paper] = "none"
    BY <1>1, <1>2 DEF SparesUploads, LifeInv, UploadsAlone
  <1>3. QED
    BY <1>1, <1>2 DEF LifeInv, UploadsAlone, RequestAt

\* A step of a request leaves LifeInv true.
LEMMA RequestKeeps ==
  ASSUME TypeOK, NoOrphanRows, LifeInv, NEW r \in Requests, RequestStep(r)
  PROVE  LifeInv'
  <1> PICK q : q = request[r].paper
    OBVIOUS
  <1> USE DEF LifeInv
  <1>a. /\ paperStatus \in [Papers -> StatusValues \cup NoPaperRow]
        /\ jobStatus \in [Papers -> StatusValues \cup {"none"}]
    BY DEF TypeOK, TablesTypeOK
  <1>b. request[r].step # "idle" /\ q \in Papers /\ request[r] \in PendingRequests
    <2>1. request[r].step # "idle"
      BY DEF RequestStep, CreateJob, EnqueueProcessing, EnqueueReading, ClaimFailed, InferStage,
             RequeueParse, CheckSections, RequeueRead, Respond, RequestAt
    <2>2. QED
      BY <2>1, RequestMoves DEF TypeOK, IdleRequest
  <1>c. UNCHANGED tables => SameStatuses
    BY DEF tables, SameStatuses
  <1>d. \/ SameStatuses
        \/ SetJob(q, "queued") /\ (JobExists(q) \/ RequestAt(r, "createJob"))
    BY <1>c DEF RequestStep, CreateJob, EnqueueProcessing, EnqueueReading, ClaimFailed, InferStage,
                RequeueParse, CheckSections, RequeueRead, Respond, CreateProcessingJob, ResetFailedJob,
                RequeueJob, JobExists
  <1>e. "queued" \in StatusValues
    BY DEF StatusValues
  <1>f. Grows
    BY <1>b, <1>d, <1>e, StatementsGrow
  <1>g. \/ Reply(r)
        \/ \E s \in RequestSteps : Move(r, s) /\ s # "createJob" /\ (s \in Calling => Known(q)')
    <2>1. CASE CreateJob(r)
      <3>1. CASE CreateProcessingJob(q) /\ Move(r, "enqueueProcess")
        BY <3>1, <1>a, <1>b DEF CreateProcessingJob, SetJob, Known, JobExists, RequestSteps
      <3>2. QED
        BY <2>1, <3>1 DEF CreateJob
    <2>2. CASE EnqueueProcessing(r) \/ EnqueueReading(r) \/ Respond(r)
      BY <2>2 DEF EnqueueProcessing, EnqueueReading, Respond
    <2>3. CASE ClaimFailed(r) \/ InferStage(r) \/ RequeueParse(r) \/ CheckSections(r) \/ RequeueRead(r)
      <3>1. Known(q)'
        <4>1. Known(q)
          BY <2>3 DEF ClaimFailed, InferStage, RequeueParse, CheckSections, RequeueRead, RequestAt,
                      CallsKnown, Calling
        <4>2. QED
          BY <4>1, <1>b, <1>f DEF Grows
      <3>2. QED
        BY <2>3, <3>1 DEF ClaimFailed, InferStage, RequeueParse, CheckSections, RequeueRead, RequestSteps
    <2>4. QED
      BY <2>1, <2>2, <2>3 DEF RequestStep
  <1>1. FailedHasBegun'
    <2>1. \A p \in Papers : jobStatus'[p] = "failed" => jobStatus[p] = "failed"
      BY <1>a, <1>b, <1>d DEF SameStatuses, SetJob
    <2>2. QED
      BY <2>1, <1>f DEF FailedHasBegun, Grows
  <1>2. TasksKnown'
    <2> SUFFICES ASSUME NEW u \in TaskIds, Live(u)', NEW p, p = task'[u].paper
                 PROVE  Known(p)' /\ (task'[u].pc \in Advanced => Begun(p)')
      BY DEF TasksKnown, Known, JobExists, Begun
    <2>1. CASE UNCHANGED task
      <3>1. Live(u) /\ p = task[u].paper
        BY <2>1 DEF Live
      <3>2. QED
        BY <2>1, <3>1, <1>f, LivePaper DEF Grows
    <2>2. ASSUME NEW kind, Enqueue(kind, q), request[r].step \in Calling
          PROVE  Known(p)' /\ (task'[u].pc \in Advanced => Begun(p)')
      <3>1. PICK v \in TaskIds : Fresh(v) /\ task' = [task EXCEPT ![v] = NewTask(kind, q)]
        BY <2>2 DEF Enqueue
      <3>2. CASE u = v
        <4>1. task'[u] = NewTask(kind, q)
          BY <3>1, <3>2 DEF TypeOK
        <4>2. p = q /\ task'[u].pc = "waiting"
          BY <4>1 DEF NewTask
        <4>3. Known(q)
          BY <2>2 DEF CallsKnown
        <4>4. QED
          BY <4>2, <4>3, <1>b, <1>f DEF Grows, Advanced, ParseSteps, ReadSteps
      <3>3. CASE u # v
        <4>1. task'[u] = task[u]
          BY <3>1, <3>3 DEF TypeOK
        <4>2. Live(u) /\ p = task[u].paper
          BY <4>1 DEF Live
        <4>3. QED
          BY <4>1, <4>2, <1>f, LivePaper DEF Grows
      <3>4. QED
        BY <3>2, <3>3
    <2>3. \/ UNCHANGED task
          \/ request[r].step \in Calling /\ \E kind : Enqueue(kind, q)
      BY DEF RequestStep, CreateJob, EnqueueProcessing, EnqueueReading, ClaimFailed, InferStage,
             RequeueParse, CheckSections, RequeueRead, Respond, RequestAt, Calling
    <2>4. QED
      BY <2>1, <2>2, <2>3
  <1>h. /\ \A s \in Requests \ {r} : request'[s] = request[s]
        /\ request'[r].step # "createJob"
        /\ request'[r].step \in Calling => request'[r].paper = q /\ Known(q)'
    <2>1. CASE Reply(r)
      BY <2>1 DEF Reply, TypeOK, IdleRequest, Calling
    <2>2. CASE ~Reply(r)
      BY <2>2, <1>b, <1>g DEF Move, TypeOK, PendingRequests
    <2>3. QED
      BY <2>1, <2>2
  <1>3. CallsKnown'
    <2> SUFFICES ASSUME NEW s \in Requests, request'[s].step \in Calling, NEW p, p = request'[s].paper
                 PROVE  Known(p)'
      BY DEF CallsKnown, Known, JobExists, Begun
    <2>1. CASE s = r
      BY <2>1, <1>h
    <2>2. CASE s # r
      <3>1. request[s].step \in Calling /\ p = request[s].paper
        BY <2>2, <1>h
      <3>2. p \in Papers /\ Known(p)
        BY <3>1, RequestMoves DEF CallsKnown, Calling
      <3>3. QED
        BY <3>2, <1>f DEF Grows
    <2>3. QED
      BY <2>1, <2>2
  <1>4. UploadsAlone'
    <2>1. SparesUploads(r)
      BY <1>a, <1>b, <1>d, <1>h DEF SparesUploads, SameStatuses, SetJob, JobExists, RequestAt
    <2>2. QED
      BY <2>1, UploadsStay
  <1>5. QED
    BY <1>1, <1>2, <1>3, <1>4

\* A call that is answered early, by a fault, leaves LifeInv true.
LEMMA RequestFaultKeeps ==
  ASSUME TypeOK, LifeInv, NEW r \in Requests, RequestFault(r)
  PROVE  LifeInv'
  <1>1. /\ SameStatuses /\ task' = task /\ request'[r] = IdleRequest
        /\ \A s \in Requests \ {r} : request'[s] = request[s]
    BY DEF RequestFault, Reply, tables, SameStatuses, TypeOK
  <1>2. UploadsAlone'
    <2>1. SparesUploads(r)
      BY <1>1 DEF SparesUploads, SameStatuses, IdleRequest, RequestAt
    <2>2. QED
      BY <2>1, UploadsStay
  <1>3. FailedHasBegun' /\ TasksKnown'
    BY <1>1 DEF LifeInv, SameStatuses, FailedHasBegun, TasksKnown, Begun, Known, JobExists, Live
  <1>4. CallsKnown'
    BY <1>1 DEF LifeInv, SameStatuses, CallsKnown, Begun, Known, JobExists, Calling, IdleRequest
  <1>5. QED
    BY <1>2, <1>3, <1>4 DEF LifeInv

\* So does the first statement of a call.
LEMMA ArriveKeeps ==
  ASSUME TypeOK, NoOrphanRows, LifeInv, NEW r \in Requests, NEW q \in Papers, Arrive(r, q)
  PROVE  LifeInv'
  <1> USE DEF LifeInv
  <1>a. /\ paperStatus \in [Papers -> StatusValues \cup NoPaperRow]
        /\ request \in [Requests -> PendingRequests \cup {IdleRequest}]
    BY DEF TypeOK, TablesTypeOK
  <1>b. /\ task' = task /\ jobStatus' = jobStatus
        /\ request[r].step = "idle" /\ request'[r].paper = q
        /\ \A s \in Requests \ {r} : request'[s] = request[s]
    BY <1>a DEF Arrive, Upload, Retry, Reprocess, RegenerateCard, Begin, CreatePaper, RequestAt, tables
  <1>c. \/ CreatePaper(q) /\ request'[r].step = "createJob"
        \/ /\ SameStatuses /\ request'[r].step # "createJob"
           /\ request'[r].step \in Calling => JobExists(q)
    <2>1. CASE Upload(r, q)
      BY <2>1, <1>a DEF Upload, Begin
    <2>2. CASE Retry(r, q)
      <3>1. request'[r].step \in {"notFound", "resetFailed", "conflict"}
        BY <2>2, <1>a DEF Retry, Begin
      <3>2. request'[r].step = "resetFailed" => JobExists(q)
        BY <2>2, <1>a DEF Retry, Begin, JobExists
      <3>3. QED
        BY <2>2, <3>1, <3>2 DEF Retry, tables, SameStatuses, Calling
    <2>3. CASE Reprocess(r, q)
      BY <2>3, <1>a DEF Reprocess, Begin, tables, SameStatuses, Calling
    <2>4. CASE RegenerateCard(r, q)
      BY <2>4, <1>a DEF RegenerateCard, Begin, tables, SameStatuses, Calling
    <2>5. QED
      BY <2>1, <2>2, <2>3, <2>4 DEF Arrive
  <1>d. Grows
    BY <1>c, StatementsGrow
  <1>1. FailedHasBegun'
    BY <1>b, <1>d DEF FailedHasBegun, Grows
  <1>2. TasksKnown'
    <2> SUFFICES ASSUME NEW u \in TaskIds, Live(u), NEW p, p = task[u].paper
                 PROVE  Known(p)' /\ (task[u].pc \in Advanced => Begun(p)')
      BY <1>b DEF TasksKnown, Known, JobExists, Begun, Live
    <2>1. QED
      BY <1>d, LivePaper DEF Grows
  <1>3. CallsKnown'
    <2> SUFFICES ASSUME NEW s \in Requests, request'[s].step \in Calling, NEW p, p = request'[s].paper
                 PROVE  Known(p)'
      BY DEF CallsKnown, Known, JobExists, Begun
    <2>1. p \in Papers /\ Known(p)
      BY <1>b, <1>c, RequestMoves DEF CallsKnown, Calling, Known
    <2>2. QED
      BY <2>1, <1>d DEF Grows
  <1>4. UploadsAlone'
    <2>1. \A s \in Requests \ {r} :
            RequestAt(s, "createJob") => /\ request[s].paper \in Papers
                                         /\ CreatePaper(q) => request[s].paper # q
      BY RequestMoves DEF RequestAt, UploadsAlone, CreatePaper
    <2>2. CASE CreatePaper(q) /\ request'[r].step = "createJob"
      <3>1. /\ paperStatus'[q] = "queued" /\ jobStatus'[q] = "none"
            /\ \A p \in Papers \ {q} : paperStatus'[p] = paperStatus[p]
        BY <2>2, <1>a DEF CreatePaper, NoOrphanRows, NoPaperRow
      <3>2. QED
        BY <2>1, <2>2, <3>1, <1>b DEF UploadsAlone, RequestAt
    <2>3. CASE SameStatuses /\ request'[r].step # "createJob"
      BY <2>1, <2>3, <1>b DEF UploadsAlone, RequestAt, SameStatuses
    <2>4. QED
      BY <2>2, <2>3, <1>c
  <1>5. QED
    BY <1>1, <1>2, <1>3, <1>4

\* So do a deletion and the cleanup.
LEMMA RemovalKeeps ==
  ASSUME TypeOK, NoOrphanRows, LifeInv, task' = task, request' = request,
         \/ \E q \in Papers : DeletePaper(q)
         \/ \E old \in SUBSET Papers : DeleteFailedJobs(old)
  PROVE  LifeInv'
  <1> USE DEF LifeInv
  <1>a. /\ paperStatus \in [Papers -> StatusValues \cup NoPaperRow]
        /\ jobStatus \in [Papers -> StatusValues \cup {"none"}]
    BY DEF TypeOK, TablesTypeOK
  <1>b. Grows
    BY StatementsGrow
  <1>1. FailedHasBegun'
    <2>1. \A p \in Papers : jobStatus'[p] = "failed" => jobStatus[p] = "failed"
      BY <1>a DEF DeletePaper, DeleteFailedJobs
    <2>2. QED
      BY <2>1, <1>b DEF FailedHasBegun, Grows
  <1>2. TasksKnown'
    <2> SUFFICES ASSUME NEW u \in TaskIds, Live(u), NEW p, p = task[u].paper
                 PROVE  Known(p)' /\ (task[u].pc \in Advanced => Begun(p)')
      BY DEF TasksKnown, Known, JobExists, Begun, Live
    <2>1. QED
      BY <1>b, LivePaper DEF Grows
  <1>3. CallsKnown'
    <2>1. \A r \in Requests : request[r].step \in Calling => request[r].paper \in Papers
      BY RequestMoves DEF Calling
    <2>2. QED
      BY <2>1, <1>b DEF CallsKnown, Grows
  <1>4. UploadsAlone'
    <2>1. \A p \in Papers :
            /\ paperStatus[p] = "deleted" => paperStatus'[p] = "deleted"
            /\ paperStatus[p] = "queued" /\ jobStatus[p] = "none" =>
                 \/ paperStatus'[p] = "deleted"
                 \/ paperStatus'[p] = "queued" /\ jobStatus'[p] = "none"
      BY <1>a DEF DeletePaper, DeleteFailedJobs
    <2>2. \A r \in Requests : RequestAt(r, "createJob") => request[r].paper \in Papers
      BY RequestMoves DEF RequestAt
    <2>3. QED
      BY <2>1, <2>2 DEF UploadsAlone, RequestAt
  <1>5. QED
    BY <1>1, <1>2, <1>3, <1>4

\* Every step of the system leaves LifeInv true.
LEMMA LifeInvStep ==
  ASSUME TypeOK, NoOrphanRows, ReaderConfigured, LifeInv, [Next]_vars
  PROVE  LifeInv'
  <1>1. CASE NewRequest
    <2>1. ASSUME NEW p \in Papers, Delete(p)
          PROVE  LifeInv'
      BY <2>1, RemovalKeeps DEF Delete
    <2>2. QED
      BY <1>1, <2>1, ArriveKeeps DEF NewRequest
  <1>2. ASSUME NEW r \in Requests, ServeRequest(r) \/ RequestFault(r)
        PROVE  LifeInv'
    BY <1>2, RequestKeeps, RequestFaultKeeps DEF ServeRequest
  <1>3. ASSUME NEW t \in TaskIds, HandlerStep(t)
        PROVE  LifeInv'
    BY <1>3, ParseShapes, ReadShapes, HandlerKeeps DEF HandlerStep
  <1>4. ASSUME NEW t \in TaskIds,
               TakeTask(t) \/ FinishTask(t) \/ HandlerFault(t) \/ WorkerStops(t) \/ LastAttemptLost(t)
        PROVE  LifeInv'
    BY <1>4, QueueShifts, ShiftKeeps
  <1>5. CASE HandleCleanup
    BY <1>5, RemovalKeeps DEF HandleCleanup
  <1>6. CASE UNCHANGED vars
    BY <1>6 DEF vars, LifeInv, FailedHasBegun, TasksKnown, CallsKnown, UploadsAlone, RequestAt,
                Begun, Known, JobExists, Live
  <1>7. QED
    BY <1>1, <1>2, <1>3, <1>4, <1>5, <1>6 DEF Next, TaskStep

\* LifeInv holds throughout.
LEMMA LifeInvHolds == ReaderConfigured => (Spec => []LifeInv)
  <1> SUFFICES ASSUME ReaderConfigured PROVE Spec => []LifeInv
    OBVIOUS
  <1>1. Init => LifeInv
    BY DEF Init, TablesInit, TaskInit, RequestInit, LifeInv, FailedHasBegun, TasksKnown, CallsKnown,
           UploadsAlone, RequestAt, FreeTask, IdleRequest, Live, Calling
  <1>2. TypeOK /\ NoOrphanRows /\ LifeInv /\ [Next]_vars => LifeInv'
    BY LifeInvStep
  <1>3. QED
    BY <1>1, <1>2, TypeCorrect, NoOrphanRowsHolds, PTL DEF Spec
-----------------------------------------------------------------------------
(* Steps of JobLife.                                                       *)

\* The step changes what JobLife sees of no paper but q.
Touches(q) ==
  \A p \in Papers : p # q =>
    LifeOf(p)' = LifeOf(p) /\ (p \in WorkedPapers' <=> p \in WorkedPapers)

SameWork(q) == q \in WorkedPapers' <=> q \in WorkedPapers

\* What is seen of the paper it touches says which step of JobLife it is.
LEMMA StepsOfLife ==
  ASSUME NEW q \in Papers, Touches(q)
  PROVE  /\ LifeOf(q)' = LifeOf(q) /\ SameWork(q) /\ Calm => UNCHANGED Life!vars
         /\ /\ LifeOf(q) \in Life!Standing \cup {"new"} /\ LifeOf(q)' = "open"
            /\ q \in WorkedPapers' /\ Calm
            => Life!Open(q)
         /\ /\ LifeOf(q) \in {"expired", "deleted"} /\ LifeOf(q)' = LifeOf(q)
            /\ q \in WorkedPapers' /\ Calm
            => Life!OpenTooLate(q)
         /\ /\ q \in WorkedPapers /\ LifeOf(q) \in Life!Standing /\ LifeOf(q)' \in Life!Standing
            /\ q \in WorkedPapers' \/ LifeOf(q)' # "open"
            /\ Calm
            => Life!Work(q)
         /\ /\ q \in WorkedPapers /\ q \notin WorkedPapers'
            /\ LifeOf(q) \in {"expired", "deleted"} /\ LifeOf(q)' = LifeOf(q) /\ Calm
            => Life!GiveUp(q)
         /\ LifeOf(q)' = "deleted" /\ SameWork(q) /\ Calm => Life!Delete(q)
         /\ /\ LifeOf(q)' = LifeOf(q) /\ (q \in WorkedPapers' \/ SameWork(q)) /\ Restart
            => Life!Redeliver(q)
         /\ LifeOf(q)' = LifeOf(q) /\ Fault => Life!Lose(q)
  <1> DEFINE life == [p \in Papers |-> LifeOf(p)]
  <1>1. WorkedPapers \subseteq Papers /\ WorkedPapers' \subseteq Papers
    BY DEF WorkedPapers
  <1>2. life' = [life EXCEPT ![q] = LifeOf(q)']
    BY DEF Touches
  <1>3. /\ q \in WorkedPapers' => WorkedPapers' = WorkedPapers \cup {q}
        /\ q \notin WorkedPapers' => WorkedPapers' = WorkedPapers \ {q}
        /\ SameWork(q) => WorkedPapers' = WorkedPapers
    BY <1>1 DEF Touches, SameWork
  <1>4. life[q] = LifeOf(q) /\ (LifeOf(q)' = LifeOf(q) => life' = life)
    BY <1>2
  <1> HIDE DEF life
  <1>5. LifeOf(q)' = LifeOf(q) /\ SameWork(q) /\ Calm => UNCHANGED Life!vars
    BY <1>3, <1>4 DEF life, Life!vars, Calm
  <1>6. /\ LifeOf(q) \in Life!Standing \cup {"new"} /\ LifeOf(q)' = "open"
        /\ q \in WorkedPapers' /\ Calm
        => Life!Open(q)
    BY <1>2, <1>3, <1>4 DEF life, Life!Open, Life!Become, Life!Quiet, Calm
  <1>7. /\ LifeOf(q) \in {"expired", "deleted"} /\ LifeOf(q)' = LifeOf(q)
        /\ q \in WorkedPapers' /\ Calm
        => Life!OpenTooLate(q)
    BY <1>3, <1>4 DEF life, Life!OpenTooLate, Life!Quiet, Calm
  <1>8. ASSUME q \in WorkedPapers, LifeOf(q) \in Life!Standing, LifeOf(q)' \in Life!Standing,
               q \in WorkedPapers' \/ LifeOf(q)' # "open", Calm
        PROVE  Life!Work(q)
    <2>1. \/ UNCHANGED WorkedPapers
          \/ LifeOf(q)' \in Life!Standing \ {"open"} /\ WorkedPapers' = WorkedPapers \ {q}
      BY <1>3, <1>8 DEF SameWork
    <2>2. QED
      BY <1>2, <1>4, <1>8, <2>1 DEF life, Life!Work, Life!Become, Life!Quiet, Calm
  <1>9. /\ q \in WorkedPapers /\ q \notin WorkedPapers'
        /\ LifeOf(q) \in {"expired", "deleted"} /\ LifeOf(q)' = LifeOf(q) /\ Calm
        => Life!GiveUp(q)
    BY <1>3, <1>4 DEF life, Life!GiveUp, Life!Quiet, Calm
  <1>10. LifeOf(q)' = "deleted" /\ SameWork(q) /\ Calm => Life!Delete(q)
    BY <1>2, <1>3 DEF life, Life!Delete, Life!Become, Life!Quiet, Calm
  <1>11. /\ LifeOf(q)' = LifeOf(q) /\ (q \in WorkedPapers' \/ SameWork(q)) /\ Restart
         => Life!Redeliver(q)
    BY <1>3, <1>4 DEF life, Life!Redeliver, Restart
  <1>12. LifeOf(q)' = LifeOf(q) /\ Fault => Life!Lose(q)
    BY <1>3, <1>4 DEF life, Life!Lose, Fault
  <1>13. QED
    BY <1>5, <1>6, <1>7, <1>8, <1>9, <1>10, <1>11, <1>12

\* What the rows say of a job's life.
LEMMA LifeFacts ==
  ASSUME TypeOK, NEW p \in Papers
  PROVE  /\ JobExists(p) => LifeOf(p) \in Life!Standing
         /\ Unfinished(p) => LifeOf(p) = "open"
         /\ jobStatus[p] = "failed" => LifeOf(p) = "failed"
         /\ ~JobExists(p) /\ Known(p) => LifeOf(p) \in {"expired", "deleted"}
         /\ ~JobExists(p) /\ ~Begun(p) => LifeOf(p) = "new"
  BY DEF TypeOK, TablesTypeOK, JobExists, Known, Begun, Unfinished, Terminal, LifeOf, Life!Standing

\* A life changes only with a status.
LEMMA LifeKept ==
  ASSUME NEW p, jobStatus'[p] = jobStatus[p], paperStatus'[p] = paperStatus[p]
  PROVE  LifeOf(p)' = LifeOf(p)
  BY DEF LifeOf, Unfinished

\* Writing the job's status changes the life of that job.
LEMMA LifeWritten ==
  ASSUME TypeOK, NEW q \in Papers, NEW status \in StatusValues, SetJob(q, status)
  PROVE  /\ \A p \in Papers : p # q => LifeOf(p)' = LifeOf(p)
         /\ LifeOf(q)' = IF status \in {"completed", "failed"} THEN status ELSE "open"
  <1>1. /\ paperStatus' = paperStatus /\ jobStatus'[q] = status
        /\ \A p \in Papers : p # q => jobStatus'[p] = jobStatus[p]
    BY DEF SetJob, TypeOK, TablesTypeOK
  <1>2. LifeOf(q)' = IF status \in {"completed", "failed"} THEN status ELSE "open"
    BY <1>1 DEF LifeOf, Unfinished, Terminal, StatusValues
  <1>3. QED
    BY <1>1, <1>2, LifeKept

\* Writing papers.status changes no life once a handler has begun.
LEMMA PaperWriteKeepsLife ==
  ASSUME TypeOK, NEW q \in Papers, Known(q), paperStatus[q] # "absent",
         NEW status \in StatusValues \ {"queued"}, UpdatePaperStatus(q, status)
  PROVE  \A p \in Papers : LifeOf(p)' = LifeOf(p)
  <1>1. jobStatus' = jobStatus /\ \A p \in Papers : p # q => paperStatus'[p] = paperStatus[p]
    BY DEF UpdatePaperStatus, TypeOK, TablesTypeOK
  <1>2. CASE paperStatus[q] \in NoPaperRow
    <2>1. paperStatus' = paperStatus
      BY <1>2 DEF UpdatePaperStatus, PaperExists
    <2>2. QED
      BY <1>1, <2>1, LifeKept
  <1>3. CASE paperStatus[q] \notin NoPaperRow
    <2>1. paperStatus'[q] = status
      BY <1>3 DEF UpdatePaperStatus, PaperExists, TypeOK, TablesTypeOK
    <2>2. LifeOf(q)' = LifeOf(q)
      BY <1>1, <1>3, <2>1 DEF LifeOf, Unfinished, Terminal, Known, JobExists, Begun, NoPaperRow, StatusValues
    <2>3. QED
      BY <1>1, <2>2, LifeKept
  <1>4. QED
    BY <1>2, <1>3

\* A task that moves takes part only in the work on its own paper.
LEMMA WorkMoves ==
  ASSUME TypeOK, NEW t \in TaskIds, NEW q \in Papers, q = task[t].paper, Live(t), request' = request,
         \A u \in TaskIds \ {t} : task'[u] = task[u],
         task'[t] = FreeTask \/ task'[t].paper = q
  PROVE  /\ \A p \in Papers : p # q => (p \in WorkedPapers' <=> p \in WorkedPapers)
         /\ WorksOn(t, q) => q \in WorkedPapers
         /\ WorksOn(t, q)' => q \in WorkedPapers'
         /\ (WorksOn(t, q)' <=> WorksOn(t, q)) => SameWork(q)
         /\ WorksOn(t, q)' \/ ~WorksOn(t, q) => q \in WorkedPapers' \/ SameWork(q)
  <1>1. \A u \in TaskIds \ {t}, p \in Papers : WorksOn(u, p)' <=> WorksOn(u, p)
    BY DEF WorksOn, Live, RetriesSpent
  <1>2. \A p \in Papers : p # q => ~WorksOn(t, p) /\ ~WorksOn(t, p)'
    BY DEF WorksOn, Live, FreeTask
  <1>3. \A r \in Requests, p \in Papers : Owes(r, p)' <=> Owes(r, p)
    BY DEF Owes
  <1>4. QED
    BY <1>1, <1>2, <1>3 DEF WorkedPapers, SameWork

\* A step of a handler is a step of JobLife, or none.
LEMMA HandlerMaps ==
  ASSUME TypeOK, NoOrphanRows, LifeInv, NEW t \in TaskIds, request' = request, Calm,
         Advances(t) \/ WritesPaper(t) \/ WritesJob(t) \/ FindsNoJob(t) \/ EnqueueRead(t)
  PROVE  [Life!Next]_(Life!vars)
  <1> PICK q : q = task[t].paper
    OBVIOUS
  <1>a. Live(t) /\ q \in Papers /\ Known(q) /\ paperStatus[q] # "absent"
    <2>1. Live(t)
      BY DEF Advances, WritesPaper, PaperWrites, WritesJob, FindsNoJob, EnqueueRead, Live, At, Middle,
             Advanced, ParseSteps, ReadSteps, JobWriters
    <2>2. QED
      BY <2>1, LivePaper DEF LifeInv
  <1>b. SameStatuses => \A p \in Papers : LifeOf(p)' = LifeOf(p)
    BY LifeKept DEF SameStatuses
  <1>c. ASSUME NEW s, Moved(t, s)
        PROVE  /\ \A p \in Papers : p # q => (p \in WorkedPapers' <=> p \in WorkedPapers)
               /\ WorksOn(t, q) => q \in WorkedPapers
               /\ WorksOn(t, q)' => q \in WorkedPapers'
               /\ (WorksOn(t, q)' <=> WorksOn(t, q)) => SameWork(q)
    BY <1>a, <1>c, WorkMoves DEF Moved
  <1>d. task[t].pc \in Middle \cup JobWriters => WorksOn(t, q)
    BY <1>a DEF Middle, Advanced, ParseSteps, ReadSteps, JobWriters, WorksOn
  <1>1. CASE Advances(t)
    <2>1. PICK s \in Middle : Moved(t, s)
      BY <1>1 DEF Advances
    <2>2. WorksOn(t, q)'
      BY <2>1 DEF Moved, Middle, Advanced, ParseSteps, ReadSteps, WorksOn, Live
    <2>3. WorksOn(t, q) /\ SameStatuses
      BY <1>1, <1>d DEF Advances
    <2>4. QED
      BY <2>1, <2>2, <2>3, <1>a, <1>b, <1>c, StepsOfLife DEF Touches
  <1>2. CASE WritesPaper(t)
    <2>1. PICK s \in {"parsePDF", "deleteSections", "readPaper", "nack", "ack"} :
            <<task[t].pc, s>> \in PaperWrites /\ Moved(t, s)
      BY <1>2 DEF WritesPaper
    <2>2. WorksOn(t, q)' <=> WorksOn(t, q)
      BY <2>1, <1>a DEF Moved, PaperWrites, WorksOn, Live, RetriesSpent
    <2>3. \A p \in Papers : LifeOf(p)' = LifeOf(p)
      BY <1>2, <1>a, PaperWriteKeepsLife DEF WritesPaper
    <2>4. QED
      BY <2>1, <2>2, <2>3, <1>a, <1>c, StepsOfLife DEF Touches
  <1>3. CASE WritesJob(t)
    <2>1. PICK status \in StatusValues, s \in QueueSteps \cup ParseSteps \cup ReadSteps :
            /\ SetJob(q, status) /\ Moved(t, s)
            /\ status \in {"failed", "completed"} \/ WorksOn(t, task[t].paper)'
      BY <1>3 DEF WritesJob
    <2>2. /\ \A p \in Papers : p # q => LifeOf(p)' = LifeOf(p)
          /\ LifeOf(q)' = IF status \in {"completed", "failed"} THEN status ELSE "open"
      BY <2>1, <1>a, LifeWritten
    <2>3. LifeOf(q) \in Life!Standing /\ LifeOf(q)' \in Life!Standing
      BY <1>3, <1>a, <2>2, LifeFacts DEF WritesJob, Life!Standing
    <2>4. WorksOn(t, q)
      BY <1>3, <1>d DEF WritesJob
    <2>5. status \in {"failed", "completed"} \/ WorksOn(t, q)'
      BY <2>1 DEF Moved, WorksOn
    <2>6. Life!Work(q)
      BY <2>1, <2>2, <2>3, <2>4, <2>5, <1>a, <1>c, StepsOfLife DEF Touches
    <2>7. QED
      BY <2>6, <1>a DEF Life!Next
  <1>4. CASE FindsNoJob(t)
    <2>1. LifeOf(q) \in {"expired", "deleted"} /\ \A p \in Papers : LifeOf(p)' = LifeOf(p)
      BY <1>4, <1>a, <1>b, LifeFacts DEF FindsNoJob
    <2>2. Touches(q) /\ q \in WorkedPapers
      BY <2>1, <1>4, <1>c, <1>d DEF Touches, FindsNoJob
    <2>3. CASE q \in WorkedPapers'
      BY <2>1, <2>2, <2>3, <1>a, StepsOfLife DEF SameWork
    <2>4. CASE q \notin WorkedPapers'
      <3>1. Life!GiveUp(q)
        BY <2>1, <2>2, <2>4, <1>a, StepsOfLife
      <3>2. QED
        BY <3>1, <1>a DEF Life!Next
    <2>5. QED
      BY <2>3, <2>4
  <1>5. CASE EnqueueRead(t)
    <2>1. PICK v \in TaskIds : /\ Fresh(v)
                               /\ task' = [task EXCEPT ![v] = NewTask("read", q), ![t].pc = "ack"]
      BY <1>5 DEF EnqueueRead
    <2>2. v # t /\ ~Live(v)
      BY <2>1, <1>a DEF Fresh, At, Live
    <2>3. /\ task'[v] = NewTask("read", q) /\ \A u \in TaskIds \ {t, v} : task'[u] = task[u]
          /\ task'[t].pc = "ack"
      BY <2>1, <2>2, <1>a, LiveTask DEF TypeOK, ParseTasks, ReadTasks
    <2>4. WorksOn(v, q)' /\ WorksOn(t, q)
      BY <2>3, <1>5, <1>a DEF NewTask, WorksOn, Live, EnqueueRead, At
    <2>5. \A p \in Papers : p # q =>
            \A u \in TaskIds : WorksOn(u, p)' <=> WorksOn(u, p)
      <3>1. \A p \in Papers : p # q => ~WorksOn(t, p) /\ ~WorksOn(t, p)'
        BY <2>3 DEF WorksOn
      <3>2. \A p \in Papers : p # q => ~WorksOn(v, p) /\ ~WorksOn(v, p)'
        BY <2>2, <2>3 DEF WorksOn, NewTask
      <3>3. \A u \in TaskIds \ {t, v}, p \in Papers : WorksOn(u, p)' <=> WorksOn(u, p)
        BY <2>3 DEF WorksOn, Live, RetriesSpent
      <3>4. QED
        BY <3>1, <3>2, <3>3
    <2>6. \A r \in Requests, p \in Papers : Owes(r, p)' <=> Owes(r, p)
      BY DEF Owes
    <2>7. /\ \A p \in Papers : p # q => (p \in WorkedPapers' <=> p \in WorkedPapers)
          /\ SameWork(q)
      BY <2>4, <2>5, <2>6, <1>a DEF WorkedPapers, SameWork
    <2>8. SameStatuses
      BY <1>5 DEF EnqueueRead, tables, SameStatuses
    <2>9. QED
      BY <2>7, <2>8, <1>a, <1>b, StepsOfLife DEF Touches
  <1>6. QED
    BY <1>1, <1>2, <1>3, <1>4, <1>5

\* Redelivery may have a task work again; a fault may end its work; delivery and the
\* handler's return change nothing.
LEMMA QueueMaps ==
  ASSUME TypeOK, NoOrphanRows, LifeInv, ReaderConfigured, NEW t \in TaskIds,
         TakeTask(t) \/ FinishTask(t) \/ HandlerFault(t) \/ WorkerStops(t) \/ LastAttemptLost(t)
  PROVE  [Life!Next]_(Life!vars)
  <1> PICK q : q = task[t].paper
    OBVIOUS
  <1>a. Shifts(t)
    BY QueueShifts
  <1>b. Live(t) /\ q \in Papers
    BY <1>a, LivePaper DEF LifeInv, Shifts
  <1>c. /\ Touches(q) /\ LifeOf(q)' = LifeOf(q)
        /\ WorksOn(t, q)' => q \in WorkedPapers'
        /\ (WorksOn(t, q)' <=> WorksOn(t, q)) => SameWork(q)
    BY <1>a, <1>b, WorkMoves, LifeKept DEF Touches, Shifts, SameStatuses
  <1>d. Redeliver(t) \/ Requeue(t) => WorksOn(t, q)'
    <2>1. ASSUME Redeliver(t) \/ Requeue(t)
          PROVE  task'[t].pc = "waiting" /\ task'[t].paper = q
      BY <2>1, <1>b, LiveTask DEF Redeliver, Requeue, TypeOK, ParseTasks, ReadTasks
    <2>2. QED
      BY <2>1 DEF WorksOn, Live
  <1>1. CASE TakeTask(t)
    <2>1. FirstStep(task[t].kind) \in {"markProcessing", "markReading"}
      BY <1>b, TypeParts, TaskAtStep DEF FirstStep
    <2>2. Moved(t, FirstStep(task[t].kind))
      BY <1>1, <1>b, GotoMoves DEF TakeTask, Dequeue
    <2>3. WorksOn(t, q)' /\ WorksOn(t, q)
      BY <1>1, <1>b, <2>1, <2>2 DEF TakeTask, At, Moved, WorksOn, Live
    <2>4. QED
      BY <2>3, <1>1, <1>b, <1>c, StepsOfLife DEF TakeTask
  <1>2. CASE FinishTask(t)
    <2>1. Drop(t) => ~WorksOn(t, q)'
      BY DEF Drop, TypeOK, FreeTask, WorksOn, Live
    <2>2. WorksOn(t, q)' <=> WorksOn(t, q)
      BY <1>2, <1>b, <1>d, <2>1 DEF FinishTask, Ack, Nack, At, WorksOn
    <2>3. QED
      BY <2>2, <1>2, <1>b, <1>c, StepsOfLife DEF FinishTask
  <1>3. CASE WorkerStops(t)
    <2>1. WorksOn(t, q)' /\ Restart
      BY <1>3, <1>d DEF WorkerStops, LoseAttempt
    <2>2. Life!Redeliver(q)
      BY <2>1, <1>b, <1>c, StepsOfLife
    <2>3. QED
      BY <2>2, <1>b DEF Life!Next
  <1>4. CASE HandlerFault(t) \/ LastAttemptLost(t)
    <2>1. Life!Lose(q)
      BY <1>4, <1>b, <1>c, StepsOfLife DEF HandlerFault, LastAttemptLost
    <2>2. QED
      BY <2>1, <1>b DEF Life!Next
  <1>5. QED
    BY <1>1, <1>2, <1>3, <1>4

\* Whether a request works on a paper depends on its own step only.
LEMMA WorkOwed ==
  ASSUME TypeOK, NEW r \in Requests, NEW q \in Papers, task' = task,
         \A s \in Requests \ {r} : request'[s] = request[s],
         \A p \in Papers : p # q => ~Owes(r, p) /\ ~Owes(r, p)'
  PROVE  /\ \A p \in Papers : p # q => (p \in WorkedPapers' <=> p \in WorkedPapers)
         /\ Owes(r, q)' => q \in WorkedPapers'
         /\ (Owes(r, q)' <=> Owes(r, q)) => SameWork(q)
  <1>1. \A t \in TaskIds, p \in Papers : WorksOn(t, p)' <=> WorksOn(t, p)
    BY DEF WorksOn, Live, RetriesSpent
  <1>2. \A s \in Requests \ {r}, p \in Papers : Owes(s, p)' <=> Owes(s, p)
    BY DEF Owes
  <1>3. QED
    BY <1>1, <1>2 DEF WorkedPapers, SameWork

\* A request that enqueues a task hands its work over.
LEMMA WorkHandedOver ==
  ASSUME TypeOK, NEW r \in Requests, NEW q \in Papers, Owes(r, q), NEW kind, Enqueue(kind, q),
         Reply(r)
  PROVE  /\ \A p \in Papers : p # q => (p \in WorkedPapers' <=> p \in WorkedPapers)
         /\ SameWork(q)
  <1>1. PICK v \in TaskIds : Fresh(v) /\ task' = [task EXCEPT ![v] = NewTask(kind, q)]
    BY DEF Enqueue
  <1>2. /\ task'[v] = NewTask(kind, q) /\ ~Live(v)
        /\ \A u \in TaskIds \ {v} : task'[u] = task[u]
    BY <1>1 DEF TypeOK, Fresh, At, Live
  <1>3. WorksOn(v, q)'
    BY <1>2 DEF NewTask, WorksOn, Live
  <1>4. \A u \in TaskIds, p \in Papers : p # q => (WorksOn(u, p)' <=> WorksOn(u, p))
    <2>1. \A u \in TaskIds \ {v}, p \in Papers : WorksOn(u, p)' <=> WorksOn(u, p)
      BY <1>2 DEF WorksOn, Live, RetriesSpent
    <2>2. \A p \in Papers : p # q => ~WorksOn(v, p) /\ ~WorksOn(v, p)'
      BY <1>2 DEF WorksOn, NewTask
    <2>3. QED
      BY <2>1, <2>2
  <1>5. /\ \A s \in Requests \ {r}, p \in Papers : Owes(s, p)' <=> Owes(s, p)
        /\ \A p \in Papers : p # q => ~Owes(r, p) /\ ~Owes(r, p)'
    BY DEF Owes, Reply, TypeOK, IdleRequest
  <1>6. QED
    BY <1>3, <1>4, <1>5 DEF WorkedPapers, SameWork

\* A step of a request opens the job, or is none of JobLife.
LEMMA RequestMaps ==
  ASSUME TypeOK, NoOrphanRows, LifeInv, NEW r \in Requests, RequestStep(r), Calm
  PROVE  [Life!Next]_(Life!vars)
  <1> PICK q : q = request[r].paper
    OBVIOUS
  <1>a. request[r].step # "idle" /\ q \in Papers /\ request[r] \in PendingRequests
    <2>1. request[r].step # "idle"
      BY DEF RequestStep, CreateJob, EnqueueProcessing, EnqueueReading, ClaimFailed, InferStage,
             RequeueParse, CheckSections, RequeueRead, Respond, RequestAt
    <2>2. QED
      BY <2>1, RequestMoves DEF TypeOK, IdleRequest
  <1>b. UNCHANGED tables => \A p \in Papers : LifeOf(p)' = LifeOf(p)
    BY LifeKept DEF tables
  <1>c. ASSUME task' = task, Reply(r) \/ \E s : Move(r, s)
        PROVE  /\ \A p \in Papers : p # q => (p \in WorkedPapers' <=> p \in WorkedPapers)
               /\ Owes(r, q)' => q \in WorkedPapers'
               /\ (Owes(r, q)' <=> Owes(r, q)) => SameWork(q)
    <2>1. /\ \A s \in Requests \ {r} : request'[s] = request[s]
          /\ request'[r] = IdleRequest \/ request'[r].paper = q
      BY <1>a, <1>c DEF Reply, Move, TypeOK, PendingRequests
    <2>2. \A p \in Papers : p # q => ~Owes(r, p) /\ ~Owes(r, p)'
      BY <2>1 DEF Owes, IdleRequest
    <2>3. QED
      BY <1>a, <1>c, <2>1, <2>2, WorkOwed
  <1>d. /\ \A s : Move(r, s) => (Owes(r, q)' <=> s \in OwingSteps)
        /\ Reply(r) => ~Owes(r, q)'
        /\ Owes(r, q) <=> request[r].step \in OwingSteps
    BY <1>a DEF Reply, Move, TypeOK, PendingRequests, Owes, OwingSteps, IdleRequest
  \* A step that changes no row and leaves the request as responsible as it was.
  <1>e. ASSUME UNCHANGED tables, task' = task,
               \/ Reply(r) /\ request[r].step \notin OwingSteps
               \/ \E s : Move(r, s) /\ (s \in OwingSteps <=> request[r].step \in OwingSteps)
        PROVE  [Life!Next]_(Life!vars)
    <2>1. Owes(r, q)' <=> Owes(r, q)
      BY <1>d, <1>e
    <2>2. Touches(q) /\ SameWork(q)
      BY <2>1, <1>b, <1>c, <1>e DEF Touches
    <2>3. QED
      BY <2>2, <1>a, <1>b, <1>e, StepsOfLife
  \* A step that queues the job.
  <1>f. ASSUME SetJob(q, "queued"), task' = task, NEW s \in OwingSteps, Move(r, s),
               LifeOf(q) \in Life!Standing \cup {"new"}
        PROVE  [Life!Next]_(Life!vars)
    <2>1. /\ \A p \in Papers : p # q => LifeOf(p)' = LifeOf(p)
          /\ LifeOf(q)' = "open"
      BY <1>a, <1>f, LifeWritten DEF StatusValues
    <2>2. Touches(q) /\ q \in WorkedPapers'
      BY <2>1, <1>c, <1>d, <1>f DEF Touches
    <2>3. Life!Open(q)
      BY <2>1, <2>2, <1>a, <1>f, StepsOfLife
    <2>4. QED
      BY <2>3, <1>a DEF Life!Next
  \* A step that hands the work to a task.
  <1>g. ASSUME UNCHANGED tables, NEW kind, Enqueue(kind, q), Reply(r), request[r].step \in OwingSteps
        PROVE  [Life!Next]_(Life!vars)
    <2>1. Touches(q) /\ SameWork(q)
      BY <1>a, <1>b, <1>d, <1>g, WorkHandedOver DEF Touches
    <2>2. QED
      BY <2>1, <1>a, <1>b, <1>g, StepsOfLife
  \* A step that requeues the job if it is still there.
  <1>h. ASSUME RequeueJob(q), task' = task, NEW s \in OwingSteps, Move(r, s), Known(q)
        PROVE  [Life!Next]_(Life!vars)
    <2>1. CASE JobExists(q)
      BY <2>1, <1>a, <1>f, <1>h, LifeFacts DEF RequeueJob
    <2>2. CASE ~JobExists(q)
      <3>1. LifeOf(q) \in {"expired", "deleted"} /\ UNCHANGED tables
        BY <2>2, <1>a, <1>h, LifeFacts DEF RequeueJob
      <3>2. Touches(q) /\ q \in WorkedPapers'
        BY <3>1, <1>b, <1>c, <1>d, <1>h DEF Touches
      <3>3. Life!OpenTooLate(q)
        BY <3>1, <3>2, <1>a, <1>b, StepsOfLife
      <3>4. QED
        BY <3>3, <1>a DEF Life!Next
    <2>3. QED
      BY <2>1, <2>2
  <1>1. CASE CreateJob(r)
    <2>1. CASE CreateProcessingJob(q) /\ Move(r, "enqueueProcess")
      <3>1. ~JobExists(q) /\ ~Begun(q)
        BY <1>1, <2>1 DEF CreateJob, RequestAt, LifeInv, UploadsAlone, CreateProcessingJob, PaperExists,
                          NoPaperRow, JobExists, Begun
      <3>2. LifeOf(q) = "new"
        BY <3>1, <1>a, LifeFacts
      <3>3. QED
        BY <3>2, <1>1, <2>1, <1>f DEF CreateJob, CreateProcessingJob, OwingSteps
    <2>2. CASE UNCHANGED tables /\ Reply(r)
      BY <1>1, <2>2, <1>e DEF CreateJob, RequestAt, OwingSteps
    <2>3. QED
      BY <1>1, <2>1, <2>2 DEF CreateJob
  <1>2. CASE EnqueueProcessing(r)
    BY <1>2, <1>g DEF EnqueueProcessing, RequestAt, OwingSteps
  <1>3. CASE EnqueueReading(r)
    BY <1>3, <1>g DEF EnqueueReading, RequestAt, OwingSteps
  <1>4. CASE ClaimFailed(r)
    <2>1. CASE ResetFailedJob(q) /\ Move(r, "countSections")
      <3>1. LifeOf(q) \in Life!Standing
        BY <2>1, <1>a, LifeFacts DEF ResetFailedJob, JobExists
      <3>2. QED
        BY <3>1, <1>4, <2>1, <1>f DEF ClaimFailed, ResetFailedJob, OwingSteps
    <2>2. CASE UNCHANGED tables /\ Move(r, "conflict")
      BY <1>4, <2>2, <1>e DEF ClaimFailed, RequestAt, OwingSteps
    <2>3. QED
      BY <1>4, <2>1, <2>2 DEF ClaimFailed
  <1>5. CASE InferStage(r)
    <2>1. Move(r, "enqueueRead") \/ Move(r, "enqueueProcess")
      BY <1>5 DEF InferStage
    <2>2. QED
      BY <1>5, <2>1, <1>e DEF InferStage, RequestAt, OwingSteps
  <1>6. CASE RequeueParse(r) \/ RequeueRead(r)
    <2>1. Known(q)
      BY <1>6 DEF RequeueParse, RequeueRead, RequestAt, LifeInv, CallsKnown, Calling
    <2>2. QED
      BY <1>6, <2>1, <1>h DEF RequeueParse, RequeueRead, OwingSteps
  <1>7. CASE CheckSections(r)
    <2>1. Move(r, "requeueRead") \/ Move(r, "conflict")
      BY <1>7 DEF CheckSections
    <2>2. QED
      BY <1>7, <2>1, <1>e DEF CheckSections, RequestAt, OwingSteps
  <1>8. CASE Respond(r)
    BY <1>8, <1>e DEF Respond, OwingSteps
  <1>9. QED
    BY <1>1, <1>2, <1>3, <1>4, <1>5, <1>6, <1>7, <1>8 DEF RequestStep

\* A call that gives up after a fault may leave the paper without anyone's work.
LEMMA RequestFaultMaps ==
  ASSUME TypeOK, NEW r \in Requests, RequestFault(r)
  PROVE  [Life!Next]_(Life!vars)
  <1> PICK q : q = request[r].paper
    OBVIOUS
  <1>1. q \in Papers
    BY RequestMoves DEF RequestFault, RequestSteps
  <1>2. /\ \A s \in Requests \ {r} : request'[s] = request[s]
        /\ task' = task /\ request'[r] = IdleRequest
        /\ \A p \in Papers : LifeOf(p)' = LifeOf(p)
    BY LifeKept DEF RequestFault, Reply, TypeOK, tables
  <1>3. \A p \in Papers : p # q => ~Owes(r, p) /\ ~Owes(r, p)'
    BY <1>2 DEF Owes, IdleRequest
  <1>4. Touches(q)
    BY <1>1, <1>2, <1>3, WorkOwed DEF Touches
  <1>5. Life!Lose(q)
    BY <1>1, <1>2, <1>4, StepsOfLife DEF RequestFault
  <1>6. QED
    BY <1>1, <1>5 DEF Life!Next

\* A call that begins changes nothing JobLife sees: the paper of an upload has no job yet.
LEMMA ArriveMaps ==
  ASSUME TypeOK, NoOrphanRows, NEW r \in Requests, NEW q \in Papers, Arrive(r, q), Calm
  PROVE  [Life!Next]_(Life!vars)
  <1>1. /\ \A s \in Requests \ {r} : request'[s] = request[s]
        /\ task' = task /\ request[r].step = "idle" /\ request'[r].step \notin OwingSteps
        /\ \/ UNCHANGED tables
           \/ CreatePaper(q)
    <2>1. CASE Upload(r, q)
      BY <2>1 DEF Upload, Begin, TypeOK, RequestAt, OwingSteps
    <2>2. CASE Retry(r, q)
      BY <2>2 DEF Retry, Begin, TypeOK, RequestAt, OwingSteps
    <2>3. CASE Reprocess(r, q)
      BY <2>3 DEF Reprocess, Begin, TypeOK, RequestAt, OwingSteps
    <2>4. CASE RegenerateCard(r, q)
      BY <2>4 DEF RegenerateCard, Begin, TypeOK, RequestAt, OwingSteps
    <2>5. QED
      BY <2>1, <2>2, <2>3, <2>4 DEF Arrive
  <1>2. \A p \in Papers : ~Owes(r, p) /\ ~Owes(r, p)'
    BY <1>1 DEF Owes, OwingSteps
  <1>3. \A p \in Papers : LifeOf(p)' = LifeOf(p)
    <2>1. CASE UNCHANGED tables
      BY <2>1, LifeKept DEF tables
    <2>2. CASE CreatePaper(q)
      <3>1. /\ jobStatus' = jobStatus /\ jobStatus[q] = "none"
            /\ paperStatus[q] = "absent" /\ paperStatus'[q] = "queued"
            /\ \A p \in Papers : p # q => paperStatus'[p] = paperStatus[p]
        BY <2>2 DEF CreatePaper, NoOrphanRows, NoPaperRow, TypeOK, TablesTypeOK
      <3>2. LifeOf(q)' = LifeOf(q)
        BY <3>1 DEF LifeOf, Unfinished, Terminal
      <3>3. QED
        BY <3>1, <3>2, LifeKept
    <2>3. QED
      BY <1>1, <2>1, <2>2
  <1>4. Touches(q) /\ SameWork(q)
    BY <1>1, <1>2, <1>3, WorkOwed DEF Touches
  <1>5. QED
    BY <1>3, <1>4, StepsOfLife

\* A deletion deletes the job, the cleanup has failed ones expire.
LEMMA RemovalMaps ==
  ASSUME TypeOK, NoOrphanRows, LifeInv, task' = task, request' = request, Calm,
         \/ \E q \in Papers : DeletePaper(q)
         \/ \E old \in SUBSET Papers : old # {} /\ DeleteFailedJobs(old)
  PROVE  Life!Next
  <1>a. WorkedPapers' = WorkedPapers
    BY DEF WorkedPapers, WorksOn, Owes, Live, RetriesSpent
  <1>1. ASSUME NEW q \in Papers, DeletePaper(q)
        PROVE  Life!Next
    <2>1. /\ \A p \in Papers : p # q => jobStatus'[p] = jobStatus[p] /\ paperStatus'[p] = paperStatus[p]
          /\ jobStatus'[q] = "none" /\ paperStatus'[q] = "deleted"
      BY <1>1 DEF DeletePaper, TypeOK, TablesTypeOK
    <2>2. LifeOf(q)' = "deleted"
      BY <2>1 DEF LifeOf, Unfinished, Terminal
    <2>3. Touches(q) /\ SameWork(q)
      BY <2>1, <1>a, LifeKept DEF Touches, SameWork
    <2>4. Life!Delete(q)
      BY <2>2, <2>3, StepsOfLife
    <2>5. QED
      BY <2>4 DEF Life!Next
  <1>2. ASSUME NEW old \in SUBSET Papers, old # {}, DeleteFailedJobs(old)
        PROVE  Life!Next
    <2>1. \A p \in Papers \ old : LifeOf(p)' = LifeOf(p)
      <3>1. \A p \in Papers \ old : jobStatus'[p] = jobStatus[p] /\ paperStatus'[p] = paperStatus[p]
        BY <1>2 DEF DeleteFailedJobs
      <3>2. QED
        BY <3>1, LifeKept
    <2>2. ASSUME NEW p \in old
          PROVE  LifeOf(p) = "failed" /\ LifeOf(p)' = "expired"
      <3>1. jobStatus[p] = "failed" /\ jobStatus'[p] = "none" /\ paperStatus'[p] = paperStatus[p]
        BY <1>2 DEF DeleteFailedJobs
      <3>2. Begun(p) /\ paperStatus[p] # "deleted"
        BY <3>1 DEF LifeInv, FailedHasBegun, NoOrphanRows, NoPaperRow
      <3>3. LifeOf(p)' = "expired"
        BY <3>1, <3>2 DEF LifeOf, Unfinished, Terminal, Begun
      <3>4. QED
        BY <3>1, <3>3, LifeFacts
    <2>3. Life!Expire(old)
      BY <1>2, <1>a, <2>1, <2>2 DEF Life!Expire, Life!Quiet, Calm
    <2>4. QED
      BY <2>3 DEF Life!Next
  <1>3. QED
    BY <1>1, <1>2
-----------------------------------------------------------------------------
\* Every step of the system is a step of JobLife or none.
LEMMA StepMaps ==
  ASSUME TypeOK, NoOrphanRows, LifeInv, ReaderConfigured, [Next]_vars
  PROVE  [Life!Next]_(Life!vars)
  <1>1. CASE NewRequest
    <2>1. ASSUME NEW p \in Papers, Delete(p)
          PROVE  [Life!Next]_(Life!vars)
      BY <1>1, <2>1, RemovalMaps DEF NewRequest, Delete
    <2>2. QED
      BY <1>1, <2>1, ArriveMaps DEF NewRequest
  <1>2. ASSUME NEW r \in Requests, ServeRequest(r) \/ RequestFault(r)
        PROVE  [Life!Next]_(Life!vars)
    BY <1>2, RequestMaps, RequestFaultMaps DEF ServeRequest
  <1>3. ASSUME NEW t \in TaskIds, HandlerStep(t)
        PROVE  [Life!Next]_(Life!vars)
    BY <1>3, ParseShapes, ReadShapes, HandlerMaps DEF HandlerStep
  <1>4. ASSUME NEW t \in TaskIds,
               TakeTask(t) \/ FinishTask(t) \/ HandlerFault(t) \/ WorkerStops(t) \/ LastAttemptLost(t)
        PROVE  [Life!Next]_(Life!vars)
    BY <1>4, QueueMaps
  <1>5. CASE HandleCleanup
    <2>1. PICK old \in SUBSET Papers : old # {} /\ DeleteFailedJobs(old)
      BY <1>5 DEF HandleCleanup
    <2>2. QED
      BY <1>5, <2>1, RemovalMaps DEF HandleCleanup
  <1>6. CASE UNCHANGED vars
    BY <1>6 DEF vars, Life!vars, LifeOf, Unfinished, WorkedPapers, WorksOn, Owes, Live, RetriesSpent
  <1>7. QED
    BY <1>1, <1>2, <1>3, <1>4, <1>5, <1>6 DEF Next, TaskStep

\* The handlers, calls and the cleanup implement JobLife: every behaviour of theirs,
\* seen through the statuses and who still works on them, is one of JobLife.
THEOREM ImplementsJobLifeHolds == ReaderConfigured => (Spec => ImplementsJobLife)
  <1> SUFFICES ASSUME ReaderConfigured PROVE Spec => ImplementsJobLife
    OBVIOUS
  <1>1. Init => Life!Init
    BY DEF Init, TablesInit, TaskInit, RequestInit, Life!Init, LifeOf, Unfinished, Terminal,
           WorkedPapers, WorksOn, Owes, Live, FreeTask, IdleRequest
  <1>2. TypeOK /\ NoOrphanRows /\ LifeInv /\ [Next]_vars => [Life!Next]_(Life!vars)
    BY StepMaps
  <1>3. QED
    BY <1>1, <1>2, TypeCorrect, NoOrphanRowsHolds, LifeInvHolds, PTL DEF Spec, ImplementsJobLife, Life!Spec
=============================================================================
