----------------------------- MODULE TaskQueue -----------------------------
(***************************************************************************)
(* The asynq queue in Redis and the worker's asynq server, as              *)
(* internal/jobs and cmd/worker use them.  The library is not under src/:  *)
(* it is an at-least-once queue that deletes a task whose handler returned *)
(* nil, redelivers one whose handler failed until its retries are spent,   *)
(* and then archives it, which nobody reads: an archived task is gone.     *)
(*                                                                         *)
(* A task carries the position pc of the handler that runs it: "free" (no  *)
(* task), "waiting" (pending, or in a retry delay of any length), "ack"    *)
(* and "nack" (the handler has returned, Redis has not heard yet), or a    *)
(* step of ParsePipeline or ReadPipeline.                                  *)
(***************************************************************************)
EXTENDS Naturals, FiniteSets

CONSTANTS MaxTasks,         \* bound: tasks that exist at a time
          Concurrency,      \* asynq.Config.Concurrency of the worker
          ProcessMaxRetry,  \* asynq's default for paper:process
          ReadMaxRetry      \* READ_MAX_RETRY, for paper:read

ASSUME RetryAssumption == ProcessMaxRetry \in Nat /\ ReadMaxRetry \in Nat
ASSUME QueueAssumption == MaxTasks \in Nat /\ Concurrency \in Nat

VARIABLE task

TaskIds == 1..MaxTasks

FreeTask == [pc |-> "free"]
TaskInit == task = [t \in TaskIds |-> FreeTask]

At(t, step) == task[t].pc = step
Live(t) == task[t].pc # "free"
Running(t) == task[t].pc \notin {"free", "waiting"}

MaxRetry(kind) == IF kind = "process" THEN ProcessMaxRetry ELSE ReadMaxRetry

\* asynq archives, instead of retrying, a task with Retried >= Retry.
RetriesSpent(t) == task[t].retried >= MaxRetry(task[t].kind)

Goto(t, step) == task' = [task EXCEPT ![t].pc = step]

\* A loop that runs one row too far.
LoopFromPastEnd(t, i, n, body, exit) ==
  task' = IF i <= n THEN [task EXCEPT ![t].pc = body, ![t].next = i + 1]
          ELSE [task EXCEPT ![t].pc = exit, ![t].next = 0]

\* Leave a loop over rows 1..n at row i: to its next row, or to the exit step.
LoopFrom(t, i, n, body, exit) ==
  task' = IF i < n THEN [task EXCEPT ![t].pc = body, ![t].next = i + 1]
          ELSE [task EXCEPT ![t].pc = exit, ![t].next = 0]
-----------------------------------------------------------------------------
NewTask(kind, p) ==
  [pc |-> "waiting", kind |-> kind, paper |-> p, retried |-> 0, next |-> 0]

\* Ids are anonymous, so a new task takes the lowest free one.
Fresh(t) == At(t, "free") /\ \A u \in TaskIds : u < t => Live(u)

Enqueue(kind, p) ==
  \E t \in TaskIds : Fresh(t) /\ task' = [task EXCEPT ![t] = NewTask(kind, p)]

\* The worker takes a waiting task when it has a goroutine to spare.
Dequeue(t, firstStep) ==
  /\ At(t, "waiting")
  /\ Cardinality({u \in TaskIds : Running(u)}) < Concurrency
  /\ Goto(t, firstStep)

\* The task goes back to the queue with one more retry counted.
Redeliver(t) ==
  task' = [task EXCEPT ![t].pc = "waiting", ![t].retried = @ + 1, ![t].next = 0]

Drop(t) == task' = [task EXCEPT ![t] = FreeTask]

\* The handler returned nil.
Ack(t) == At(t, "ack") /\ Drop(t)

\* The handler returned an error.
Nack(t) == At(t, "nack") /\ IF RetriesSpent(t) THEN Drop(t) ELSE Redeliver(t)

\* The worker shuts down: asynq pushes unfinished tasks back, no retry counted.
Requeue(t) ==
  /\ Running(t)
  /\ task' = [task EXCEPT ![t].pc = "waiting", ![t].next = 0]

\* The worker is gone (its lease runs out) or the 30 minute timeout cancels the
\* handler's context: asynq fails the task without the handler's help.
LoseAttempt(t) == Running(t) /\ ~RetriesSpent(t) /\ Redeliver(t)
LoseLastAttempt(t) == Running(t) /\ RetriesSpent(t) /\ Drop(t)
=============================================================================
