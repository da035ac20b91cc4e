------------------------------ MODULE Harvest ------------------------------
(***************************************************************************)
(* How papers come in: harvest passes of internal/jobs/harvest_pipeline.go *)
(* (one per arxiv:harvest task, so the cron's and the API's overlap) and   *)
(* uploads, both through Service.IngestPDF, with papers deleted meanwhile. *)
(* One step per call that another actor could come between.                *)
(***************************************************************************)
EXTENDS AssetStore

CONSTANTS Harvesters,    \* arxiv:harvest tasks the worker runs at a time
          Uploaders,     \* uploads the API serves at a time
          Entries,       \* arXiv ids, without their version
          None,          \* no source id (an upload's papers.source_id is NULL)
          MaxCategories, \* bound: categories of a pass
          MaxPasses,     \* bound: passes and uploads in all
          MaxFaults      \* bound: calls that fail, workers that are lost

ASSUME SlotAssumption == Harvesters \cap Uploaders = {} /\ Writers = Harvesters \cup Uploaders
ASSUME NoneAssumption == None \notin Entries \cup Papers \cup Keys
ASSUME BoundAssumption == MaxCategories \in Nat /\ MaxPasses \in Nat /\ MaxFaults \in Nat

VARIABLES source,     \* papers.source_id
          jobs,       \* the papers that have a row in paper_processing_jobs
          enqueued,   \* the papers whose paper:process task was enqueued
          slot,       \* the pass or upload each goroutine is at
          passes, faults

vars == <<row, assets, objects, deletion, source, jobs, enqueued, slot, passes, faults>>

IngestSteps == {"put", "createPaper", "createAsset", "createJob", "enqueue"}

IdleSlot == [step |-> "idle"]

Slots ==
  [step : {"next", "download"} \cup IngestSteps, categories : 0..MaxCategories,
   todo : SUBSET Entries, entry : Entries \cup {None},
   key : Keys \cup {None}, paper : Papers \cup {None}]

At(w, step) == slot[w].step = step

Init ==
  /\ row = [p \in Papers |-> "absent"]
  /\ assets = {} /\ objects = {}
  /\ deletion = [d \in Deleters |-> IdleDeletion]
  /\ source = [p \in Papers |-> None]
  /\ jobs = {} /\ enqueued = {}
  /\ slot = [w \in Writers |-> IdleSlot]
  /\ passes = 0 /\ faults = 0

\* ExistsPaperBySource, and what the unique index on source_id looks at.
Known(e) == e # None /\ \E p \in Papers : Present(p) /\ source[p] = e
-----------------------------------------------------------------------------
Begin(w, first) ==
  /\ slot[w] = IdleSlot /\ passes < MaxPasses
  /\ slot' = [slot EXCEPT ![w] = first]
  /\ passes' = passes + 1
  /\ UNCHANGED <<storeVars, source, jobs, enqueued, faults>>

Blank(step, n) ==
  [step |-> step, categories |-> n, todo |-> {}, entry |-> None, key |-> None, paper |-> None]

\* The configured categories, or those of the request that triggers the pass.
StartHarvest(w) ==
  w \in Harvesters /\ \E n \in 1..MaxCategories : Begin(w, Blank("next", n))

StartUpload(w) == w \in Uploaders /\ Begin(w, Blank("put", 0))

\* This entry is over, however it went: a pass goes on to the next one.
EntryOver(w) ==
  slot' = [slot EXCEPT ![w] = IF w \in Uploaders THEN IdleSlot
                              ELSE [Blank("next", @.categories) EXCEPT !.todo = slot[w].todo]]

Quiet == UNCHANGED <<passes, faults>>
-----------------------------------------------------------------------------
(* Harvest and ingestEntry.                                                *)

\* A pass that asks for one category more than it has.
FetchPastEnd(w) ==
  /\ At(w, "next") /\ slot[w].todo = {} /\ slot[w].categories >= 0
  /\ \E feed \in SUBSET Entries :
       slot' = [slot EXCEPT ![w].categories = @ - 1, ![w].todo = feed]
  /\ UNCHANGED <<storeVars, source, jobs, enqueued>> /\ Quiet

\* The feed of a category at that moment, or an error, which skips the category.
FetchRecent(w) ==
  /\ At(w, "next") /\ slot[w].todo = {} /\ slot[w].categories > 0
  /\ \E feed \in SUBSET Entries :
       slot' = [slot EXCEPT ![w].categories = @ - 1, ![w].todo = feed]
  /\ UNCHANGED <<storeVars, source, jobs, enqueued>> /\ Quiet

\* A check that fails skips the entry, which a download that fails does as well.
CheckKnown(w) ==
  /\ At(w, "next")
  /\ \E e \in slot[w].todo :
       slot' = IF Known(e) THEN [slot EXCEPT ![w].todo = @ \ {e}]
               ELSE [slot EXCEPT ![w].todo = @ \ {e}, ![w].entry = e, ![w].step = "download"]
  /\ UNCHANGED <<storeVars, source, jobs, enqueued>> /\ Quiet

\* A download may fail, be too large or not be a PDF.
Download(w) ==
  /\ At(w, "download")
  /\ slot' = [slot EXCEPT ![w].step = "put"] \/ EntryOver(w)
  /\ UNCHANGED <<storeVars, source, jobs, enqueued>> /\ Quiet

EndHarvest(w) ==
  /\ At(w, "next") /\ slot[w].todo = {} /\ slot[w].categories = 0
  /\ slot' = [slot EXCEPT ![w] = IdleSlot]
  /\ UNCHANGED <<storeVars, source, jobs, enqueued>> /\ Quiet
-----------------------------------------------------------------------------
(* IngestPDF and CreatePaperUpload.                                        *)

\* Names tell nothing apart, so a new object or row takes any one that is left.
One(names) == IF names = {} THEN {} ELSE {CHOOSE n \in names : TRUE}

\* The key holds a new uuid: nothing has it or will use it.
UnusedKey(k) ==
  /\ k \notin objects /\ ~Removing(k)
  /\ \A a \in assets : a.key # k
  /\ \A w \in Writers : slot[w] # IdleSlot => slot[w].key # k

PutPDF(w) ==
  /\ At(w, "put")
  /\ \E k \in One({n \in Keys : UnusedKey(n)}) :
       /\ PutObject(k)
       /\ slot' = [slot EXCEPT ![w].step = "createPaper", ![w].key = k]
  /\ UNCHANGED <<source, jobs, enqueued>> /\ Quiet

UnusedIds == {p \in Papers : row[p] = "absent"}

\* An insert that no unique index refuses.
CreatePaperTwice(w) ==
  /\ At(w, "createPaper")
  /\ \E p \in One(UnusedIds) :
       /\ row' = [row EXCEPT ![p] = "present"]
       /\ source' = [source EXCEPT ![p] = slot[w].entry]
       /\ slot' = [slot EXCEPT ![w].step = "createAsset", ![w].paper = p]
  /\ UNCHANGED <<assets, objects, deletion, jobs, enqueued>> /\ Quiet

\* An insert that returns the paper which has the source, where there is one.
CreatePaperOrTakeOver(w) ==
  /\ At(w, "createPaper")
  /\ \E p \in IF Known(slot[w].entry) THEN {q \in Papers : Present(q) /\ source[q] = slot[w].entry}
             ELSE One(UnusedIds) :
       /\ row' = [row EXCEPT ![p] = "present"]
       /\ source' = [source EXCEPT ![p] = slot[w].entry]
       /\ slot' = [slot EXCEPT ![w].step = "createAsset", ![w].paper = p]
  /\ UNCHANGED <<assets, objects, deletion, jobs, enqueued>> /\ Quiet

CreatePaper(w) ==
  /\ At(w, "createPaper")
  /\ \/ /\ ~Known(slot[w].entry)
        /\ \E p \in One(UnusedIds) :
             /\ row' = [row EXCEPT ![p] = "present"]
             /\ source' = [source EXCEPT ![p] = slot[w].entry]
             /\ slot' = [slot EXCEPT ![w].step = "createAsset", ![w].paper = p]
     \/ Known(slot[w].entry) /\ EntryOver(w) /\ UNCHANGED <<row, source>>
  /\ UNCHANGED <<assets, objects, deletion, jobs, enqueued>> /\ Quiet

CreateAsset(w) ==
  /\ At(w, "createAsset")
  /\ \/ /\ CreatePaperAsset(slot[w].paper, slot[w].key, w)
        /\ slot' = [slot EXCEPT ![w].step = "createJob"]
     \/ ~Present(slot[w].paper) /\ EntryOver(w) /\ UNCHANGED storeVars
  /\ UNCHANGED <<source, jobs, enqueued>> /\ Quiet

CreateJob(w) ==
  /\ At(w, "createJob")
  /\ \/ /\ Present(slot[w].paper)
        /\ jobs' = jobs \cup {slot[w].paper}
        /\ slot' = [slot EXCEPT ![w].step = "enqueue"]
     \/ ~Present(slot[w].paper) /\ EntryOver(w) /\ UNCHANGED jobs
  /\ UNCHANGED <<storeVars, source, enqueued>> /\ Quiet

\* An ingest that forgets to hand its paper to the worker.
EnqueueNothing(w) ==
  /\ At(w, "enqueue")
  /\ EntryOver(w)
  /\ UNCHANGED <<storeVars, source, jobs, enqueued>> /\ Quiet

EnqueueProcessing(w) ==
  /\ At(w, "enqueue")
  /\ enqueued' = enqueued \cup {slot[w].paper}
  /\ EntryOver(w)
  /\ UNCHANGED <<storeVars, source, jobs>> /\ Quiet
-----------------------------------------------------------------------------
(* A deletion takes the job's row with the paper's; a queued task stays.    *)

Delete(d) ==
  /\ \/ \E p \in Papers : ListPaperAssets(d, p)
     \/ DeletePaperRow(d)
     \/ RemoveObject(d)
  /\ jobs' = {p \in jobs : row'[p] = "present"}
  /\ UNCHANGED <<source, enqueued, slot>> /\ Quiet

-----------------------------------------------------------------------------
(* What goes wrong.                                                        *)

Fault == faults < MaxFaults /\ faults' = faults + 1 /\ UNCHANGED passes

CallFails(w) ==
  /\ slot[w].step \in IngestSteps
  /\ EntryOver(w)
  /\ UNCHANGED <<storeVars, source, jobs, enqueued>> /\ Fault

\* The worker dies, or the pass runs into asynq's 30 minutes: its task is
\* delivered again, which is a pass like any other.
PassLost(w) ==
  /\ slot[w] # IdleSlot
  /\ slot' = [slot EXCEPT ![w] = IdleSlot]
  /\ UNCHANGED <<storeVars, source, jobs, enqueued>> /\ Fault

DeleteFails(d) ==
  /\ RemoveFails(d) \/ DeletionFails(d)
  /\ UNCHANGED <<source, jobs, enqueued, slot>> /\ Fault
-----------------------------------------------------------------------------
IngestStep(w) ==
  \/ FetchRecent(w) \/ CheckKnown(w) \/ Download(w) \/ EndHarvest(w)
  \/ PutPDF(w) \/ CreatePaper(w) \/ CreateAsset(w) \/ CreateJob(w)
  \/ EnqueueProcessing(w)

Next ==
  \/ \E w \in Writers : \/ StartHarvest(w) \/ StartUpload(w) \/ IngestStep(w)
                        \/ CallFails(w) \/ PassLost(w)
  \/ \E d \in Deleters : Delete(d) \/ DeleteFails(d)

Spec == Init /\ [][Next]_vars
=============================================================================
