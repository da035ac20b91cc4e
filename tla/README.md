# A TLA+ model of scholarflow-server

scholarflow-server turns PDFs of papers into structured records. An HTTP API
takes uploads, a worker parses each PDF with GROBID and then has a language
model write a "card" about it. PostgreSQL holds the records, MinIO the files, and
asynq (on Redis) carries the work from the API to the worker.

## The system and its parts

| part | state it keeps | operations | talks to |
|---|---|---|---|
| tables (`internal/db`, `queries`, `migrations`) | papers, jobs, sections, references, figures, cards, evidence, assets, settings | one statement at a time: no code opens a transaction | every other part |
| queue (asynq; `internal/jobs/service.go`, `tasks.go`) | tasks, their retry counts | enqueue, deliver, retry, archive, requeue | API and harvest enqueue, worker takes |
| parse pipeline (`jobs/pipeline.go`, `jobs/repository.go`) | none of its own | `ProcessPaper`: mark, fetch, parse, replace rows, mark, enqueue the read | tables, store, GROBID, queue |
| read pipeline (`jobs/read_pipeline.go`, `read_processor.go`) | none | `ReadPaper`: mark, read, replace card and evidence, mark | tables, language model |
| paper services (`internal/papers`) | none | upload, retry, reprocess, reread, delete, read queries | tables, store, queue |
| worker and API processes (`cmd`) | which handlers are registered | take tasks, schedule cleanup and harvest, serve | all |
| harvest (`jobs/harvest_pipeline.go`, `internal/arxiv`) | none | list a category, skip known ids, download, ingest | arXiv, tables, store, queue |
| settings (`internal/settings`, `internal/config`) | a cached map of the `app_settings` rows | get, set, reset, snapshot | tables, environment |
| store (`internal/storage`) | objects | put, get, delete | services, pipelines |
| parser (`internal/parser`), figures (`internal/figures`), reader (`internal/reader`) | none | TEI to records, boxes to pixels, prompt to card | pipelines |
| HTTP (`internal/httpapi`), migration runner (`internal/migrate`) | none; an advisory lock | routes, answers; run migrations once | services; tables |

What is hard about it: every statement commits alone, so a handler can be cut
off between any two of them and run again; several tasks of one paper can run at
once (retry, reprocess and reread do not look at the queue); rows can vanish
under a handler (delete, cleanup); the job's row, the paper's row and the queue
are three records of one thing, written one after the other; and the worker's
idea of a task's last attempt has to be asynq's.

## Modules

    PaperTables     TaskQueue
        |  \         /  |  \
        |   ParsePipeline   \
        |   ReadPipeline     \
        |   PaperService      |
         \        |          /
            ScholarFlow  ->  JobProperties  ->  MCScholarFlow (TLC)
                               |     \
                               |   JobLife (INSTANCE: what it implements)  ->  JobLifeProofs
                         RetryHistory  ->  MCRetryHistory (TLC)
                               \->  ScholarFlowProofs (TLAPS)

        AssetStore
         /      \
     Harvest   PaperObjects  ->  ObjectProperties  ->  MCPaperObjects (TLC)
        |                               \->  ObjectProofs (TLAPS)
     HarvestProperties  ->  MCHarvest (TLC)
           |    \->  HarvestProofs (TLAPS)
         Intake (INSTANCE: what it implements)

    PaperCards  ->  CardProperties  ->  MCPaperCards (TLC)
                         \->  CardProofs (TLAPS)

    SettingsCache  ->  SettingsProperties  ->  MCSettingsCache (TLC)
                                \->  SettingsProofs (TLAPS)

    SettingLayers  ParsedPages  FigureGeometry
               \        |        /
                  Conversions  ->  MCConversions (TLC)
                         \->  ConversionProofs (TLAPS), with instances of FoldFacts

- **PaperTables** has the rows the pipelines and the API share, and one operator
  per SQL statement that changes them: its `WHERE` clause, its foreign key or
  `UNIQUE` constraint is the guard, and a `:one` query that finds no row is an
  error to its caller where an `:exec` query is not.
- **TaskQueue** models asynq from how the code uses it. A task is a record that
  also carries the step of the handler that runs it. "waiting" is pending or in a
  retry delay; an archived task is gone, since no code looks at the archive.
- **ParsePipeline** and **ReadPipeline** are the two handlers, one action per
  statement another actor could come between. An error sends the task to the
  step the code's error return leads to (`ParseError`, `ReadError`).
- **PaperService** holds upload, retry, reprocess, reread and delete, again one
  step per statement, for a set of concurrent request slots.
- **ScholarFlow** composes them and adds what goes wrong: a statement that fails,
  a shutdown (the task goes back, no retry counted), an attempt lost to a dead
  worker or the 30 minute timeout (one retry counted), and the last attempt lost
  the same way (the task is archived and no code runs).
- **JobLife** is the promise the job modules keep, without statements, tasks or
  goroutines: a job is new, open, completed, failed, expired or deleted, and some papers
  are worked on. A job changes only while its paper is worked on; work ends with the job
  finished, or because there is no job any more, or in a counted loss; only a failed
  job expires; an expired or deleted job never comes back.
- **JobProperties** states the properties, and the mapping from the tables and the
  queue to JobLife: a job is open while its row has any of the four unfinished
  statuses, and a paper is worked on while a task may still write that row
  (`WorksOn`) or a request has yet to enqueue the task (`Owes`).
- **RetryHistory** runs the same steps with a history variable: how often the job of each
  paper has failed, less the failures that were answered, by a retry that goes on to
  enqueue a task or by a reprocess, reread, cleanup or deletion that overwrites them. No
  step depends on it (`HistorySpec` is `Next /\ Tally`), so it allows what ScholarFlow does.
- **AssetStore** has the two records of the stored files, rows of `paper_assets` and
  objects in MinIO, and `AdminService.DeletePaper`, which lists the rows, deletes the
  paper and then removes the listed objects one by one.
- **Harvest** is how papers come in: `Harvest` and `ingestEntry` (categories, the feed
  of each, the dedup check, the download) and `IngestPDF`, which uploads share, call
  by call. Every `arxiv:harvest` task is a pass, so a pass the API triggers overlaps
  with the cron's; a paper may be deleted meanwhile. **HarvestProperties** has its
  properties, and the mapping from the rows and tasks to Intake.
- **Intake** is the promise the harvest keeps, without calls, passes or goroutines: a
  paper is not taken in while another of its source is there; it arrives once, or is
  stranded by a counted loss; after that nothing happens to it but that it is removed,
  for good. A paper is "arriving" while an ingest has it in hand, and "ready" when it
  has its job and its task.
- **PaperObjects** is what the upload and the parses of one paper do to files and figures,
  from the first call of `IngestPDF` on: the PDF and its row, the TEI at a fixed key, the figure rows, and the crops (`extractFigures`), whose errors are
  logged and skipped. Parses overlap, and each may be cut off anywhere. A figure row
  carries the asset row it points at, and `ON DELETE SET NULL` is part of the
  statement that deletes the asset. What GROBID finds may change from one parse to the
  next: each parse has a result, and the object of a figure key is known by the result it
  is a crop of. Two history variables, which no guard reads, are for the properties:
  `early`, whether a deletion listed the assets before the PDF's was one, and `mixed`, the
  parses that a different result may have got into because they overlapped one of it.
  **ObjectProperties** has its properties.
- **PaperCards** is what runs of `paper:read` write: the sections given to the model
  (`GetReadContext`), the two questions to it (`ReadPaper` of `internal/reader`, with the
  checks of `parseCard` as facts about an answer), the card and its evidence row by row,
  each row with its foreign keys. Runs of `paper:process` replace the sections
  meanwhile, which sets `section_id` of the evidence to NULL, and the paper may be
  deleted. A section row is known by the run that inserted it, so a row with the same
  label is not the same row. **CardProperties** has its properties.
- **SettingsCache** is the override cache of `settings.Provider`: a read takes the
  mutex, lists the table if the map is not loaded or too old, installs and copies;
  a write updates the table without the mutex and then busts the cache with it. The
  table is a version number, so a map is known by the version it is of.
  **SettingsProperties** has its properties.
- **SettingLayers** is how a key gets its value: `rawWithSource` and the typed readers of
  the provider, which the list of settings shows, and `Snapshot` with `config.Build`,
  which a process starts with. A raw text is what is left of it without spaces, and
  whether it has some.
- **ParsedPages** has the functions from GROBID's `@coords` to the pages of a section, the
  page and box of a figure, and the page an entry of evidence ends up with
  (`clampPage`). **FigureGeometry** has those from a box to the pixels of a crop
  and of its smaller copy, in exact numbers where the code has float64.
  **Conversions** applies each function to every input of a bounded set, one step
  from input to output, and states what the output must be in terms of sets and
  quantifiers instead of loops.
- **FoldFacts** has the rule of a loop over a sequence, for any body and any loop
  invariant. Both are constants of the module, which a proof about a loop instantiates.

The job modules and the file modules describe the same handlers from two sides:
in ParsePipeline the files are left out, in PaperObjects and Harvest the statuses
are. Together in one state space they would multiply and no property needs both.

Abstractions: columns no code branches on are left out (texts, counts of
attempts, error messages, timestamps, `task_id`). A statement whose reply is
lost after it committed behaves as a step that succeeded followed by a fault of
the next one. In the job modules, whether an evidence row's ids are
still valid is a free choice; PaperCards says when they are. The age of a failed job is free, so the cleanup may delete any
subset. A call of GROBID or of the language model may fail at any time, without
using up the bound on faults. A request whose client disconnects is a request
fault: its context is cancelled and the handler gives up between two statements.

## What the runs check

| run | question | bounds |
|---|---|---|
| `JobLifecycle` | types; no unfinished job without a task or request that will finish it; nothing of a deleted paper comes back; a completed job has all its rows and a card, although parses and reads of one paper overlap; each failure is answered by at most one retry, and none is forgotten; the job lives as JobLife says | 1 paper with 2 sections, 2 requests at a time and 3 in all, 3 tasks, 2 goroutines, every operation |
| `JobFaults` | each failed step or lost last attempt leaves behind at most one job, and nothing else strands one | 2 papers, 2 faults |
| `JobSingle` | one task of each kind per paper: `papers.status` ends equal to the job's, a failed read has no delivery left, under fairness every job ends completed or failed; and with redelivery, a task that starts again over what its first run left still has no unfinished job without a driver, and JobLife again | 1 paper, upload, deletion and cleanup, 2 retries of the read, 1 shutdown or lost attempt |
| `HarvestOverlap` | one paper per arXiv id; no asset row without its object; a fault leaves one paper without a task at most; an ingest is one arrival, as Intake says | 2 passes or uploads of 3 goroutines, 2 ids, a deletion, 2 faults |
| `ParsesOverlap` | a figure is served with a stored crop of its own order, and of its own result unless parses of different results have overlapped; the upload lives as long as its paper, unless a deletion came in before it was done | the upload, 2 parses, 2 results of GROBID, 2 figures, a deletion, a failing call |
| `CardOverlap` | evidence points at what the model was given or at nothing; a completed job has a card with all its evidence rows; every run ends | 2 reads and a parse, 1 section, 2 evidence rows, a deletion, a failing call |
| `Settings` | an acknowledged write is never hidden by an older read; the cache never goes back; under fairness every write arrives in it | 3 goroutines, 2 writes, a failing call |
| `Conversions` | the list of settings and the start of a process agree; an evidence page is in its section; a figure's box covers its page's boxes; a crop holds its figure; a smaller copy fits and samples only what is there | lists of up to 3 boxes over 6 page values, 2 rectangles with different overlap and one of no width, boxes at, over and before the page's edges, 3 resolutions, 3 paddings, images up to 8 pixels |

Four more runs show where the documentation says more than the code does (see
"Findings"). The bounds: two tasks of one paper at two goroutines is the worker's
real concurrency (`asynq.Config{Concurrency: 2}`); one retry per task separates the
first, the last and an intermediate attempt of a handler together with a restart;
two sections separate none, some and all; two requests make every pair of calls
race. A third task lets one finish while two overlap. Two passes make every pair of
ingests of one id race, and a second id lets a pass go on after an entry it skipped.
Two parses with two results are enough for one to put its crop under another's figure;
any number of parses is what the proof is about. `HarvestOverlap` has three keys and
paper ids for at most four ingests: an ingest that finds none left waits, which hides no
shorter history. Three goroutines are one that reads, one that writes and one that comes in between. `CHECK_DEADLOCK FALSE`
except for the settings: once the bounded requests are used up the system may rest.

Fairness (`JobSingle`): weak for every request and handler step, since the Go
scheduler runs every goroutine and every blocking call has a timeout; strong for
taking a task, since asynq serves its queue in order and the worker's goroutines
become free again and again. No fairness is assumed of clients, faults, restarts or
the cleanup. `Settings`: strong fairness of a goroutine's steps (a mutex of Go hands
itself to a waiter that starves), weak fairness of time and of requests that read
settings; none of writes. `CardOverlap`: weak for every run's steps, since a call of the model
ends within `OPENAI_TIMEOUT_SECONDS`; none of deletions and faults.

## Findings

- `RetryPartial`: a retry takes one section row for a parsed paper
  (`internal/papers/retry.go:57`).
- `LastReadLost`: a read whose last attempt ends without its handler stays
  'reading' (`internal/jobs/read_pipeline.go:73`, docs/api.md:362).
- `RereadNoReader`: a reread without a reader leaves the job 'queued'
  (`internal/papers/admin.go:105`, docs/api.md:311).
- `HarvestSkips`: a failing call after the paper's row leaves a paper without a task,
  and every later pass skips its id as known (`internal/papers/repository.go:21`,
  docs/superpowers/specs/2026-06-25-arxiv-harvest-design.md:150).

Gaps the models reach and no property forbids:

- an object that a parse stores after a deletion has listed the assets outlives the paper
  (`internal/papers/admin.go:48`);
- after the cleanup has deleted a failed job, the admin calls answer 404 for its paper
  (`internal/papers/admin.go:70`);
- two handlers of one paper, after a reprocess or when a task is delivered again, can
  leave `papers.status` different from the job's (`internal/jobs/repository.go:44`);
- two parses that overlap between the deletion of the old figure rows and the inserts
  leave two rows of one order (`internal/jobs/repository.go:154`), although
  `queries/papers.sql:157` relies on the order being unique;
- two parses that overlap and were given different figures put their crops at the same keys
  and attach them to rows of the same order, whoever inserted them: a figure can then be
  served with the crop of the other result's figure of that order
  (`SetFigureImage` by `figure_order`, `internal/jobs/repository.go:301`; `mixed` in ObjectProperties);
- a deletion that lists the assets between `CreatePaper` and `CreatePaperAsset` of the
  upload removes the rows and leaves the PDF in MinIO, although no call failed
  (`internal/papers/repository.go:35`), where docs/api.md:126 says that the objects are
  deleted (`early` in ObjectProperties);
- when the second of the two status statements fails, `papers.status` stays different from
  the job's (`internal/jobs/pipeline.go:76`); `PaperAgreesWithJob`, `CompletedIsParsed` and
  `CompletedHasCard` are about histories without a failing statement or a restart,
  `CompletedHasWholeCard` about those without a failing statement;
- two reads that overlap may leave two card rows, of which the API shows the latest; and if
  a parse replaces the sections between them, the latest may be one whose evidence was
  refused half way, under a job the other read completed (`Outdated` in CardProperties);
- a read that fails after `DeletePaperCardsByPaper` has already removed the card clients
  had, and one that fails between two evidence rows leaves a whole `content_json` with
  some of its evidence rows until it is retried (`internal/jobs/repository.go:236-266`);
- an override that is empty, or a number or flag padded with spaces, is accepted and
  listed as the value in force, but `Snapshot` falls back to the default without
  looking at the environment (`Plainly` in Conversions; `internal/settings/provider.go:93`
  and `internal/config/config.go:94-123`). A row put into the table for a bootstrap key
  is listed as `db` although no process uses it;
- a figure whose boxes lie on several pages is listed on the page of its first box and
  cropped from the page of its largest (`internal/parser/grobid.go:287-288`);
- a figure whose first box is a bare number and is followed by another box is listed on no
  page, for `parsePage` takes the text before the first comma of the whole value
  (`internal/parser/grobid.go:386-401`), and still cropped from the page of its largest box.

## What is proved

TLAPS checks each theorem below for every value of the constants. The assumptions are
the named `ASSUME`s of the modules and no others: bounds are natural numbers, the set of
papers is finite, names of different things differ and none of them is the value that
stands for "none", a raw text is a record of `Raw`, page numbers, coordinates and
resolutions are integers; TLC evaluates each of them in a run. Four theorems have a
hypothesis besides: the refinement, that the worker has a reader (`ReaderConfigured`);
`PaperAgreesWithJobHolds` and `FailedReadIsOverHolds`, what clients call (`OneTaskEach`);
and `CropHoldsFigureHolds`, that `FIGURE_EXTRACT_DPI` is 3 or more and
`FIGURE_EXTRACT_PADDING_PCT` not negative (`FiguresSpanPixels`), which nothing in
`internal/settings/registry.go:73-74` or `internal/config/config.go:81-82` requires.
With a padding below zero the crop cuts into the figure, and below 3 dots per inch the
crop of a small figure may be empty.

The jobs, for every number of papers, sections, references, tasks, goroutines, retries,
requests, faults and restarts, in the three parts of ScholarFlowProofs. The first:

- `TypeCorrect`: `TypeOK`, which also says that a handler is
  only at steps of its own task type and that no insert loop leaves the rows of a
  parse. `TypeOK` is inductive as it stands: it bounds a task's retry count, and
  the two archive guards keep it there.
- `FaultsAbandonOneJobEachHolds`: the number of abandoned jobs
  never exceeds the number of faults. It is inductive together with `TypeOK`: a
  paper is covered when its job is finished or somebody will still write its
  status, every step of a task or request keeps each covered paper covered
  (`TaskKeepsCovered`, `RequestKeepsCovered`), and a step that uncovers one is a
  fault and uncovers no other. `NoAbandonedJobHolds` follows from it with no faults.
- `NoOrphanRowsHolds`: inductive together with `TypeOK`, with one case per statement
  that inserts, updates or deletes.
- `OneAnswerPerFailureHolds`, about the behaviours of RetryHistory. Its invariant, `HistoryInv`,
  counts a retry between its reset and its enqueue among those who owe an answer: the
  failures of a paper that are not yet answered are the one its job shows and one for
  each retry on its way, and each of these has its own, since the reset takes the
  'failed' from the row in the statement that looks at it. A retry that gives up at a
  fault leaves its failure unanswered for good, which is why equality needs `faults = 0`.

The second, for behaviours without faults and restarts as the properties say, with
lemmas that say once what a step of a handler, of the queue or of a request may write:

- `CompletedIsParsedHolds`. The strengthening is `RowsFill`: every row that is missing
  is ahead of a parse whose way to it no row blocks, and whoever is about to insert the
  last section goes on to the references. A parse that deletes another's rows is itself
  at the start of the loop, so it takes over what is missing. `UnbornIdle` says
  that nobody works on a paper that was never uploaded.
- `CompletedHasCardHolds`, from `CardsFill`: once a read has got past inserting a card,
  the paper has one or another read has just deleted it and is about to insert its own.
- `PaperAgreesWithJobHolds` and `FailedReadIsOverHolds`, for clients that only upload and
  delete (`OneTaskEach`; a retry or a reprocess starts a second task, and then
  `papers.status` may stay behind, see "Findings"), from `Turns`: one upload
  or one task has the paper, at each step of a handler the rows say what `Fits` lists, and
  whoever leaves the paper leaves the two statuses equal. A parse that has enqueued
  its read has left: it has only its acknowledgement to send.

The third:

- `ImplementsJobLifeHolds`: every behaviour of ScholarFlow, seen through its jobs, is one of
  JobLife. Its invariant is `LifeInv`: a failed job has been begun, tasks and calls are for
  papers known to the service, a call that creates a job is the only one of its paper.
  The steps of the handlers fall into five shapes (`ParseShapes`, `ReadShapes`), and
  each shape maps to a step of JobLife or to a stutter. Without a reader the step
  `paper:process` ends by leaving the job 'parsed', which JobLife counts as open: hence the hypothesis.

JobLifeProofs: `LossesStrandOneEachHolds`, that JobLife itself never has more open jobs
nobody works on than losses were counted.

Intake and files, for every number of passes, goroutines, ids, keys, deletions and faults.

In HarvestProofs:

- `HarvestTypeCorrect`; `OnePaperPerSourceHolds`, because the `UNIQUE` constraint, not the
  dedup check, decides.
- `AssetHasObjectHolds`, from `FilesInv`: keys belong to one paper, an object
  between its Put and its row is held by one ingest and by no deletion, and a deletion
  gets to the objects only when the rows that name them are gone.
- `FaultsStrandOnePaperEachHolds`, from `IngestInv`: a goroutine has one paper in hand
  and drops it without a task only by a fault.
- `ImplementsIntakeHolds`: every behaviour of Harvest, seen paper by paper, is one of Intake.
  What a step of an ingest does to the paper in hand has six shapes (`InHand`), each a step
  of Intake or a stutter; the insert of a paper is an arrival of a new one because a job is
  always of a paper that is there (`JobsHavePapers`), a deleted paper's having gone
  with it.

In ObjectProofs: `ObjectsTypeCorrect`, `FigureServesOwnImageHolds` and
`PDFGoesWithPaperHolds`. The first part of the invariant, `ObjInv`: while the paper is there so
is every object a row names or is about to name, and no deletion has come to the objects;
a deletion that began after the ingest has the PDF on its list. The second, `CropInv`, is
about parses that no different result got into: their figures' images, and the crops they
are about to attach, are of their own result. It is kept because a parse that overlaps
none deletes all figure rows before it puts its first crop, and those that overlap have
one result or are `mixed`.

In CardProofs, for every number of reads, parses, sections and evidence rows:
`CardsTypeCorrect`; `EvidenceCitesWhatWasReadHolds`, from `LabelsInv` (labels are unique, and a
section that was replaced never comes back since the parse that made it is past it); and
`CompletedHasWholeCardHolds`, from `WholeInv` (a card is being written, whole, or was cut
off by a parse, and when there is none another read is about to make one).

In SettingsProofs, for every number of goroutines, writes and failing calls:

- `CacheTypeCorrect`: the types, and that exactly the goroutine between `Lock` and
  `Unlock` holds the mutex. Inductive as it stands.
- `ServesAcknowledgedHolds` and `CacheNeverGoesBackHolds`, from one inductive
  invariant, `CacheInv`: what a read has listed is not older than the cache or any
  acknowledgement, because a bust needs the mutex the read holds; a map that counts
  as loaded is not older than an acknowledgement.

In ConversionProofs, the conversions, for every input: lists of any length, any integer
coordinates and pages, images of any size, raw texts in any layer. `Converted` is
the inductive invariant, that there is no result yet or it is the function of the input;
what remains is about the functions.

- `EvidencePageInSectionHolds` and `FigureBoxCoversItsPageHolds` are about loops. What a
  loop computes is proved by `FoldInvariant` (FoldFacts), by induction over the elements
  done: the body and the loop invariant are constants of FoldFacts, and each loop has an
  instance of it (`PagesLoop`, `RangeLoop`, `BoxesLoop`, `LargestLoop`, `UnionLoop`). The
  invariants are what a programmer would write at the loop: the pages so far are those of
  the boxes so far; the range so far starts and ends at pages that occur and holds
  all of them; the dominant box is of the largest area so far; the union covers
  the boxes so far and each of its sides is a side of one of them.
- `CropHoldsFigureHolds` and `DownscaleFitsHolds` are arithmetic: truncation loses less than
  one (`TruncateBounds`), and a product grows with its factors (`ProductGrows`). The first
  needs that the figure spans more than one pixel before truncation, which the least
  height, 30 points, gives from 3 dots per inch on.
- `StartsAsShownHolds` goes through the layers a setting can come from.

Only model-checked: the liveness properties `ComesToRest`, `WritesArrive` and
`EveryRunEnds`, which need fairness and ENABLED and are out of the prover's reach. The
four runs that show a finding have a counterexample for a property, so there is nothing to prove.

## Plan

What is left, in this order: the assembly of a paper's detail from the queries of
`internal/papers/read.go` while handlers write; authors' rows.

## Not modelled

The XML of GROBID and of arXiv, prompts and the JSON of cards (pure conversions no
property is about yet); the HTTP layer's decoding and encoding, the panel and the
read-only queries, which change no state; goose's migrations, run once at start-up
under a lock of goose's own; `pdftoppm` and its temporary files; authors' rows; page
numbers beyond 32 bits and the rounding of float64. PROJECT.json lists each with its
reason.
