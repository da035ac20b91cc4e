------------------------- MODULE HarvestProperties -------------------------
(***************************************************************************)
(* What makes the intake of papers correct.                                *)
(***************************************************************************)
EXTENDS Harvest

HasKey == {"createPaper", "createAsset", "createJob", "enqueue"}
HasPaper == {"createAsset", "createJob", "enqueue"}

\* Every variable has its type; a slot past Put holds a key, one past the
\* insert of its paper holds the paper.
HarvestTypeOK ==
  /\ StoreTypeOK
  /\ source \in [Papers -> Entries \cup {None}]
  /\ jobs \subseteq Papers /\ enqueued \subseteq Papers
  /\ slot \in [Writers -> Slots \cup {IdleSlot}]
  /\ \A w \in Writers : slot[w].step \in HasKey => slot[w].key \in Keys
  /\ \A w \in Writers : slot[w].step \in HasPaper => slot[w].paper \in Papers
  /\ passes \in 0..MaxPasses /\ faults \in 0..MaxFaults

\* Passes that overlap have all seen an arXiv id unknown and all ingest it; one
\* paper of it comes into being.
OnePaperPerSource ==
  \A p, q \in Papers :
    Present(p) /\ Present(q) /\ source[p] = source[q] /\ source[p] # None => p = q

\* A row of paper_assets never names an object the store does not have, however
\* ingests and deletions of its paper interleave.
AssetHasObject == \A a \in assets : a.key \in objects

Ingesting(p) == \E w \in Writers : slot[w].step \in HasPaper /\ slot[w].paper = p

Stranded == {p \in Papers : Present(p) /\ p \notin jobs \cap enqueued /\ ~Ingesting(p)}

\* IngestPDF inserts the paper, its asset and its job and enqueues the parse one
\* after the other: every call that fails, and every pass that is lost, leaves
\* behind one paper at most that no task will process.
FaultsStrandOnePaperEach == Cardinality(Stranded) <= faults

-----------------------------------------------------------------------------
(* A paper seen from outside: the abstract specification Intake.            *)

IntakeOf(p) ==
  CASE row[p] = "absent" -> "none"
    [] row[p] = "deleted" -> "removed"
    [] Present(p) /\ p \in jobs \cap enqueued -> "ready"
    [] Present(p) /\ p \notin jobs \cap enqueued /\ Ingesting(p) -> "arriving"
    [] Present(p) /\ p \notin jobs \cap enqueued /\ ~Ingesting(p) -> "stranded"

Arrival == INSTANCE Intake WITH
  Sources <- Entries, intake <- [p \in Papers |-> IntakeOf(p)], losses <- faults

\* Passes, uploads and deletions implement Intake: the statements of an ingest are
\* one arrival.  A paper is ready once, when its task is enqueued, and stays so until it is
\* deleted; only a counted fault strands it; and no late statement of an ingest
\* brings back a paper that was deleted or takes in a second one of its source.
ImplementsIntake == Arrival!Spec
-----------------------------------------------------------------------------
\* The next scheduled pass covers what an earlier one skipped over: an arXiv id
\* it leaves out as known has a paper that was, or is being, ingested.
SkippedIsIngested ==
  [][\A w \in Writers :
       slot[w] # IdleSlot /\ slot'[w] # IdleSlot =>
         \A e \in slot[w].todo \ slot'[w].todo :
           slot'[w].entry = e \/ \E p \in Papers \ Stranded : Present(p) /\ source[p] = e]_vars
=============================================================================
