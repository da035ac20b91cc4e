---------------------------- MODULE PaperObjects ----------------------------
(***************************************************************************)
(* The stored files of one paper: its upload (IngestPDF), and what its     *)
(* parses store of it, the TEI and the figure crops as objects, their rows *)
(* in paper_assets, and the rows of paper_figures that point at the crops  *)
(* (process and extractFigures of internal/jobs/pipeline.go, with the      *)
(* figure statements of its repository).  Parses of the paper may overlap, *)
(* and it may be deleted at any time.  The object keys are deterministic,  *)
(* the rows are not.  Each parse runs once.                                *)
(***************************************************************************)
EXTENDS AssetStore

CONSTANTS Paper,        \* the paper
          PDF, TEI,     \* the keys of its upload and of its TEI
          Upload,       \* the ingest, as a writer of asset rows; the others are the parses
          Results,      \* what GROBID may make of the PDF: the figures of two results differ
          NoResult,     \* no result yet, no crop yet
          MaxFigures,   \* bound: figures GROBID finds
          Concurrency,  \* asynq.Config.Concurrency of the worker
          MaxFaults     \* bound: calls of the ingest and of deletions that fail

Parses == Writers \ {Upload}

\* The crop of a figure has its order for a key (papers/<id>/figures/<order>.png).
Orders == 1..MaxFigures

ASSUME KeysAssumption ==
  Papers = {Paper} /\ Keys = {PDF, TEI} \cup Orders /\ PDF # TEI /\ {PDF, TEI} \cap Orders = {}
ASSUME ParsesAssumption ==
  Upload \in Writers /\ MaxFigures \in Nat /\ Concurrency \in Nat /\ MaxFaults \in Nat

VARIABLES ingest,      \* the step of IngestPDF
          figures,     \* paper_figures: order, the parse that inserted it, its image ({} for NULL)
          parse,       \* the step of each run of the paper:process handler
          result,      \* what GROBID answered it
          crop,        \* the result that the object of each figure key is a crop of
          faults

\* History, which no step depends on: whether a deletion listed the assets before the
\* upload's was one, and the parses a foreign result may have got into, for they
\* overlapped one of a different result, or one that it had got into.
VARIABLES early, mixed

ingestVars == <<ingest, early>>
figureVars == <<figures, crop>>
parseVars == <<parse, result, mixed>>
vars == <<storeVars, ingestVars, figureVars, parseVars, faults>>

NotStarted == [step |-> "waiting"]
Over == [step |-> "over"]

IngestSteps == {"put", "createPaper", "createAsset"}

ParseSteps ==
  {"putTEI", "createTEI", "deleteFigures", "createFigures", "clearImages",
   "crop", "createImage", "setImage"}

At(w, step) == parse[w].step = step
Running(w) == parse[w].step \in ParseSteps

FigureRow(i, w) == [order |-> i, by |-> w, image |-> {}]

Init ==
  /\ row = [p \in Papers |-> "absent"]
  /\ assets = {} /\ objects = {}
  /\ deletion = [d \in Deleters |-> IdleDeletion]
  /\ ingest = "put" /\ early = FALSE
  /\ figures = {} /\ crop = [i \in Orders |-> NoResult]
  /\ parse = [w \in Parses |-> NotStarted] /\ result = [w \in Parses |-> NoResult] /\ mixed = {}
  /\ faults = 0

Quiet == UNCHANGED <<faults, ingestVars>>
Parsing == UNCHANGED <<result, mixed>> /\ Quiet

Goto(w, step) == parse' = [parse EXCEPT ![w].step = step] /\ Parsing
Stop(w) == parse' = [parse EXCEPT ![w] = Over] /\ Parsing
-----------------------------------------------------------------------------
(* IngestPDF and CreatePaperUpload, up to the row of the PDF.  A paper can  *)
(* be deleted as soon as its own row is there.                             *)

Ingest(step, next) == ingest = step /\ ingest' = next /\ UNCHANGED <<early, figureVars, parseVars, faults>>

PutPDF == Ingest("put", "createPaper") /\ PutObject(PDF)

CreatePaper ==
  /\ Ingest("createPaper", "createAsset")
  /\ row' = [row EXCEPT ![Paper] = "present"]
  /\ UNCHANGED <<assets, objects, deletion>>

CreatePDFAsset ==
  \/ Ingest("createAsset", "done") /\ CreatePaperAsset(Paper, PDF, Upload)
  \/ Ingest("createAsset", "failed") /\ ~Present(Paper) /\ UNCHANGED storeVars

\* The PDF stays, and so does the row of the paper if there is one.
IngestFails ==
  /\ ingest \in IngestSteps /\ ingest' = "failed"
  /\ faults < MaxFaults /\ faults' = faults + 1
  /\ UNCHANGED <<storeVars, early, figureVars, parseVars>>
-----------------------------------------------------------------------------
(* process: GetPaperPDFAsset, Get and ParsePDF, then the TEI and the rows.  *)

\* GROBID finds n figures; those it gives a large enough box are cropped.  It need
\* not find the same ones again: a parser update is a reason to reprocess.
StartParse(w) ==
  LET others == {v \in Parses : Running(v)}
  IN /\ At(w, "waiting") /\ ingest = "done" /\ Present(Paper)
     /\ Cardinality(others) < Concurrency
     /\ \E n \in 0..MaxFigures : \E boxes \in SUBSET (1..n) :
          parse' = [parse EXCEPT ![w] = [step |-> "putTEI", found |-> 1..n, boxes |-> boxes]]
     /\ \E g \in Results :
          /\ result' = [result EXCEPT ![w] = g]
          /\ mixed' = IF \E v \in others : result[v] # g \/ v \in mixed
                      THEN mixed \cup others \cup {w} ELSE mixed
     /\ UNCHANGED <<storeVars, figureVars>> /\ Quiet

PutTEI(w) ==
  /\ At(w, "putTEI")
  /\ PutObject(TEI)
  /\ Goto(w, "createTEI")
  /\ UNCHANGED figureVars

CreateTEIAsset(w) ==
  /\ At(w, "createTEI")
  /\ \/ CreatePaperAsset(Paper, TEI, w) /\ Goto(w, "deleteFigures")
     \/ ~Present(Paper) /\ Stop(w) /\ UNCHANGED storeVars
  /\ UNCHANGED figureVars

\* A save that adds the figures to those of the parse before.
KeepFigures(w) ==
  /\ At(w, "deleteFigures")
  /\ Goto(w, "createFigures")
  /\ UNCHANGED <<storeVars, figureVars>>

\* The sections and references are replaced before, and may fail (ParseCut).
DeleteFigures(w) ==
  /\ At(w, "deleteFigures")
  /\ figures' = {}
  /\ Goto(w, "createFigures")
  /\ UNCHANGED <<storeVars, crop>>

First(i, orders) == i \in orders /\ \A j \in orders : i <= j

\* No index refuses a second row of one order.
CreateFigure(w) ==
  /\ At(w, "createFigures")
  /\ \E i \in Orders :
       /\ First(i, parse[w].found)
       /\ \/ /\ Present(Paper)
             /\ figures' = figures \cup {FigureRow(i, w)}
             /\ parse' = [parse EXCEPT ![w].found = @ \ {i}] /\ Parsing
          \/ ~Present(Paper) /\ Stop(w) /\ UNCHANGED figures
  /\ UNCHANGED <<storeVars, crop>>

\* The rows are saved; a worker with FIGURE_EXTRACT_ENABLED off is done.
FiguresSaved(w) ==
  /\ At(w, "createFigures") /\ parse[w].found = {}
  /\ Goto(w, "clearImages") \/ Stop(w)
  /\ UNCHANGED <<storeVars, figureVars>>
-----------------------------------------------------------------------------
(* extractFigures: whatever fails is logged, and the next figure is tried.  *)

FigureOver(w, i) ==
  parse' = [parse EXCEPT ![w].step = "crop", ![w].boxes = @ \ {i}] /\ Parsing

\* A delete that forgets its "AND asset_type = 'figure-image'".
ClearAllAssets(w) ==
  /\ At(w, "clearImages")
  /\ assets' = {}
  /\ figures' = {[f EXCEPT !.image = {}] : f \in figures}
  /\ Goto(w, "crop")
  /\ UNCHANGED <<row, objects, deletion, crop>>

\* A delete whose reference is not ON DELETE SET NULL.
ClearRowsOnly(w) ==
  /\ At(w, "clearImages")
  /\ assets' = {a \in assets : a.key \notin Orders}
  /\ Goto(w, "crop")
  /\ UNCHANGED <<row, objects, deletion, figureVars>>

\* DeletePaperFigureImageAssets; the figures' reference is ON DELETE SET NULL.
ClearFigureImages(w) ==
  /\ At(w, "clearImages")
  /\ \/ /\ assets' = {a \in assets : a.key \notin Orders}
        /\ figures' = {[f EXCEPT !.image = {}] : f \in figures}
     \/ UNCHANGED <<assets, figures>>
  /\ Goto(w, "crop")
  /\ UNCHANGED <<row, objects, deletion, crop>>

PutImage(w) ==
  /\ At(w, "crop")
  /\ \E i \in Orders :
       /\ First(i, parse[w].boxes)
       /\ \/ PutObject(i) /\ crop' = [crop EXCEPT ![i] = result[w]] /\ Goto(w, "createImage")
          \/ UNCHANGED <<storeVars, crop>> /\ FigureOver(w, i)
  /\ UNCHANGED figures

CreateImageAsset(w) ==
  /\ At(w, "createImage")
  /\ \E i \in Orders :
       /\ First(i, parse[w].boxes)
       /\ \/ CreatePaperAsset(Paper, i, w) /\ Goto(w, "setImage")
          \/ FigureOver(w, i) /\ UNCHANGED storeVars
  /\ UNCHANGED figureVars

\* The row CreateImageAsset returned, if no other parse has cleared it since.
OwnAsset(w, i) == {Asset(Paper, i, w)} \cap assets

\* The foreign key refuses an asset row that is gone.
SetFigureImage(w) ==
  /\ At(w, "setImage")
  /\ \E i \in Orders :
       /\ First(i, parse[w].boxes) /\ FigureOver(w, i)
       /\ \/ /\ OwnAsset(w, i) # {}
             /\ figures' = {IF f.order = i THEN [f EXCEPT !.image = OwnAsset(w, i)] ELSE f : f \in figures}
          \/ UNCHANGED figures
  /\ UNCHANGED <<storeVars, crop>>

EndParse(w) ==
  /\ At(w, "crop") /\ parse[w].boxes = {}
  /\ Stop(w)
  /\ UNCHANGED <<storeVars, figureVars>>

\* A statement of the parse fails, its worker stops or it times out.
ParseCut(w) ==
  /\ Running(w)
  /\ Stop(w)
  /\ UNCHANGED <<storeVars, figureVars>>
-----------------------------------------------------------------------------
Delete(d) ==
  /\ \/ ListPaperAssets(d, Paper) /\ early' = (early \/ ingest # "done")
     \/ (DeletePaperRow(d) \/ RemoveObject(d)) /\ UNCHANGED early
  /\ figures' = IF row'[Paper] = "present" THEN figures ELSE {}
  /\ UNCHANGED <<ingest, crop, parseVars, faults>>

DeleteFails(d) ==
  /\ faults < MaxFaults /\ faults' = faults + 1
  /\ RemoveFails(d) \/ DeletionFails(d)
  /\ UNCHANGED <<ingestVars, figureVars, parseVars>>

ParseStep(w) ==
  \/ PutTEI(w) \/ CreateTEIAsset(w)
  \/ DeleteFigures(w) \/ CreateFigure(w) \/ FiguresSaved(w)
  \/ ClearFigureImages(w) \/ PutImage(w) \/ CreateImageAsset(w) \/ SetFigureImage(w)
  \/ EndParse(w) \/ ParseCut(w)

Next ==
  \/ PutPDF \/ CreatePaper \/ CreatePDFAsset \/ IngestFails
  \/ \E w \in Parses : StartParse(w) \/ ParseStep(w)
  \/ \E d \in Deleters : Delete(d) \/ DeleteFails(d)

Spec == Init /\ [][Next]_vars
=============================================================================
