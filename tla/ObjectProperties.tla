-------------------------- MODULE ObjectProperties --------------------------
(***************************************************************************)
(* What makes the stored files of a paper correct.                         *)
(***************************************************************************)
EXTENDS PaperObjects

\* Every variable has its type, and a figure's image_asset_id names an asset row
\* that exists.
ObjectsTypeOK ==
  /\ StoreTypeOK
  /\ ingest \in IngestSteps \cup {"done", "failed"} /\ early \in BOOLEAN
  /\ figures \subseteq [order : Orders, by : Parses, image : {{}} \cup {{a} : a \in assets}]
  /\ crop \in [Orders -> Results \cup {NoResult}]
  /\ parse \in [Parses -> [step : ParseSteps, found : SUBSET Orders, boxes : SUBSET Orders]
                          \cup {NotStarted, Over}]
  /\ result \in [Parses -> Results \cup {NoResult}] /\ mixed \subseteq Parses
  /\ faults \in 0..MaxFaults

\* The image a figure is served with has its order for a key and is in the store; and
\* it is the crop that figure's own parse or one of the same result made: parses put
\* their crops at the same keys, clear and attach each other's rows and stop half way,
\* and what GROBID finds may change from one to the next, but the rows of a result are
\* gone before the crops of another overwrite theirs.  The exception are parses that a
\* different result got into while they overlapped.
FigureServesOwnImage ==
  \A f \in figures : \A a \in f.image :
    /\ a.key = f.order /\ a.key \in objects
    /\ f.by \notin mixed => crop[f.order] = result[f.by]

\* The upload is never lost to a parse, and goes with its paper: once its asset row is
\* in, and as long as the paper's is, that asset names the stored PDF; and afterwards,
\* unless a call failed, no deletion ends without having removed it.  The exception is
\* a deletion that comes in while the upload is still under way.
PDFGoesWithPaper ==
  /\ Present(Paper) /\ ingest = "done" => PDF \in AssetKeys(Paper) /\ PDF \in objects
  /\ row[Paper] = "deleted" /\ faults = 0 /\ ~early => PDF \notin objects \/ Removing(PDF)
=============================================================================
