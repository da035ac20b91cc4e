---------------------------- MODULE ObjectProofs ----------------------------
(***************************************************************************)
(* The proofs of what makes the stored files of a paper correct.           *)
(***************************************************************************)
EXTENDS ObjectProperties, TLAPS

Begun == [step : ParseSteps, found : SUBSET Orders, boxes : SUBSET Orders]

\* A parse at one of its steps has a record with every field.
LEMMA ParseShape ==
  ASSUME ObjectsTypeOK, NEW w \in Parses, Running(w)
  PROVE  parse[w] \in Begun /\ parse[w].found \subseteq Orders /\ parse[w].boxes \subseteq Orders
  <1>1. parse[w] # NotStarted /\ parse[w] # Over
    BY DEF Running, ParseSteps, NotStarted, Over
  <1>2. parse[w] \in Begun
    BY <1>1 DEF ObjectsTypeOK, Begun
  <1>3. QED
    BY <1>2 DEF Begun

\* A step of one parse leaves the other parses alone.
ParseMoves(w) ==
  /\ parse' \in [Parses -> Begun \cup {NotStarted, Over}]
  /\ \A v \in Parses : v # w => parse'[v] = parse[v]

LEMMA ParseStops ==
  ASSUME ObjectsTypeOK, NEW w \in Parses, Stop(w)
  PROVE  ParseMoves(w) /\ parse'[w].step = "over" /\ Parsing
  BY DEF ObjectsTypeOK, ParseMoves, Stop, Over, Begun

LEMMA ParseGoes ==
  ASSUME ObjectsTypeOK, NEW w \in Parses, Running(w), NEW step \in ParseSteps, Goto(w, step)
  PROVE  /\ ParseMoves(w) /\ parse'[w].step = step /\ parse'[w].boxes = parse[w].boxes
         /\ Parsing
  <1> DEFINE s == [parse[w] EXCEPT !.step = step]
  <1>1. s \in Begun /\ s.step = step /\ s.boxes = parse[w].boxes
    BY ParseShape DEF Begun
  <1>2. parse' = [parse EXCEPT ![w] = s] /\ Parsing
    BY DEF Goto
  <1>3. ParseMoves(w) /\ parse'[w] = s
    BY <1>1, <1>2 DEF ObjectsTypeOK, ParseMoves, Begun
  <1>4. QED
    BY <1>1, <1>2, <1>3

LEMMA FigureDone ==
  ASSUME ObjectsTypeOK, NEW w \in Parses, Running(w), NEW i, FigureOver(w, i)
  PROVE  ParseMoves(w) /\ parse'[w].step = "crop" /\ Parsing
  <1> DEFINE s == [parse[w] EXCEPT !.step = "crop", !.boxes = @ \ {i}]
  <1>1. s \in Begun /\ s.step = "crop"
    BY ParseShape DEF Begun, ParseSteps
  <1>2. parse' = [parse EXCEPT ![w] = s] /\ Parsing
    BY DEF FigureOver
  <1>3. ParseMoves(w) /\ parse'[w] = s
    BY <1>1, <1>2 DEF ObjectsTypeOK, ParseMoves, Begun
  <1>4. QED
    BY <1>1, <1>2, <1>3

-----------------------------------------------------------------------------
(* The invariant.                                                          *)

\* While the paper is there, so is every object a row names or is about to name, its
\* upload among them, and no deletion has come to the objects; a deletion that listed
\* the rows after the upload has the upload on its list; nothing is left once the paper
\* is gone; and before it is there, nothing is under way but the ingest.
ObjInv ==
  /\ Present(Paper) =>
       /\ \A a \in assets : a.key \in objects
       /\ ingest = "done" => \E a \in assets : a.key = PDF
       /\ \A d \in Deleters : deletion[d].step # "removeObjects"
       /\ \A w \in Parses : At(w, "createTEI") => TEI \in objects
       /\ \A w \in Parses : At(w, "createImage") => \A i : First(i, parse[w].boxes) => i \in objects
  /\ ~Present(Paper) => assets = {} /\ figures = {}
  /\ row[Paper] = "deleted" /\ faults = 0 /\ ~early =>
       \/ PDF \notin objects
       \/ \E d \in Deleters : deletion[d].step = "removeObjects" /\ PDF \in deletion[d].keys
  /\ \A d \in Deleters : deletion[d].step = "deleteRow" /\ ~early => PDF \in deletion[d].keys
  /\ \A f \in figures : \A a \in f.image : a.key = f.order
  /\ row[Paper] = "absent" => \A d \in Deleters : deletion[d].step = "idle"
  /\ ingest \in {"put", "createPaper"} => row[Paper] = "absent"
  /\ ingest = "createPaper" \/ (ingest = "createAsset" /\ Present(Paper)) => PDF \in objects
  /\ \A w \in Parses : Running(w) => ingest = "done"

FigureRows(S) == [order : Orders, by : Parses, image : {{}} \cup {{a} : a \in S}]

\* Parses add objects under keys of their own, and rows for objects that are there.
LEMMA ParseKeeps ==
  ASSUME ObjectsTypeOK, ObjInv, NEW w \in Parses, ParseMoves(w), UNCHANGED <<row, deletion, faults, ingest, early>>,
         ingest = "done", result' \in [Parses -> Results \cup {NoResult}], mixed' \subseteq Parses,
         crop' \in [Orders -> Results \cup {NoResult}],
         objects \subseteq objects', objects' \subseteq objects \cup {TEI} \cup Orders,
         assets' \subseteq [paper : Papers, key : Keys, by : Writers],
         Present(Paper) => \A a \in assets' : a.key \in objects',
         \A a \in assets : a.key = PDF => a \in assets',
         ~Present(Paper) => assets' = {} /\ figures' = {},
         figures' \subseteq FigureRows(assets'),
         \A f \in figures' : \A a \in f.image : a.key = f.order,
         parse'[w].step = "createTEI" => TEI \in objects',
         parse'[w].step = "createImage" => \A i : First(i, parse'[w].boxes) => i \in objects'
  PROVE  ObjectsTypeOK' /\ ObjInv'
  <1>1. TEI \in Keys /\ Orders \subseteq Keys /\ PDF # TEI /\ PDF \notin Orders
    BY KeysAssumption
  <1>2. StoreTypeOK'
    BY <1>1 DEF ObjectsTypeOK, StoreTypeOK
  <1>3. ObjectsTypeOK'
    BY <1>2 DEF ObjectsTypeOK, ParseMoves, Begun, FigureRows
  <1>4. ASSUME Present(Paper)
        PROVE  /\ \A v \in Parses : At(v, "createTEI")' => TEI \in objects'
               /\ \A v \in Parses : At(v, "createImage")' => \A i : First(i, parse'[v].boxes) => i \in objects'
    <2>1. ASSUME NEW v \in Parses, v # w
          PROVE  /\ At(v, "createTEI")' => TEI \in objects'
                 /\ At(v, "createImage")' => \A i : First(i, parse'[v].boxes) => i \in objects'
      BY <1>4, <2>1 DEF ObjInv, ParseMoves, At
    <2>2. QED
      BY <2>1 DEF At
  <1>5. Present(Paper)' <=> Present(Paper)
    BY DEF Present
  <1>6. PDF \in objects' => PDF \in objects
    BY <1>1
  <1>7. ObjInv'
    BY <1>4, <1>5, <1>6 DEF ObjInv
  <1>8. QED
    BY <1>3, <1>7

LEMMA ParseStepKeeps ==
  ASSUME ObjectsTypeOK, ObjInv, NEW w \in Parses, StartParse(w) \/ ParseStep(w)
  PROVE  ObjectsTypeOK' /\ ObjInv'
  <1>t. /\ figures \subseteq FigureRows(assets) /\ assets \subseteq [paper : Papers, key : Keys, by : Writers]
        /\ objects \subseteq Keys
    BY DEF ObjectsTypeOK, StoreTypeOK, FigureRows
  <1>k. TEI \in Keys /\ Orders \subseteq Keys /\ PDF # TEI /\ PDF \notin Orders /\ Papers = {Paper}
        /\ w \in Writers
    BY KeysAssumption DEF Parses
  <1>r. /\ Parsing => /\ UNCHANGED <<faults, ingest, early>>
                      /\ result' \in [Parses -> Results \cup {NoResult}] /\ mixed' \subseteq Parses
        /\ crop \in [Orders -> Results \cup {NoResult}]
        /\ Running(w) => ingest = "done"
    BY DEF Parsing, Quiet, ingestVars, ObjectsTypeOK, ObjInv
  <1>q. ASSUME Running(w), ParseMoves(w), UNCHANGED <<row, assets, objects, deletion, figures, crop>>, Parsing,
               parse'[w].step \notin {"createTEI", "createImage"}
        PROVE  ObjectsTypeOK' /\ ObjInv'
    BY <1>q, <1>r, <1>t, ParseKeeps DEF ObjInv
  <1>s. ASSUME Running(w), Stop(w), UNCHANGED <<storeVars, figureVars>>
        PROVE  ObjectsTypeOK' /\ ObjInv'
    BY <1>s, <1>q, ParseStops DEF storeVars, figureVars
  <1>1. CASE StartParse(w)
    <2>0. PICK n \in 0..MaxFigures : \E boxes \in SUBSET (1..n) :
            parse' = [parse EXCEPT ![w] = [step |-> "putTEI", found |-> 1..n, boxes |-> boxes]]
      BY <1>1 DEF StartParse
    <2>1. PICK boxes \in SUBSET (1..n) :
            parse' = [parse EXCEPT ![w] = [step |-> "putTEI", found |-> 1..n, boxes |-> boxes]]
      BY <2>0
    <2>2. [step |-> "putTEI", found |-> 1..n, boxes |-> boxes] \in Begun
      BY ParsesAssumption DEF Begun, ParseSteps, Orders
    <2>3. ParseMoves(w) /\ parse'[w].step = "putTEI"
      BY <2>1, <2>2 DEF ParseMoves, ObjectsTypeOK, Begun
    <2>4. PICK g \in Results : result' = [result EXCEPT ![w] = g]
      BY <1>1 DEF StartParse
    <2>5. result' \in [Parses -> Results \cup {NoResult}] /\ mixed' \subseteq Parses
      BY <1>1, <2>4 DEF StartParse, ObjectsTypeOK
    <2>6. ingest = "done" /\ UNCHANGED <<row, assets, objects, deletion, figures, crop, faults, ingest, early>>
      BY <1>1 DEF StartParse, storeVars, figureVars, Quiet, ingestVars
    <2>7. QED
      BY <1>r, <1>t, <2>3, <2>5, <2>6, ParseKeeps DEF ObjInv
  <1>2. CASE PutTEI(w)
    <2>1. Running(w) /\ PutObject(TEI) /\ Goto(w, "createTEI") /\ UNCHANGED <<figures, crop>>
      BY <1>2 DEF PutTEI, figureVars, At, Running, ParseSteps
    <2>2. ParseMoves(w) /\ parse'[w].step = "createTEI" /\ Parsing
      BY <2>1, ParseGoes DEF ParseSteps
    <2>3. objects' = objects \cup {TEI} /\ UNCHANGED <<row, assets, deletion, figures>>
      BY <2>1 DEF PutObject
    <2>4. QED
      BY <1>r, <1>t, <2>1, <2>2, <2>3, ParseKeeps DEF ObjInv
  <1>3. CASE CreateTEIAsset(w)
    <2>1. CASE Stop(w) /\ UNCHANGED storeVars
      BY <1>3, <1>s, <2>1 DEF CreateTEIAsset, At, Running, ParseSteps, storeVars
    <2>2. CASE CreatePaperAsset(Paper, TEI, w) /\ Goto(w, "deleteFigures")
      <3>1. Running(w) /\ TEI \in objects /\ Present(Paper)
        BY <1>3, <2>2 DEF CreateTEIAsset, CreatePaperAsset, At, Running, ParseSteps, ObjInv
      <3>2. ParseMoves(w) /\ parse'[w].step = "deleteFigures" /\ Parsing
        BY <2>2, <3>1, ParseGoes DEF ParseSteps
      <3>3. assets' = assets \cup {Asset(Paper, TEI, w)} /\ UNCHANGED <<row, objects, deletion, figures, crop>>
        BY <1>3, <2>2 DEF CreatePaperAsset, CreateTEIAsset, figureVars
      <3>4. Asset(Paper, TEI, w) \in [paper : Papers, key : Keys, by : Writers] /\ Asset(Paper, TEI, w).key = TEI
        BY <1>k DEF Asset
      <3>5. figures \subseteq FigureRows(assets')
        BY <1>t, <3>3 DEF FigureRows
      <3>6. QED
        BY <1>r, <1>t, <3>1, <3>2, <3>3, <3>4, <3>5, ParseKeeps DEF ObjInv
    <2>3. QED
      BY <1>3, <2>1, <2>2 DEF CreateTEIAsset
  <1>4. CASE DeleteFigures(w)
    <2>1. Running(w) /\ figures' = {} /\ Goto(w, "createFigures") /\ UNCHANGED <<storeVars, crop>>
      BY <1>4 DEF DeleteFigures, At, Running, ParseSteps
    <2>2. ParseMoves(w) /\ parse'[w].step = "createFigures" /\ Parsing
      BY <2>1, ParseGoes DEF ParseSteps
    <2>3. QED
      BY <1>r, <1>t, <2>1, <2>2, ParseKeeps DEF ObjInv, storeVars
  <1>5. CASE CreateFigure(w)
    <2>1. PICK i \in Orders :
            \/ /\ Present(Paper) /\ figures' = figures \cup {FigureRow(i, w)}
               /\ parse' = [parse EXCEPT ![w].found = @ \ {i}] /\ Parsing
            \/ Stop(w) /\ UNCHANGED figures
      BY <1>5 DEF CreateFigure
    <2>2. CASE Stop(w) /\ UNCHANGED figures
      BY <1>5, <1>s, <2>2 DEF CreateFigure, figureVars, At, Running, ParseSteps
    <2>3. CASE /\ Present(Paper) /\ figures' = figures \cup {FigureRow(i, w)}
               /\ parse' = [parse EXCEPT ![w].found = @ \ {i}] /\ Parsing
      <3> DEFINE s == [parse[w] EXCEPT !.found = @ \ {i}]
      <3>1. Running(w) /\ parse[w].step = "createFigures"
        BY <1>5 DEF CreateFigure, At, Running, ParseSteps
      <3>2. s \in Begun /\ s.step = "createFigures"
        BY <3>1, ParseShape DEF Begun
      <3>3. parse' = [parse EXCEPT ![w] = s]
        BY <2>3
      <3>4. ParseMoves(w) /\ parse'[w].step = "createFigures"
        BY <3>2, <3>3 DEF ObjectsTypeOK, ParseMoves, Begun
      <3>5. FigureRow(i, w) \in FigureRows(assets) /\ FigureRow(i, w).image = {}
        BY DEF FigureRow, FigureRows
      <3>6. UNCHANGED <<row, assets, objects, deletion, crop>>
        BY <1>5 DEF CreateFigure, storeVars
      <3>7. QED
        BY <1>r, <1>t, <2>3, <3>1, <3>4, <3>5, <3>6, ParseKeeps DEF ObjInv
    <2>4. QED
      BY <2>1, <2>2, <2>3
  <1>6. CASE FiguresSaved(w)
    <2>1. CASE Goto(w, "clearImages")
      <3>1. Running(w)
        BY <1>6 DEF FiguresSaved, At, Running, ParseSteps
      <3>2. ParseMoves(w) /\ parse'[w].step = "clearImages" /\ Parsing
        BY <2>1, <3>1, ParseGoes DEF ParseSteps
      <3>3. QED
        BY <1>6, <1>q, <3>1, <3>2 DEF FiguresSaved, storeVars, figureVars
    <2>2. QED
      BY <1>6, <1>s, <2>1 DEF FiguresSaved, At, Running, ParseSteps
  <1>7. CASE ClearFigureImages(w)
    <2>1. /\ Running(w) /\ Goto(w, "crop") /\ UNCHANGED <<row, objects, deletion, crop>>
          /\ \/ /\ assets' = {a \in assets : a.key \notin Orders}
                /\ figures' = {[f EXCEPT !.image = {}] : f \in figures}
             \/ UNCHANGED <<assets, figures>>
      BY <1>7 DEF ClearFigureImages, At, Running, ParseSteps
    <2>2. ParseMoves(w) /\ parse'[w].step = "crop" /\ Parsing
      BY <2>1, ParseGoes DEF ParseSteps
    <2>3. CASE UNCHANGED <<assets, figures>>
      BY <1>q, <2>1, <2>2, <2>3
    <2>4. CASE /\ assets' = {a \in assets : a.key \notin Orders}
               /\ figures' = {[f EXCEPT !.image = {}] : f \in figures}
      <3>1. \A f \in figures' : f \in FigureRows(assets') /\ f.image = {}
        BY <1>t, <2>4 DEF FigureRows
      <3>2. figures = {} => figures' = {}
        BY <2>4
      <3>3. assets' \subseteq assets /\ \A a \in assets : a.key = PDF => a \in assets'
        BY <1>k, <2>4
      <3>4. QED
        BY <1>r, <1>t, <2>1, <2>2, <3>1, <3>2, <3>3, ParseKeeps DEF ObjInv
    <2>5. QED
      BY <2>1, <2>3, <2>4
  <1>8. CASE PutImage(w)
    <2>1. PICK i \in Orders :
            /\ First(i, parse[w].boxes)
            /\ \/ PutObject(i) /\ crop' = [crop EXCEPT ![i] = result[w]] /\ Goto(w, "createImage")
               \/ UNCHANGED <<storeVars, crop>> /\ FigureOver(w, i)
      BY <1>8 DEF PutImage
    <2>2. Running(w) /\ UNCHANGED figures
      BY <1>8 DEF PutImage, At, Running, ParseSteps
    <2>3. CASE PutObject(i) /\ crop' = [crop EXCEPT ![i] = result[w]] /\ Goto(w, "createImage")
      <3>1. ParseMoves(w) /\ parse'[w].step = "createImage" /\ parse'[w].boxes = parse[w].boxes /\ Parsing
        BY <2>2, <2>3, ParseGoes DEF ParseSteps
      <3>2. objects' = objects \cup {i} /\ UNCHANGED <<row, assets, deletion>>
        BY <2>3 DEF PutObject
      <3>3. \A j : First(j, parse'[w].boxes) => j = i
        <4>1. parse[w].boxes \subseteq Orders
          BY <2>2, ParseShape
        <4>2. \A j \in Orders : j \in Nat
          BY DEF Orders
        <4>3. QED
          BY <2>1, <3>1, <4>1, <4>2 DEF First
      <3>4. QED
        <4>1. crop' \in [Orders -> Results \cup {NoResult}]
          BY <1>r, <2>3 DEF ObjectsTypeOK
        <4>2. QED
          BY <1>r, <1>t, <2>2, <3>1, <3>2, <3>3, <4>1, ParseKeeps DEF ObjInv
    <2>4. CASE UNCHANGED <<storeVars, crop>> /\ FigureOver(w, i)
      BY <1>q, <2>2, <2>4, FigureDone DEF storeVars
    <2>5. QED
      BY <2>1, <2>3, <2>4
  <1>9. CASE CreateImageAsset(w)
    <2>1. PICK i \in Orders :
            /\ First(i, parse[w].boxes)
            /\ \/ CreatePaperAsset(Paper, i, w) /\ Goto(w, "setImage")
               \/ FigureOver(w, i) /\ UNCHANGED storeVars
      BY <1>9 DEF CreateImageAsset
    <2>2. Running(w) /\ UNCHANGED <<figures, crop>> /\ At(w, "createImage")
      BY <1>9 DEF CreateImageAsset, figureVars, At, Running, ParseSteps
    <2>3. CASE CreatePaperAsset(Paper, i, w) /\ Goto(w, "setImage")
      <3>1. ParseMoves(w) /\ parse'[w].step = "setImage" /\ Parsing
        BY <2>2, <2>3, ParseGoes DEF ParseSteps
      <3>2. /\ assets' = assets \cup {Asset(Paper, i, w)} /\ UNCHANGED <<row, objects, deletion>>
            /\ Present(Paper)
        BY <2>3 DEF CreatePaperAsset
      <3>3. i \in objects
        BY <2>1, <2>2, <3>2 DEF ObjInv
      <3>4. Asset(Paper, i, w) \in [paper : Papers, key : Keys, by : Writers] /\ Asset(Paper, i, w).key = i
        BY <1>k DEF Asset
      <3>5. figures \subseteq FigureRows(assets')
        BY <1>t, <3>2 DEF FigureRows
      <3>6. QED
        BY <1>r, <1>t, <2>2, <3>1, <3>2, <3>3, <3>4, <3>5, ParseKeeps DEF ObjInv
    <2>4. CASE FigureOver(w, i) /\ UNCHANGED storeVars
      BY <1>q, <2>2, <2>4, FigureDone DEF storeVars
    <2>5. QED
      BY <2>1, <2>3, <2>4
  <1>10. CASE SetFigureImage(w)
    <2>1. PICK i \in Orders :
            /\ FigureOver(w, i)
            /\ \/ /\ OwnAsset(w, i) # {}
                  /\ figures' = {IF f.order = i THEN [f EXCEPT !.image = OwnAsset(w, i)] ELSE f : f \in figures}
               \/ UNCHANGED figures
      BY <1>10 DEF SetFigureImage
    <2>2. Running(w) /\ UNCHANGED <<row, assets, objects, deletion, crop>>
      BY <1>10 DEF SetFigureImage, At, Running, ParseSteps, storeVars
    <2>3. ParseMoves(w) /\ parse'[w].step = "crop" /\ Parsing
      BY <2>1, <2>2, FigureDone
    <2>4. CASE UNCHANGED figures
      BY <1>q, <2>2, <2>3, <2>4
    <2>5. CASE /\ OwnAsset(w, i) # {}
               /\ figures' = {IF f.order = i THEN [f EXCEPT !.image = OwnAsset(w, i)] ELSE f : f \in figures}
      <3>1. Asset(Paper, i, w) \in assets /\ OwnAsset(w, i) = {Asset(Paper, i, w)}
        BY <2>5 DEF OwnAsset
      <3>2. Asset(Paper, i, w).key = i
        BY DEF Asset
      <3>3. ASSUME NEW f \in figures, f.order = i
            PROVE  /\ [f EXCEPT !.image = OwnAsset(w, i)] \in FigureRows(assets)
                   /\ \A a \in [f EXCEPT !.image = OwnAsset(w, i)].image :
                        a.key = [f EXCEPT !.image = OwnAsset(w, i)].order
        BY <1>t, <3>1, <3>2, <3>3 DEF FigureRows
      <3>4. \A f \in figures' : f \in FigureRows(assets) /\ \A a \in f.image : a.key = f.order
        <4>1. \A f \in figures : \A a \in f.image : a.key = f.order
          BY DEF ObjInv
        <4>2. QED
          BY <1>t, <2>5, <3>3, <4>1
      <3>5. figures = {} => figures' = {}
        BY <2>5
      <3>6. QED
        BY <1>r, <1>t, <2>2, <2>3, <3>4, <3>5, ParseKeeps DEF ObjInv
    <2>6. QED
      BY <2>1, <2>4, <2>5
  <1>11. CASE EndParse(w) \/ ParseCut(w)
    BY <1>11, <1>s DEF EndParse, ParseCut, At, Running, ParseSteps
  <1>12. QED
    BY <1>1, <1>2, <1>3, <1>4, <1>5, <1>6, <1>7, <1>8, <1>9, <1>10, <1>11 DEF ParseStep

-----------------------------------------------------------------------------
(* Deletions.                                                              *)

Deletions == [step : {"deleteRow", "removeObjects"}, paper : Papers, keys : SUBSET Keys]
             \cup {IdleDeletion}

LEMMA DeletionShape ==
  ASSUME ObjectsTypeOK, NEW d \in Deleters, deletion[d].step # "idle"
  PROVE  /\ deletion[d] \in [step : {"deleteRow", "removeObjects"}, paper : Papers, keys : SUBSET Keys]
         /\ deletion[d].paper = Paper /\ deletion[d].keys \subseteq Keys
  BY KeysAssumption DEF ObjectsTypeOK, StoreTypeOK, IdleDeletion

LEMMA DeletionMoves ==
  ASSUME ObjectsTypeOK, NEW d \in Deleters, NEW r \in Deletions,
         deletion' = [deletion EXCEPT ![d] = r]
  PROVE  /\ deletion' \in [Deleters -> Deletions]
         /\ deletion'[d] = r /\ \A e \in Deleters : e # d => deletion'[e] = deletion[e]
  <1>1. deletion \in [Deleters -> Deletions]
    BY DEF ObjectsTypeOK, StoreTypeOK, Deletions
  <1>2. QED
    BY <1>1

\* A deletion that has listed the rows: the paper goes first, then the objects.
LEMMA DeletionKeeps ==
  ASSUME ObjectsTypeOK, ObjInv, NEW d \in Deleters, Delete(d) \/ DeleteFails(d)
  PROVE  ObjectsTypeOK' /\ ObjInv'
  <1>k. PDF \in Keys /\ Papers = {Paper}
    BY KeysAssumption
  <1>p. /\ UNCHANGED <<parse, ingest, crop, result, mixed>> /\ (early' \in BOOLEAN) /\ (~early' => ~early)
        /\ faults' \in 0..MaxFaults /\ (faults' = 0 => faults = 0)
    <2>1. CASE Delete(d)
      BY <2>1 DEF Delete, parseVars, ObjectsTypeOK
    <2>2. CASE DeleteFails(d)
      BY <2>2, ParsesAssumption DEF DeleteFails, ingestVars, figureVars, parseVars, ObjectsTypeOK
    <2>3. QED
      BY <2>1, <2>2
  <1>t. /\ assets \subseteq [paper : Papers, key : Keys, by : Writers] /\ objects \subseteq Keys
        /\ row \in [Papers -> {"absent", "present", "deleted"}]
        /\ figures \subseteq FigureRows(assets)
    BY DEF ObjectsTypeOK, StoreTypeOK, FigureRows
  <1>y. ASSUME row' \in [Papers -> {"absent", "present", "deleted"}], deletion' \in [Deleters -> Deletions],
               assets' \subseteq assets, objects' \subseteq objects, figures' \subseteq FigureRows(assets')
        PROVE  ObjectsTypeOK'
    BY <1>y, <1>p, <1>t DEF ObjectsTypeOK, StoreTypeOK, Deletions, FigureRows
  <1>1. CASE ListPaperAssets(d, Paper) /\ Delete(d)
    <2> DEFINE r == [step |-> "deleteRow", paper |-> Paper, keys |-> AssetKeys(Paper)]
    <2>1. /\ deletion' = [deletion EXCEPT ![d] = r] /\ UNCHANGED <<row, assets, objects>>
          /\ Present(Paper)
      BY <1>1 DEF ListPaperAssets
    <2>2. r \in Deletions /\ (ingest = "done" => PDF \in AssetKeys(Paper))
      BY <1>k, <1>t, <2>1 DEF Deletions, AssetKeys, ObjInv
    <2>e. ~early' => ingest = "done"
      <3>1. ~ DeletePaperRow(d) /\ ~ RemoveObject(d)
        BY <1>1 DEF ListPaperAssets, DeletePaperRow, RemoveObject, IdleDeletion
      <3>2. early' = (early \/ ingest # "done")
        BY <1>1, <3>1 DEF Delete
      <3>3. QED
        BY <3>2
    <2>3. PICK s \in Deletions : /\ deletion' = [deletion EXCEPT ![d] = s] /\ s.step = "deleteRow"
                                 /\ ~early' => PDF \in s.keys
      BY <2>1, <2>2, <2>e
    <2>4. /\ deletion' \in [Deleters -> Deletions]
          /\ deletion'[d] = s /\ \A e \in Deleters : e # d => deletion'[e] = deletion[e]
      <3>1. deletion' = [deletion EXCEPT ![d] = s]
        BY <2>3
      <3>2. QED
        BY <3>1, DeletionMoves
    <2>5. figures' = figures
      BY <1>1, <2>1 DEF Delete, Present
    <2>6. ObjectsTypeOK'
      BY <1>t, <1>y, <2>1, <2>4, <2>5
    <2>7. ObjInv'
      BY <1>p, <2>1, <2>3, <2>4, <2>5 DEF ObjInv, Present, At, Running
    <2>8. QED
      BY <2>6, <2>7
  <1>2. CASE DeletePaperRow(d) /\ Delete(d)
    <2>1. deletion[d].step = "deleteRow" /\ deletion[d].paper = Paper /\ objects' = objects
      BY <1>2, DeletionShape DEF DeletePaperRow
    <2>2. (~early => PDF \in deletion[d].keys) /\ row[Paper] # "absent"
      BY <2>1 DEF ObjInv
    <2>3. CASE Present(Paper)
      <3> DEFINE r == IF deletion[d].keys = {} THEN IdleDeletion ELSE [deletion[d] EXCEPT !.step = "removeObjects"]
      <3>1. /\ row' = [row EXCEPT ![Paper] = "deleted"] /\ assets' = {a \in assets : a.paper # Paper}
            /\ deletion' = [deletion EXCEPT ![d] = r]
        BY <1>2, <2>1, <2>2, <2>3 DEF DeletePaperRow
      <3>2. r \in Deletions /\ r.step # "deleteRow" /\ (~early => r.step = "removeObjects" /\ PDF \in r.keys)
        BY <2>1, <2>2, DeletionShape DEF Deletions, IdleDeletion
      <3>3. PICK s \in Deletions : /\ deletion' = [deletion EXCEPT ![d] = s] /\ s.step # "deleteRow"
                                   /\ ~early => s.step = "removeObjects" /\ PDF \in s.keys
        BY <3>1, <3>2
      <3>4. /\ deletion' \in [Deleters -> Deletions]
            /\ deletion'[d] = s /\ \A e \in Deleters : e # d => deletion'[e] = deletion[e]
        <4>1. deletion' = [deletion EXCEPT ![d] = s]
          BY <3>3
        <4>2. QED
          BY <4>1, DeletionMoves
      <3>5. row'[Paper] = "deleted" /\ assets' = {} /\ row' \in [Papers -> {"absent", "present", "deleted"}]
        BY <1>k, <1>t, <3>1
      <3>6. figures' = {}
        BY <1>2, <3>5 DEF Delete
      <3>7. ObjectsTypeOK'
        BY <1>y, <2>1, <3>4, <3>5, <3>6
      <3>8. ObjInv'
        <4>1. \A e \in Deleters : deletion'[e].step = "deleteRow" /\ ~early' => PDF \in deletion'[e].keys
          BY <1>p, <3>3, <3>4 DEF ObjInv
        <4>2. row'[Paper] = "deleted" /\ faults' = 0 /\ ~early' =>
                \E e \in Deleters : deletion'[e].step = "removeObjects" /\ PDF \in deletion'[e].keys
          BY <1>p, <3>3, <3>4
        <4>3. ingest' \notin {"put", "createPaper"} /\ \A w \in Parses : Running(w)' => ingest' = "done"
          BY <1>p, <2>2 DEF ObjInv, Running
        <4>4. QED
          BY <3>5, <3>6, <4>1, <4>2, <4>3 DEF ObjInv, Present
      <3>9. QED
        BY <3>7, <3>8
    <2>4. CASE ~Present(Paper)
      <3>1. deletion' = [deletion EXCEPT ![d] = IdleDeletion] /\ UNCHANGED <<row, assets>>
        BY <1>2, <2>1, <2>4 DEF DeletePaperRow
      <3>2. /\ deletion' \in [Deleters -> Deletions]
            /\ deletion'[d] = IdleDeletion /\ \A e \in Deleters : e # d => deletion'[e] = deletion[e]
        BY <3>1, DeletionMoves DEF Deletions
      <3>3. figures' = {} /\ ~Present(Paper)'
        BY <1>2, <2>4, <3>1 DEF Delete, Present
      <3>4. ObjectsTypeOK'
        BY <1>t, <1>y, <2>1, <3>1, <3>2, <3>3
      <3>5. ObjInv'
        BY <1>p, <2>1, <2>2, <2>4, <3>1, <3>2, <3>3 DEF ObjInv, IdleDeletion, Running
      <3>6. QED
        BY <3>4, <3>5
    <2>5. QED
      BY <2>3, <2>4
  <1>3. CASE (RemoveObject(d) /\ Delete(d)) \/ (RemoveFails(d) /\ DeleteFails(d))
    <2>1. deletion[d].step = "removeObjects" /\ UNCHANGED <<row, assets>>
      BY <1>3 DEF RemoveObject, RemoveFails
    <2>2. ~Present(Paper) /\ row[Paper] # "absent" /\ assets = {} /\ figures = {}
      BY <2>1 DEF ObjInv
    <2>3. PICK k \in deletion[d].keys :
            /\ DropKey(d, k)
            /\ objects' \subseteq objects
            /\ (faults' = 0 => objects' = objects \ {k} /\ faults = 0)
      <3>1. CASE RemoveObject(d) /\ Delete(d)
        BY <1>p, <3>1 DEF RemoveObject
      <3>2. CASE RemoveFails(d) /\ DeleteFails(d)
        BY <3>2 DEF RemoveFails, DeleteFails, ObjectsTypeOK
      <3>3. QED
        BY <1>3, <3>1, <3>2
    <2> DEFINE r == IF deletion[d].keys = {k} THEN IdleDeletion
                    ELSE [deletion[d] EXCEPT !.keys = @ \ {k}]
    <2>4. /\ r \in Deletions /\ r.step # "deleteRow"
          /\ \A l \in deletion[d].keys : l # k => r.step = "removeObjects" /\ l \in r.keys
      BY <2>1, DeletionShape DEF Deletions, IdleDeletion
    <2>5. deletion' = [deletion EXCEPT ![d] = r]
      BY <2>3 DEF DropKey
    <2>6. PICK s \in Deletions :
            /\ deletion' = [deletion EXCEPT ![d] = s] /\ s.step # "deleteRow"
            /\ \A l \in deletion[d].keys : l # k => s.step = "removeObjects" /\ l \in s.keys
      BY <2>4, <2>5
    <2>7. /\ deletion' \in [Deleters -> Deletions]
          /\ deletion'[d] = s /\ \A e \in Deleters : e # d => deletion'[e] = deletion[e]
      BY <2>6, DeletionMoves
    <2>8. figures' = {} /\ ~Present(Paper)' /\ assets' = {} /\ objects' \subseteq objects
      BY <1>3, <2>1, <2>2, <2>3 DEF Delete, DeleteFails, RemoveFails, Present, figureVars
    <2>9. ObjectsTypeOK'
      BY <1>t, <1>y, <2>1, <2>7, <2>8
    <2>10. faults' = 0 /\ ~early' =>
             \/ PDF \notin objects'
             \/ \E e \in Deleters : deletion'[e].step = "removeObjects" /\ PDF \in deletion'[e].keys
      <3>1. row[Paper] = "deleted"
        BY <1>k, <1>t, <2>2 DEF Present
      <3>2. QED
        BY <1>p, <2>1, <2>3, <2>6, <2>7, <3>1 DEF ObjInv
    <2>11. \A e \in Deleters : deletion'[e].step = "deleteRow" /\ ~early' => PDF \in deletion'[e].keys
      BY <1>p, <2>6, <2>7 DEF ObjInv
    <2>12. ObjInv'
      BY <1>p, <2>1, <2>2, <2>8, <2>10, <2>11 DEF ObjInv, Running
    <2>13. QED
      BY <2>9, <2>12
  <1>4. CASE DeletionFails(d) /\ DeleteFails(d)
    <2>1. deletion' = [deletion EXCEPT ![d] = IdleDeletion] /\ UNCHANGED <<row, assets, objects, figures>>
      BY <1>4 DEF DeletionFails, DeleteFails, figureVars
    <2>2. /\ deletion' \in [Deleters -> Deletions]
          /\ deletion'[d] = IdleDeletion /\ \A e \in Deleters : e # d => deletion'[e] = deletion[e]
      BY <2>1, DeletionMoves DEF Deletions
    <2>3. ObjectsTypeOK'
      BY <1>t, <1>y, <2>1, <2>2
    <2>4. faults' # 0
      BY <1>4 DEF DeleteFails, ObjectsTypeOK
    <2>5. ObjInv'
      BY <1>p, <2>1, <2>2, <2>4 DEF ObjInv, IdleDeletion, Present, At, Running
    <2>6. QED
      BY <2>3, <2>5
  <1>5. QED
    BY <1>1, <1>2, <1>3, <1>4 DEF Delete, DeleteFails

-----------------------------------------------------------------------------
(* The ingest.                                                             *)

\* The ingest: while the paper is not there, nothing else is under way.
LEMMA IngestKeeps ==
  ASSUME ObjectsTypeOK, ObjInv, PutPDF \/ CreatePaper \/ CreatePDFAsset \/ IngestFails
  PROVE  ObjectsTypeOK' /\ ObjInv'
  <1>k. PDF \in Keys /\ Papers = {Paper} /\ Upload \in Writers /\ PDF # TEI /\ PDF \notin Orders
    BY KeysAssumption, ParsesAssumption
  <1>r. \A w \in Parses : Running(w) => ingest = "done"
    BY DEF ObjInv
  <1>1. ASSUME NEW step \in IngestSteps, NEW next \in IngestSteps \cup {"done", "failed"}, Ingest(step, next)
        PROVE  /\ ingest = step /\ ingest' = next
               /\ UNCHANGED <<early, figures, crop, parse, result, mixed, faults>>
               /\ \A w \in Parses : ~ Running(w) /\ ~ Running(w)'
    BY <1>1, <1>r DEF Ingest, figureVars, parseVars, IngestSteps, Running
  <1>2. CASE PutPDF
    <2>1. /\ ingest = "put" /\ ingest' = "createPaper"
          /\ UNCHANGED <<early, figures, crop, parse, result, mixed, faults>>
          /\ \A w \in Parses : ~ Running(w) /\ ~ Running(w)'
      BY <1>1, <1>2 DEF PutPDF, IngestSteps
    <2>2. objects' = objects \cup {PDF} /\ UNCHANGED <<row, assets, deletion>>
      BY <1>2 DEF PutPDF, PutObject
    <2>3. ObjectsTypeOK'
      BY <1>k, <2>1, <2>2 DEF ObjectsTypeOK, StoreTypeOK, IngestSteps
    <2>4. row[Paper] = "absent"
      BY <2>1 DEF ObjInv
    <2>5. ObjInv'
      BY <2>1, <2>2, <2>4 DEF ObjInv, Present
    <2>6. QED
      BY <2>3, <2>5
  <1>3. CASE CreatePaper
    <2>1. /\ ingest = "createPaper" /\ ingest' = "createAsset"
          /\ UNCHANGED <<early, figures, crop, parse, result, mixed, faults>>
          /\ \A w \in Parses : ~ Running(w) /\ ~ Running(w)'
      BY <1>1, <1>3 DEF CreatePaper, IngestSteps
    <2>2. row' = [row EXCEPT ![Paper] = "present"] /\ UNCHANGED <<assets, objects, deletion>>
      BY <1>3 DEF CreatePaper
    <2>3. ObjectsTypeOK' /\ row'[Paper] = "present"
      BY <1>k, <2>1, <2>2 DEF ObjectsTypeOK, StoreTypeOK, IngestSteps
    <2>4. row[Paper] = "absent" /\ PDF \in objects
      BY <2>1 DEF ObjInv
    <2>5. assets = {} /\ figures = {} /\ \A d \in Deleters : deletion[d].step = "idle"
      BY <2>4 DEF ObjInv, Present
    <2>6. ObjInv'
      BY <2>1, <2>2, <2>3, <2>4, <2>5 DEF ObjInv, Present, At, Running, ParseSteps
    <2>7. QED
      BY <2>3, <2>6
  <1>4. CASE CreatePDFAsset
    <2>1. CASE Ingest("createAsset", "done") /\ CreatePaperAsset(Paper, PDF, Upload)
      <3>1. /\ ingest = "createAsset" /\ ingest' = "done"
            /\ UNCHANGED <<early, figures, crop, parse, result, mixed, faults>>
            /\ \A w \in Parses : ~ Running(w) /\ ~ Running(w)'
        BY <1>1, <2>1 DEF IngestSteps
      <3>2. /\ assets' = assets \cup {Asset(Paper, PDF, Upload)} /\ UNCHANGED <<row, objects, deletion>>
            /\ Present(Paper)
        BY <2>1 DEF CreatePaperAsset
      <3>3. /\ Asset(Paper, PDF, Upload) \in [paper : Papers, key : Keys, by : Writers]
            /\ Asset(Paper, PDF, Upload).key = PDF
        BY <1>k DEF Asset
      <3>4. ObjectsTypeOK'
        BY <3>1, <3>2, <3>3 DEF ObjectsTypeOK, StoreTypeOK
      <3>5. PDF \in objects /\ \A a \in assets' : a.key \in objects
        BY <3>1, <3>2, <3>3 DEF ObjInv
      <3>6. ObjInv'
        BY <3>1, <3>2, <3>3, <3>5 DEF ObjInv, Present, At, Running, ParseSteps
      <3>7. QED
        BY <3>4, <3>6
    <2>2. CASE Ingest("createAsset", "failed") /\ ~Present(Paper) /\ UNCHANGED storeVars
      <3>1. /\ ingest = "createAsset" /\ ingest' = "failed"
            /\ UNCHANGED <<early, figures, crop, parse, result, mixed, faults, row, assets, objects, deletion>>
            /\ \A w \in Parses : ~ Running(w) /\ ~ Running(w)'
        BY <1>1, <2>2 DEF IngestSteps, storeVars
      <3>2. ObjectsTypeOK'
        BY <3>1 DEF ObjectsTypeOK, StoreTypeOK
      <3>3. ObjInv'
        BY <2>2, <3>1 DEF ObjInv, Present, At
      <3>4. QED
        BY <3>2, <3>3
    <2>3. QED
      BY <1>4, <2>1, <2>2 DEF CreatePDFAsset
  <1>5. CASE IngestFails
    <2>1. /\ ingest \in IngestSteps /\ ingest' = "failed"
          /\ UNCHANGED <<row, assets, objects, deletion, early, figures, crop, parse, result, mixed>>
      BY <1>5 DEF IngestFails, storeVars, figureVars, parseVars
    <2>2. faults' \in 0..MaxFaults /\ faults' # 0
      BY <1>5, ParsesAssumption DEF IngestFails, ObjectsTypeOK
    <2>3. \A w \in Parses : ~ Running(w) /\ ~ Running(w)'
      BY <1>r, <2>1 DEF IngestSteps, Running
    <2>4. ObjectsTypeOK'
      BY <2>1, <2>2 DEF ObjectsTypeOK, StoreTypeOK
    <2>5. ObjInv'
      BY <2>1, <2>2, <2>3 DEF ObjInv, Present, At, IngestSteps
    <2>6. QED
      BY <2>4, <2>5
  <1>6. QED
    BY <1>2, <1>3, <1>4, <1>5

-----------------------------------------------------------------------------
(* The crops.                                                              *)

\* From the deletion of the old rows on, until its end.
Past(w) == parse[w].step \in {"createFigures", "clearImages", "crop", "createImage", "setImage"}

Attaching(w, i) == parse[w].step \in {"createImage", "setImage"} /\ First(i, parse[w].boxes)

\* Parses that run at the same time are of one result, or all mixed.  A row of a parse
\* that is not mixed has, with every parse that is past its own deletion, the result in
\* common; so what such a parse is about to attach, and what such a row shows, is a crop
\* of that result.
CropInv ==
  /\ \A v, w \in Parses : Running(v) /\ Running(w) =>
       (v \in mixed <=> w \in mixed) /\ (v \notin mixed => result[v] = result[w])
  /\ \A f \in figures : \A v \in Parses : Past(v) /\ f.by \notin mixed => result[v] = result[f.by]
  /\ \A f \in figures : ~ At(f.by, "waiting")
  /\ \A w \in Parses, i \in Orders :
       Attaching(w, i) /\ (w \notin mixed \/ \E f \in figures : f.by \notin mixed) => crop[i] = result[w]
  /\ \A f \in figures : f.image # {} /\ f.by \notin mixed => crop[f.order] = result[f.by]
  /\ \A w \in mixed : ~ At(w, "waiting")

\* A step of a running parse w replaces the crop of an order by one of its own result,
\* adds rows of its own, and attaches what it is about to attach.
LEMMA CropsMove ==
  ASSUME ObjectsTypeOK, ObjectsTypeOK', CropInv, NEW w \in Parses, Running(w), ParseMoves(w),
         UNCHANGED <<result, mixed>>, parse'[w].step # "waiting",
         \A f \in figures' : f.by = w \/ \E g \in figures : g.by = f.by,
         Past(w)' => Past(w) \/ figures' = {},
         \A i \in Orders : Attaching(w, i)' => crop'[i] = result[w] \/ (Attaching(w, i) /\ figures' = figures),
         \A i \in Orders : crop'[i] = crop[i] \/ (Past(w) /\ crop'[i] = result[w]),
         \A f \in figures' : \/ f.image = {}
                             \/ \E g \in figures : /\ g.by = f.by /\ g.order = f.order
                                                   /\ g.image # {} \/ Attaching(w, f.order)
  PROVE  CropInv'
  <1>t. /\ \A f \in figures : f.by \in Parses /\ f.order \in Orders
        /\ \A f \in figures' : f.by \in Parses /\ f.order \in Orders
    BY DEF ObjectsTypeOK
  <1>1. \A v \in Parses : v # w => parse'[v] = parse[v]
    BY DEF ParseMoves
  <1>2. \A v, u \in Parses : Running(v)' /\ Running(u)' =>
          (v \in mixed' <=> u \in mixed') /\ (v \notin mixed' => result'[v] = result'[u])
    BY <1>1 DEF CropInv, Running
  <1>3. ASSUME NEW f \in figures', NEW v \in Parses, Past(v)', f.by \notin mixed
        PROVE  result[v] = result[f.by]
    <2>1. CASE v = w
      BY <1>3, <2>1 DEF CropInv
    <2>2. CASE v # w
      <3>1. Past(v) /\ Running(v)
        BY <1>1, <1>3, <2>2 DEF Past, Running, ParseSteps
      <3>2. QED
        BY <1>3, <3>1 DEF CropInv
    <2>3. QED
      BY <2>1, <2>2
  <1>4. \A f \in figures' : ~ At(f.by, "waiting")'
    BY <1>1, <1>t DEF CropInv, At
  <1>5. ASSUME NEW v \in Parses, NEW i \in Orders, Attaching(v, i)',
               v \notin mixed \/ \E f \in figures' : f.by \notin mixed
        PROVE  crop'[i] = result[v]
    <2>1. CASE v = w
      BY <1>5, <2>1 DEF CropInv, Attaching
    <2>2. CASE v # w
      <3>1. Attaching(v, i) /\ Running(v) /\ Past(v)
        BY <1>1, <1>5, <2>2 DEF Attaching, Past, Running, ParseSteps
      <3>2. CASE v \notin mixed
        BY <3>1, <3>2 DEF CropInv
      <3>3. ASSUME NEW f \in figures', f.by \notin mixed
            PROVE  crop'[i] = result[v]
        <4>1. CASE f.by = w
          BY <3>1, <3>2, <3>3, <4>1 DEF CropInv
        <4>2. CASE \E g \in figures : g.by = f.by
          <5>1. PICK g \in figures : g.by \notin mixed
            BY <3>3, <4>2
          <5>2. crop[i] = result[v] /\ result[v] = result[g.by] /\ (Past(w) => result[w] = result[g.by])
            BY <3>1, <5>1 DEF CropInv
          <5>3. QED
            BY <5>2
        <4>3. QED
          BY <3>3, <4>1, <4>2
      <3>4. QED
        BY <1>5, <3>2, <3>3
    <2>3. QED
      BY <2>1, <2>2
  <1>6. ASSUME NEW f \in figures', f.image # {}, f.by \notin mixed
        PROVE  crop'[f.order] = result[f.by]
    <2>1. PICK g \in figures : g.by = f.by /\ g.order = f.order /\ (g.image # {} \/ Attaching(w, f.order))
      BY <1>6
    <2>2. Past(w) => result[w] = result[f.by]
      BY <1>6, <2>1 DEF CropInv
    <2>3. CASE g.image # {}
      BY <1>6, <1>t, <2>1, <2>2, <2>3 DEF CropInv
    <2>4. CASE Attaching(w, f.order)
      <3>1. Past(w)
        BY <2>4 DEF Attaching, Past
      <3>2. crop[f.order] = result[w]
        BY <1>6, <1>t, <2>1, <2>4 DEF CropInv
      <3>3. QED
        BY <1>t, <2>2, <3>1, <3>2
    <2>5. QED
      BY <2>1, <2>3, <2>4
  <1>7. \A v \in mixed' : ~ At(v, "waiting")'
    BY <1>1 DEF CropInv, At, ObjectsTypeOK
  <1>8. QED
    BY <1>2, <1>3, <1>4, <1>5, <1>6, <1>7 DEF CropInv

\* A step that leaves the parses and the crops alone, and adds no figure.
LEMMA CropsStay ==
  ASSUME CropInv, UNCHANGED <<crop, parse, result, mixed>>, figures' \subseteq figures
  PROVE  CropInv'
  <1>1. /\ \A v \in Parses : (Running(v)' <=> Running(v)) /\ (Past(v)' <=> Past(v))
        /\ \A v \in Parses, i \in Orders : Attaching(v, i)' <=> Attaching(v, i)
        /\ \A v : At(v, "waiting")' <=> At(v, "waiting")
    BY DEF Running, Past, Attaching, At
  <1>2. QED
    BY <1>1 DEF CropInv

LEMMA ParseStepKeepsCrops ==
  ASSUME ObjectsTypeOK, ObjectsTypeOK', CropInv, NEW w \in Parses, StartParse(w) \/ ParseStep(w)
  PROVE  CropInv'
  <1>t. /\ figures \subseteq FigureRows(assets) /\ \A f \in figures : f.by \in Parses /\ f.order \in Orders
        /\ crop \in [Orders -> Results \cup {NoResult}]
    BY DEF ObjectsTypeOK, FigureRows
  <1>p. Parsing => UNCHANGED <<result, mixed>>
    BY DEF Parsing
  <1>q. ASSUME Running(w), ParseMoves(w), Parsing, UNCHANGED <<figures, crop>>,
               parse'[w].step \in {"createTEI", "deleteFigures", "over"}
                 \/ (Past(w) /\ parse'[w].step \in {"clearImages", "crop"})
        PROVE  CropInv'
    <2>1. parse'[w].step # "waiting" /\ (Past(w)' => Past(w)) /\ \A i \in Orders : ~ Attaching(w, i)'
      BY <1>q DEF Past, Attaching
    <2>2. QED
      BY <1>p, <1>q, <2>1, CropsMove
  <1>s. ASSUME Running(w), Stop(w), UNCHANGED <<figures, crop>>
        PROVE  CropInv'
    BY <1>q, <1>s, ParseStops
  <1>1. CASE StartParse(w)
    <2> DEFINE others == {v \in Parses : Running(v)}
    <2>1. PICK g \in Results :
            /\ result' = [result EXCEPT ![w] = g]
            /\ mixed' = IF \E v \in others : result[v] # g \/ v \in mixed
                        THEN mixed \cup others \cup {w} ELSE mixed
      BY <1>1 DEF StartParse
    <2>2. At(w, "waiting") /\ ~ Running(w) /\ UNCHANGED <<figures, crop>>
      BY <1>1 DEF StartParse, At, Running, ParseSteps, figureVars
    <2>3. parse'[w].step = "putTEI" /\ \A v \in Parses : v # w => parse'[v] = parse[v]
      BY <1>1 DEF StartParse, ObjectsTypeOK
    <2>4. result'[w] = g /\ \A v \in Parses : v # w => result'[v] = result[v]
      BY <2>1 DEF ObjectsTypeOK
    <2>5. w \notin mixed /\ mixed \subseteq Parses
      BY <2>2 DEF CropInv, ObjectsTypeOK
    <2>6. /\ mixed \subseteq mixed' /\ mixed' \subseteq mixed \cup others \cup {w}
          /\ \A v \in others : v \in mixed' <=> w \in mixed'
          /\ \A v \in others : w \notin mixed' => result[v] = g
      BY <2>1, <2>5
    <2>7. \A f \in figures : f.by # w
      BY <2>2 DEF CropInv
    <2>8. \A v, u \in Parses : Running(v)' /\ Running(u)' =>
            (v \in mixed' <=> u \in mixed') /\ (v \notin mixed' => result'[v] = result'[u])
      <3>1. \A v \in Parses : Running(v)' => v = w \/ v \in others
        BY <2>3 DEF Running
      <3>2. ASSUME NEW v \in others, NEW u \in others
            PROVE  (v \in mixed' <=> u \in mixed') /\ (v \notin mixed' => result'[v] = result'[u])
        BY <2>2, <2>4, <2>6, <3>2 DEF CropInv
      <3>3. ASSUME NEW v \in others
            PROVE  (v \in mixed' <=> w \in mixed') /\ (v \notin mixed' => result'[v] = result'[w])
        BY <2>2, <2>4, <2>6, <3>3
      <3>4. QED
        BY <3>1, <3>2, <3>3
    <2>9. ASSUME NEW v \in Parses
          PROVE  /\ Past(v)' => Past(v) /\ v # w
                 /\ \A i : Attaching(v, i)' => Attaching(v, i) /\ v # w
                 /\ At(v, "waiting")' => At(v, "waiting") /\ v # w
      BY <2>3 DEF Past, Attaching, At
    <2>10. \A f \in figures' : \A v \in Parses : Past(v)' /\ f.by \notin mixed' => result'[v] = result'[f.by]
      BY <1>t, <2>2, <2>4, <2>6, <2>7, <2>9 DEF CropInv
    <2>11. \A v \in Parses, i \in Orders :
             Attaching(v, i)' /\ (v \notin mixed' \/ \E f \in figures' : f.by \notin mixed') => crop'[i] = result'[v]
      BY <2>2, <2>4, <2>6, <2>9 DEF CropInv
    <2>12. \A f \in figures' : f.image # {} /\ f.by \notin mixed' => crop'[f.order] = result'[f.by]
      BY <1>t, <2>2, <2>4, <2>6, <2>7 DEF CropInv
    <2>13. \A f \in figures' : ~ At(f.by, "waiting")'
      BY <1>t, <2>2, <2>9 DEF CropInv
    <2>14. \A v \in mixed' : ~ At(v, "waiting")'
      <3>1. \A v \in others : ~ At(v, "waiting")
        BY DEF Running, At, ParseSteps
      <3>2. QED
        BY <2>5, <2>6, <2>9, <3>1 DEF CropInv
    <2>15. QED
      BY <2>8, <2>10, <2>11, <2>12, <2>13, <2>14 DEF CropInv
  <1>2. CASE PutTEI(w)
    <2>1. Running(w) /\ Goto(w, "createTEI") /\ UNCHANGED <<figures, crop>>
      BY <1>2 DEF PutTEI, figureVars, At, Running, ParseSteps
    <2>2. QED
      BY <1>q, <2>1, ParseGoes DEF ParseSteps
  <1>3. CASE CreateTEIAsset(w)
    <2>1. Running(w) /\ UNCHANGED <<figures, crop>> /\ (Goto(w, "deleteFigures") \/ Stop(w))
      BY <1>3 DEF CreateTEIAsset, figureVars, At, Running, ParseSteps
    <2>2. QED
      BY <1>q, <1>s, <2>1, ParseGoes DEF ParseSteps
  <1>4. CASE DeleteFigures(w)
    <2>1. Running(w) /\ figures' = {} /\ crop' = crop /\ Goto(w, "createFigures")
      BY <1>4 DEF DeleteFigures, At, Running, ParseSteps
    <2>2. ParseMoves(w) /\ parse'[w].step = "createFigures" /\ Parsing
      BY <2>1, ParseGoes DEF ParseSteps
    <2>3. parse'[w].step # "waiting" /\ \A i \in Orders : ~ Attaching(w, i)'
      BY <2>2 DEF Attaching
    <2>4. QED
      BY <1>p, <2>1, <2>2, <2>3, CropsMove
  <1>5. CASE CreateFigure(w)
    <2>1. PICK i \in Orders :
            \/ /\ figures' = figures \cup {FigureRow(i, w)}
               /\ parse' = [parse EXCEPT ![w].found = @ \ {i}] /\ Parsing
            \/ Stop(w) /\ UNCHANGED figures
      BY <1>5 DEF CreateFigure
    <2>2. Running(w) /\ Past(w) /\ parse[w].step = "createFigures" /\ crop' = crop
      BY <1>5 DEF CreateFigure, At, Running, Past, ParseSteps
    <2>3. CASE Stop(w) /\ UNCHANGED figures
      BY <1>s, <2>2, <2>3
    <2>4. CASE /\ figures' = figures \cup {FigureRow(i, w)}
               /\ parse' = [parse EXCEPT ![w].found = @ \ {i}] /\ Parsing
      <3> DEFINE s == [parse[w] EXCEPT !.found = @ \ {i}]
      <3>1. s \in Begun /\ s.step = "createFigures"
        BY <2>2, ParseShape DEF Begun
      <3>2. parse' = [parse EXCEPT ![w] = s]
        BY <2>4
      <3>3. ParseMoves(w) /\ parse'[w].step = "createFigures"
        BY <3>1, <3>2 DEF ObjectsTypeOK, ParseMoves, Begun
      <3>4. FigureRow(i, w).by = w /\ FigureRow(i, w).image = {}
        BY DEF FigureRow
      <3>5. parse'[w].step # "waiting" /\ \A j \in Orders : ~ Attaching(w, j)'
        BY <3>3 DEF Attaching
      <3>6. QED
        BY <1>p, <2>2, <2>4, <3>3, <3>4, <3>5, CropsMove
    <2>5. QED
      BY <2>1, <2>3, <2>4
  <1>6. CASE FiguresSaved(w)
    <2>1. Running(w) /\ Past(w) /\ UNCHANGED <<figures, crop>> /\ (Goto(w, "clearImages") \/ Stop(w))
      BY <1>6 DEF FiguresSaved, figureVars, At, Running, Past, ParseSteps
    <2>2. QED
      BY <1>q, <1>s, <2>1, ParseGoes DEF ParseSteps
  <1>7. CASE ClearFigureImages(w)
    <2>1. /\ Running(w) /\ Past(w) /\ Goto(w, "crop") /\ crop' = crop
          /\ figures' = {[f EXCEPT !.image = {}] : f \in figures} \/ figures' = figures
      BY <1>7 DEF ClearFigureImages, At, Running, Past, ParseSteps
    <2>2. ParseMoves(w) /\ parse'[w].step = "crop" /\ Parsing
      BY <2>1, ParseGoes DEF ParseSteps
    <2>3. CASE figures' = figures
      BY <1>q, <2>1, <2>2, <2>3
    <2>4. CASE figures' = {[f EXCEPT !.image = {}] : f \in figures}
      <3>1. \A f \in figures' : f.image = {} /\ \E g \in figures : g.by = f.by
        BY <1>t, <2>4 DEF FigureRows
      <3>2. parse'[w].step # "waiting" /\ \A i \in Orders : ~ Attaching(w, i)'
        BY <2>2 DEF Attaching
      <3>3. QED
        BY <1>p, <2>1, <2>2, <3>1, <3>2, CropsMove
    <2>5. QED
      BY <2>1, <2>3, <2>4
  <1>8. CASE PutImage(w)
    <2>1. PICK i \in Orders :
            /\ First(i, parse[w].boxes)
            /\ \/ crop' = [crop EXCEPT ![i] = result[w]] /\ Goto(w, "createImage")
               \/ UNCHANGED crop /\ FigureOver(w, i)
      BY <1>8 DEF PutImage
    <2>2. Running(w) /\ Past(w) /\ figures' = figures
      BY <1>8 DEF PutImage, At, Running, Past, ParseSteps
    <2>3. CASE crop' = [crop EXCEPT ![i] = result[w]] /\ Goto(w, "createImage")
      <3>1. ParseMoves(w) /\ parse'[w].step = "createImage" /\ parse'[w].boxes = parse[w].boxes /\ Parsing
        BY <2>2, <2>3, ParseGoes DEF ParseSteps
      <3>2. crop'[i] = result[w] /\ \A j \in Orders : crop'[j] = crop[j] \/ crop'[j] = result[w]
        BY <1>t, <2>3
      <3>3. \A j \in Orders : First(j, parse'[w].boxes) => j = i
        <4>1. parse[w].boxes \subseteq Orders
          BY <2>2, ParseShape
        <4>2. \A j \in Orders : j \in Nat
          BY DEF Orders
        <4>3. QED
          BY <2>1, <3>1, <4>1, <4>2 DEF First
      <3>4. parse'[w].step # "waiting" /\ \A j \in Orders : Attaching(w, j)' => crop'[j] = result[w]
        BY <3>1, <3>2, <3>3 DEF Attaching
      <3>5. \A f \in figures' : f \in figures
        BY <2>2
      <3>6. QED
        BY <1>p, <2>2, <3>1, <3>2, <3>4, <3>5, CropsMove
    <2>4. CASE UNCHANGED crop /\ FigureOver(w, i)
      BY <1>q, <2>2, <2>4, FigureDone
    <2>5. QED
      BY <2>1, <2>3, <2>4
  <1>9. CASE CreateImageAsset(w)
    <2>1. PICK i \in Orders : First(i, parse[w].boxes) /\ (Goto(w, "setImage") \/ FigureOver(w, i))
      BY <1>9 DEF CreateImageAsset
    <2>2. Running(w) /\ Past(w) /\ UNCHANGED <<figures, crop>> /\ parse[w].step = "createImage"
      BY <1>9 DEF CreateImageAsset, figureVars, At, Running, Past, ParseSteps
    <2>3. CASE Goto(w, "setImage")
      <3>1. ParseMoves(w) /\ parse'[w].step = "setImage" /\ parse'[w].boxes = parse[w].boxes /\ Parsing
        BY <2>2, <2>3, ParseGoes DEF ParseSteps
      <3>2. parse'[w].step # "waiting" /\ \A j \in Orders : Attaching(w, j)' => Attaching(w, j)
        BY <2>2, <3>1 DEF Attaching
      <3>3. QED
        BY <1>p, <2>2, <3>1, <3>2, CropsMove
    <2>4. CASE FigureOver(w, i)
      BY <1>q, <2>2, <2>4, FigureDone
    <2>5. QED
      BY <2>1, <2>3, <2>4
  <1>10. CASE SetFigureImage(w)
    <2>1. PICK i \in Orders :
            /\ First(i, parse[w].boxes) /\ FigureOver(w, i)
            /\ \/ figures' = {IF f.order = i THEN [f EXCEPT !.image = OwnAsset(w, i)] ELSE f : f \in figures}
               \/ UNCHANGED figures
      BY <1>10 DEF SetFigureImage
    <2>2. Running(w) /\ Past(w) /\ crop' = crop /\ Attaching(w, i)
      BY <1>10, <2>1 DEF SetFigureImage, At, Running, Past, Attaching, ParseSteps
    <2>3. ParseMoves(w) /\ parse'[w].step = "crop" /\ Parsing
      BY <2>1, <2>2, FigureDone
    <2>4. CASE UNCHANGED figures
      BY <1>q, <2>2, <2>3, <2>4
    <2>5. CASE figures' = {IF f.order = i THEN [f EXCEPT !.image = OwnAsset(w, i)] ELSE f : f \in figures}
      <3>1. \A f \in figures' : \E g \in figures :
              g.by = f.by /\ g.order = f.order /\ (f.image = {} \/ g.image # {} \/ Attaching(w, f.order))
        BY <1>t, <2>2, <2>5 DEF FigureRows
      <3>2. parse'[w].step # "waiting" /\ \A j \in Orders : ~ Attaching(w, j)'
        BY <2>3 DEF Attaching
      <3>3. QED
        BY <1>p, <2>2, <2>3, <3>1, <3>2, CropsMove
    <2>6. QED
      BY <2>1, <2>4, <2>5
  <1>11. CASE EndParse(w) \/ ParseCut(w)
    BY <1>11, <1>s DEF EndParse, ParseCut, figureVars, At, Running, ParseSteps
  <1>12. QED
    BY <1>1, <1>2, <1>3, <1>4, <1>5, <1>6, <1>7, <1>8, <1>9, <1>10, <1>11 DEF ParseStep

-----------------------------------------------------------------------------
(* The theorems.                                                           *)

LEMMA ObjectsInit == Init => ObjectsTypeOK /\ ObjInv /\ CropInv
  <1> SUFFICES ASSUME Init PROVE ObjectsTypeOK /\ ObjInv /\ CropInv
    OBVIOUS
  <1>1. Papers = {Paper}
    BY KeysAssumption
  <1>2. ObjectsTypeOK
    <2>1. StoreTypeOK
      BY <1>1 DEF Init, StoreTypeOK
    <2>2. /\ crop \in [Orders -> Results \cup {NoResult}] /\ result \in [Parses -> Results \cup {NoResult}]
          /\ parse \in [Parses -> Begun \cup {NotStarted, Over}]
      BY DEF Init
    <2>3. ingest \in IngestSteps /\ early \in BOOLEAN /\ figures = {} /\ mixed = {} /\ faults \in 0..MaxFaults
      <3>1. ingest = "put" /\ early = FALSE /\ faults = 0 /\ figures = {} /\ mixed = {}
        BY DEF Init
      <3>2. ingest \in IngestSteps /\ faults \in 0..MaxFaults
        BY <3>1, ParsesAssumption DEF IngestSteps
      <3>3. early \in BOOLEAN
        BY <3>1, Zenon
      <3>4. QED
        BY <3>1, <3>2, <3>3
    <2>4. QED
      BY <2>1, <2>2, <2>3 DEF ObjectsTypeOK, Begun
  <1>3. ObjInv
    BY <1>1 DEF Init, ObjInv, Present, At, Running, ParseSteps, NotStarted, IdleDeletion
  <1>4. CropInv
    BY DEF Init, CropInv, Running, Past, Attaching, ParseSteps, NotStarted
  <1>5. QED
    BY <1>2, <1>3, <1>4

LEMMA ObjectsStep ==
  ASSUME ObjectsTypeOK, ObjInv, CropInv, [Next]_vars
  PROVE  ObjectsTypeOK' /\ ObjInv' /\ CropInv'
  <1>1. CASE UNCHANGED vars
    <2>1. UNCHANGED <<row, assets, objects, deletion, ingest, early, figures, crop, parse, result, mixed, faults>>
      BY <1>1 DEF vars, storeVars, ingestVars, figureVars, parseVars
    <2>2. ObjectsTypeOK' /\ ObjInv'
      BY <2>1 DEF ObjectsTypeOK, StoreTypeOK, ObjInv, Present, At, Running
    <2>3. QED
      BY <2>1, <2>2, CropsStay
  <1>2. CASE PutPDF \/ CreatePaper \/ CreatePDFAsset \/ IngestFails
    <2>1. UNCHANGED <<figures, crop, parse, result, mixed>>
      BY <1>2 DEF PutPDF, CreatePaper, CreatePDFAsset, IngestFails, Ingest, figureVars, parseVars
    <2>2. QED
      BY <1>2, <2>1, IngestKeeps, CropsStay
  <1>3. CASE \E w \in Parses : StartParse(w) \/ ParseStep(w)
    BY <1>3, ParseStepKeeps, ParseStepKeepsCrops
  <1>4. CASE \E d \in Deleters : Delete(d) \/ DeleteFails(d)
    <2>1. UNCHANGED <<crop, parse, result, mixed>> /\ figures' \subseteq figures
      BY <1>4 DEF Delete, DeleteFails, figureVars, parseVars
    <2>2. QED
      BY <1>4, <2>1, DeletionKeeps, CropsStay
  <1>5. QED
    BY <1>1, <1>2, <1>3, <1>4 DEF Next

\* The types, and that a figure's image is an asset row that exists, for any number
\* of figures, parses, deletions and faults.
THEOREM ObjectsTypeCorrect == Spec => []ObjectsTypeOK
  <1>1. ObjectsTypeOK /\ ObjInv /\ CropInv /\ [Next]_vars => (ObjectsTypeOK /\ ObjInv /\ CropInv)'
    BY ObjectsStep
  <1>2. QED
    BY <1>1, ObjectsInit, PTL DEF Spec

\* No figure is served with a crop that is gone or of another order, nor with one of
\* another result than its own parse's, unless such a parse got into its own.
THEOREM FigureServesOwnImageHolds == Spec => []FigureServesOwnImage
  <1>1. ObjectsTypeOK /\ ObjInv /\ CropInv => FigureServesOwnImage
    <2> SUFFICES ASSUME ObjectsTypeOK, ObjInv, CropInv, NEW f \in figures, NEW a \in f.image
                 PROVE  /\ a.key = f.order /\ a.key \in objects
                        /\ f.by \notin mixed => crop[f.order] = result[f.by]
      BY DEF FigureServesOwnImage
    <2>1. a \in assets
      BY DEF ObjectsTypeOK
    <2>2. a.key = f.order /\ a.key \in objects
      BY <2>1 DEF ObjInv
    <2>3. f.by \notin mixed => crop[f.order] = result[f.by]
      BY DEF CropInv
    <2>4. QED
      BY <2>2, <2>3
  <1>2. ObjectsTypeOK /\ ObjInv /\ CropInv /\ [Next]_vars => (ObjectsTypeOK /\ ObjInv /\ CropInv)'
    BY ObjectsStep
  <1>3. QED
    BY <1>1, <1>2, ObjectsInit, PTL DEF Spec

\* No parse loses the upload, and no deletion that came after it ends without having
\* removed it.
THEOREM PDFGoesWithPaperHolds == Spec => []PDFGoesWithPaper
  <1>1. ObjectsTypeOK /\ ObjInv => PDFGoesWithPaper
    <2> SUFFICES ASSUME ObjectsTypeOK, ObjInv
                 PROVE  PDFGoesWithPaper
      OBVIOUS
    <2>1. ASSUME Present(Paper), ingest = "done"
          PROVE  PDF \in AssetKeys(Paper) /\ PDF \in objects
      <3>1. PICK a \in assets : a.key = PDF /\ a.key \in objects
        BY <2>1 DEF ObjInv
      <3>2. a.paper = Paper
        BY KeysAssumption DEF ObjectsTypeOK, StoreTypeOK
      <3>3. QED
        BY <3>1, <3>2 DEF AssetKeys
    <2>2. ASSUME row[Paper] = "deleted", faults = 0, ~early, PDF \in objects
          PROVE  Removing(PDF)
      <3>1. PICK d \in Deleters : deletion[d].step = "removeObjects" /\ PDF \in deletion[d].keys
        BY <2>2 DEF ObjInv
      <3>2. QED
        BY <3>1 DEF Removing, IdleDeletion
    <2>3. QED
      BY <2>1, <2>2 DEF PDFGoesWithPaper
  <1>2. ObjectsTypeOK /\ ObjInv /\ CropInv /\ [Next]_vars => (ObjectsTypeOK /\ ObjInv /\ CropInv)'
    BY ObjectsStep
  <1>3. QED
    BY <1>1, <1>2, ObjectsInit, PTL DEF Spec
=============================================================================
