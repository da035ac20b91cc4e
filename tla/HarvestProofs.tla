--------------------------- MODULE HarvestProofs ---------------------------
(***************************************************************************)
(* The proofs of what makes the intake of papers correct.                  *)
(***************************************************************************)
EXTENDS HarvestProperties, FiniteSetTheorems, TLAPS

\* Any one of the names that are left is one of them.
LEMMA OneOfThem ==
  ASSUME NEW names, NEW n \in One(names)
  PROVE  n \in names
  <1>1. n = CHOOSE m \in names : TRUE
    BY DEF One
  <1>2. names # {}
    BY DEF One
  <1>3. QED
    BY <1>1, <1>2, Zenon

\* A goroutine that is not idle has a slot with every field.
LEMMA SlotShape ==
  ASSUME HarvestTypeOK, NEW w \in Writers, slot[w].step # "idle"
  PROVE  /\ slot[w] \in Slots /\ slot[w] # IdleSlot
         /\ slot[w].step \in {"next", "download"} \cup IngestSteps
         /\ slot[w].categories \in 0..MaxCategories /\ slot[w].todo \subseteq Entries
         /\ slot[w].entry \in Entries \cup {None}
         /\ slot[w].key \in Keys \cup {None} /\ slot[w].paper \in Papers \cup {None}
  <1>1. slot[w] \in Slots \cup {IdleSlot}
    BY DEF HarvestTypeOK
  <1>2. slot[w] # IdleSlot
    BY DEF IdleSlot
  <1>3. QED
    BY <1>1, <1>2 DEF Slots

\* A step of one goroutine changes its own slot, and keeps its type.
SlotMoves(w) ==
  /\ slot' = [slot EXCEPT ![w] = slot'[w]]
  /\ slot'[w] \in Slots \cup {IdleSlot}
  /\ slot'[w].step \in HasKey => slot'[w].key \in Keys
  /\ slot'[w].step \in HasPaper => slot'[w].paper \in Papers

\* Where an entry that is over leaves its goroutine.
LEMMA EntryOverShape ==
  ASSUME HarvestTypeOK, NEW w \in Writers, EntryOver(w), slot[w].step # "idle"
  PROVE  SlotMoves(w) /\ slot'[w].step \in {"idle", "next"}
  <1> DEFINE s == IF w \in Uploaders THEN IdleSlot
                  ELSE [Blank("next", slot[w].categories) EXCEPT !.todo = slot[w].todo]
  <1>1. slot' = [slot EXCEPT ![w] = s]
    BY DEF EntryOver
  <1>2. slot'[w] = s
    BY <1>1 DEF HarvestTypeOK
  <1>3. s \in Slots \cup {IdleSlot} /\ s.step \in {"idle", "next"}
    BY SlotShape DEF Blank, IdleSlot, Slots
  <1>4. QED
    BY <1>1, <1>2, <1>3 DEF SlotMoves, HasKey, HasPaper

\* Every step of a pass or an upload keeps the slots' types.
LEMMA StepKeepsSlots ==
  ASSUME HarvestTypeOK, NEW w \in Writers,
         StartHarvest(w) \/ StartUpload(w) \/ IngestStep(w) \/ CallFails(w) \/ PassLost(w)
  PROVE  SlotMoves(w)
  <1> USE DEF HarvestTypeOK, SlotMoves, HasKey, HasPaper
  <1>1. CASE StartHarvest(w) \/ StartUpload(w)
    <2>a. \A n \in 0..MaxCategories, t \in {"next", "put"} : Blank(t, n) \in Slots /\ Blank(t, n).step = t
      BY DEF Blank, Slots, IngestSteps
    <2>1. PICK s \in Slots : Begin(w, s) /\ s.step \in {"next", "put"}
      <3>1. CASE StartUpload(w)
        <4>1. 0 \in 0..MaxCategories
          BY BoundAssumption
        <4>2. QED
          BY <2>a, <3>1, <4>1 DEF StartUpload
      <3>2. CASE StartHarvest(w)
        <4>1. PICK n \in 1..MaxCategories : Begin(w, Blank("next", n))
          BY <3>2 DEF StartHarvest
        <4>2. n \in 0..MaxCategories
          BY BoundAssumption
        <4>3. QED
          BY <2>a, <4>1, <4>2
      <3>3. QED
        BY <1>1, <3>1, <3>2
    <2>2. QED
      BY <2>1 DEF Begin
  <1>2. CASE FetchRecent(w)
    <2>1. PICK feed \in SUBSET Entries :
            slot' = [slot EXCEPT ![w].categories = @ - 1, ![w].todo = feed]
      BY <1>2, Zenon DEF FetchRecent
    <2> DEFINE s == [slot[w] EXCEPT !.categories = @ - 1, !.todo = feed]
    <2>2. slot[w].categories - 1 \in 0..MaxCategories
      BY <1>2, SlotShape, BoundAssumption DEF FetchRecent, At
    <2>3. s \in Slots /\ s.step = "next"
      <3>1. slot[w] \in Slots /\ slot[w].step = "next"
        BY <1>2, SlotShape DEF FetchRecent, At
      <3>2. QED
        BY <2>2, <3>1 DEF Slots
    <2>4. slot' = [slot EXCEPT ![w] = s] /\ slot'[w] = s
      BY <2>1
    <2>5. QED
      BY <2>3, <2>4
  <1>3. CASE CheckKnown(w)
    <2>1. PICK e \in slot[w].todo :
            \/ slot' = [slot EXCEPT ![w].todo = @ \ {e}]
            \/ slot' = [slot EXCEPT ![w].todo = @ \ {e}, ![w].entry = e, ![w].step = "download"]
      <3>1. PICK e \in slot[w].todo :
              slot' = IF Known(e) THEN [slot EXCEPT ![w].todo = @ \ {e}]
                      ELSE [slot EXCEPT ![w].todo = @ \ {e}, ![w].entry = e, ![w].step = "download"]
        BY <1>3, Zenon DEF CheckKnown
      <3>2. QED
        BY <3>1, Zenon
    <2> DEFINE s == [slot[w] EXCEPT !.todo = @ \ {e}]
               t == [slot[w] EXCEPT !.todo = @ \ {e}, !.entry = e, !.step = "download"]
    <2>2. slot[w] \in Slots /\ slot[w].todo \subseteq Entries
      BY <1>3, SlotShape DEF CheckKnown, At
    <2>3. s \in Slots /\ s.step = "next"
      BY <1>3, <2>2 DEF CheckKnown, At, Slots
    <2>4. t \in Slots /\ t.step = "download"
      BY <2>2 DEF Slots
    <2>5. \/ slot' = [slot EXCEPT ![w] = s] /\ slot'[w] = s
          \/ slot' = [slot EXCEPT ![w] = t] /\ slot'[w] = t
      BY <2>1
    <2>6. QED
      BY <2>3, <2>4, <2>5
  <1>4. CASE Download(w)
    <2>1. CASE slot' = [slot EXCEPT ![w].step = "put"]
      BY <1>4, <2>1, SlotShape DEF Download, At, Slots, IdleSlot, IngestSteps
    <2>2. CASE EntryOver(w)
      BY <1>4, <2>2, EntryOverShape DEF Download, At
    <2>3. QED
      BY <1>4, <2>1, <2>2 DEF Download
  <1>5. CASE EndHarvest(w) \/ PassLost(w)
    BY <1>5 DEF EndHarvest, PassLost, IdleSlot
  <1>6. CASE PutPDF(w)
    <2>1. PICK k \in Keys : slot' = [slot EXCEPT ![w].step = "createPaper", ![w].key = k]
      <3>1. PICK k \in One({n \in Keys : UnusedKey(n)}) :
              slot' = [slot EXCEPT ![w].step = "createPaper", ![w].key = k]
        BY <1>6, Zenon DEF PutPDF
      <3>2. k \in {n \in Keys : UnusedKey(n)}
        BY <3>1, OneOfThem, Zenon
      <3>3. QED
        <4>1. k \in Keys
          BY <3>2
        <4>2. QED
          BY <3>1, <4>1, Zenon
    <2> DEFINE s == [slot[w] EXCEPT !.step = "createPaper", !.key = k]
    <2>2. s \in Slots /\ s.step = "createPaper" /\ s.key = k
      <3>1. slot[w] \in Slots
        BY <1>6, SlotShape DEF PutPDF, At
      <3>2. QED
        BY <3>1 DEF Slots, IngestSteps
    <2>3. slot' = [slot EXCEPT ![w] = s] /\ slot'[w] = s
      BY <2>1
    <2>4. QED
      BY <2>2, <2>3
  <1>7. CASE CreatePaper(w)
    <2>1. CASE EntryOver(w)
      BY <1>7, <2>1, EntryOverShape DEF CreatePaper, At
    <2>2. CASE ~EntryOver(w)
      <3>1. PICK p \in Papers : slot' = [slot EXCEPT ![w].step = "createAsset", ![w].paper = p]
        BY <1>7, <2>2, OneOfThem DEF CreatePaper, UnusedIds
      <3> DEFINE s == [slot[w] EXCEPT !.step = "createAsset", !.paper = p]
      <3>2. slot[w].key \in Keys
        BY <1>7 DEF CreatePaper, At
      <3>3. s \in Slots /\ s.step = "createAsset" /\ s.key \in Keys /\ s.paper = p
        <4>1. slot[w] \in Slots
          BY <1>7, SlotShape DEF CreatePaper, At
        <4>2. QED
          BY <3>2, <4>1 DEF Slots, IngestSteps
      <3>4. slot' = [slot EXCEPT ![w] = s] /\ slot'[w] = s
        BY <3>1
      <3>5. QED
        BY <3>3, <3>4
    <2>3. QED
      BY <2>1, <2>2
  <1>8. CASE CreateAsset(w) \/ CreateJob(w) \/ EnqueueProcessing(w) \/ CallFails(w)
    <2>1. slot[w].step \in IngestSteps
      BY <1>8 DEF CreateAsset, CreateJob, EnqueueProcessing, CallFails, At, IngestSteps
    <2>2. CASE EntryOver(w)
      BY <2>1, <2>2, EntryOverShape DEF IngestSteps
    <2>3. CASE ~EntryOver(w)
      <3>1. \/ At(w, "createAsset") /\ slot' = [slot EXCEPT ![w].step = "createJob"]
            \/ At(w, "createJob") /\ slot' = [slot EXCEPT ![w].step = "enqueue"]
        BY <1>8, <2>3 DEF CreateAsset, CreateJob, EnqueueProcessing, CallFails
      <3>2. QED
        BY <2>1, <3>1, SlotShape DEF At, Slots, IngestSteps
    <2>4. QED
      BY <2>2, <2>3
  <1>9. QED
    BY <1>1, <1>2, <1>3, <1>4, <1>5, <1>6, <1>7, <1>8 DEF IngestStep

\* What each step of a goroutine leaves of the store.
LEMMA StepKeepsStore ==
  ASSUME HarvestTypeOK, NEW w \in Writers,
         StartHarvest(w) \/ StartUpload(w) \/ IngestStep(w) \/ CallFails(w) \/ PassLost(w)
  PROVE  /\ StoreTypeOK' /\ source' \in [Papers -> Entries \cup {None}]
         /\ jobs' \subseteq Papers /\ enqueued' \subseteq Papers
         /\ passes' \in 0..MaxPasses /\ faults' \in 0..MaxFaults
  <1> USE BoundAssumption DEF HarvestTypeOK, StoreTypeOK
  <1>1. CASE StartHarvest(w) \/ StartUpload(w)
    <2>1. \E s \in {Blank(t, n) : t \in {"next", "put"}, n \in 0..MaxCategories} : Begin(w, s)
      BY <1>1 DEF StartHarvest, StartUpload
    <2>2. QED
      BY <2>1 DEF Begin, storeVars
  <1>2. CASE FetchRecent(w) \/ CheckKnown(w) \/ Download(w) \/ EndHarvest(w)
    <2>1. UNCHANGED <<storeVars, source, jobs, enqueued>> /\ Quiet
      BY <1>2, Zenon DEF FetchRecent, CheckKnown, Download, EndHarvest
    <2>2. QED
      BY <2>1 DEF storeVars, Quiet
  <1>3. CASE PutPDF(w)
    <2>1. PICK k \in Keys : PutObject(k)
      BY <1>3, OneOfThem DEF PutPDF
    <2>2. QED
      BY <1>3, <2>1 DEF PutPDF, PutObject, Quiet
  <1>4. CASE CreatePaper(w)
    <2>1. \/ UNCHANGED <<row, source>>
          \/ \E p \in Papers : /\ row' = [row EXCEPT ![p] = "present"]
                             /\ source' = [source EXCEPT ![p] = slot[w].entry]
      BY <1>4, OneOfThem DEF CreatePaper, UnusedIds
    <2>2. slot[w].entry \in Entries \cup {None}
      BY <1>4, SlotShape DEF CreatePaper, At
    <2>3. QED
      BY <1>4, <2>1, <2>2 DEF CreatePaper, Quiet
  <1>5. CASE CreateAsset(w)
    <2>1. slot[w].paper \in Papers /\ slot[w].key \in Keys
      BY <1>5 DEF CreateAsset, At, HasPaper, HasKey
    <2>2. Asset(slot[w].paper, slot[w].key, w) \in [paper : Papers, key : Keys, by : Writers]
      BY <2>1 DEF Asset
    <2>3. QED
      BY <1>5, <2>2 DEF CreateAsset, CreatePaperAsset, storeVars, Quiet
  <1>6. CASE CreateJob(w) \/ EnqueueProcessing(w)
    <2>1. slot[w].paper \in Papers
      BY <1>6 DEF CreateJob, EnqueueProcessing, At, HasPaper
    <2>2. QED
      BY <1>6, <2>1 DEF CreateJob, EnqueueProcessing, storeVars, Quiet
  <1>7. CASE CallFails(w) \/ PassLost(w)
    BY <1>7 DEF CallFails, PassLost, Fault, storeVars
  <1>8. QED
    BY <1>1, <1>2, <1>3, <1>4, <1>5, <1>6, <1>7 DEF IngestStep

\* A deletion keeps the types as well, and inserts nothing.
LEMMA DeletionShape ==
  ASSUME HarvestTypeOK, NEW d \in Deleters, deletion[d].step # "idle"
  PROVE  /\ deletion[d] \in [step : {"deleteRow", "removeObjects"}, paper : Papers, keys : SUBSET Keys]
         /\ deletion[d] # IdleDeletion
         /\ deletion[d].paper \in Papers /\ deletion[d].keys \subseteq Keys
  BY DEF HarvestTypeOK, StoreTypeOK, IdleDeletion

Deletions == [step : {"deleteRow", "removeObjects"}, paper : Papers, keys : SUBSET Keys]
             \cup {IdleDeletion}

LEMMA DeletionMoves ==
  ASSUME HarvestTypeOK, NEW d \in Deleters, NEW r \in Deletions,
         deletion' = [deletion EXCEPT ![d] = r]
  PROVE  deletion' \in [Deleters -> Deletions]
  <1>1. deletion \in [Deleters -> Deletions]
    BY DEF HarvestTypeOK, StoreTypeOK, Deletions
  <1>2. QED
    BY <1>1

LEMMA DeletionKeepsStore ==
  ASSUME HarvestTypeOK, NEW d \in Deleters, Delete(d) \/ DeleteFails(d)
  PROVE  StoreTypeOK' /\ jobs' \subseteq jobs
  <1> DEFINE Tables == /\ row' \in [Papers -> {"absent", "present", "deleted"}]
                       /\ assets' \subseteq assets /\ objects' \subseteq objects
  <1>1. ASSUME NEW p \in Papers, ListPaperAssets(d, p)
        PROVE  Tables /\ deletion' \in [Deleters -> Deletions]
    <2> DEFINE r == [step |-> "deleteRow", paper |-> p, keys |-> AssetKeys(p)]
    <2>1. r \in Deletions
      BY DEF HarvestTypeOK, StoreTypeOK, AssetKeys, Deletions
    <2>2. deletion' = [deletion EXCEPT ![d] = r]
      BY <1>1 DEF ListPaperAssets
    <2>3. Tables
      BY <1>1 DEF ListPaperAssets, HarvestTypeOK, StoreTypeOK
    <2>4. QED
      BY <2>1, <2>2, <2>3, DeletionMoves
  <1>2. ASSUME DeletePaperRow(d)
        PROVE  Tables /\ deletion' \in [Deleters -> Deletions]
    <2>1. deletion[d].step = "deleteRow"
      BY <1>2 DEF DeletePaperRow
    <2> DEFINE r == IF deletion[d].keys = {} THEN IdleDeletion
                    ELSE [deletion[d] EXCEPT !.step = "removeObjects"]
    <2>2. deletion' = [deletion EXCEPT ![d] = r] \/ deletion' = [deletion EXCEPT ![d] = IdleDeletion]
      BY <1>2 DEF DeletePaperRow
    <2>3. r \in Deletions /\ IdleDeletion \in Deletions
      BY <2>1, DeletionShape DEF Deletions
    <2>4. Tables
      BY <1>2 DEF DeletePaperRow, HarvestTypeOK, StoreTypeOK
    <2>5. QED
      <3>1. PICK s \in Deletions : deletion' = [deletion EXCEPT ![d] = s]
        BY <2>2, <2>3
      <3>2. QED
        BY <2>4, <3>1, DeletionMoves
  <1>3. ASSUME RemoveObject(d) \/ RemoveFails(d)
        PROVE  Tables /\ deletion' \in [Deleters -> Deletions]
    <2>1. deletion[d].step = "removeObjects" /\ UNCHANGED <<row, assets>> /\ objects' \subseteq objects
      BY <1>3 DEF RemoveObject, RemoveFails
    <2>2. PICK k \in deletion[d].keys : DropKey(d, k)
      BY <1>3 DEF RemoveObject, RemoveFails
    <2> DEFINE r == IF deletion[d].keys = {k} THEN IdleDeletion
                    ELSE [deletion[d] EXCEPT !.keys = @ \ {k}]
    <2>3. r \in Deletions
      BY <2>1, DeletionShape DEF Deletions
    <2>4. deletion' = [deletion EXCEPT ![d] = r]
      BY <2>2 DEF DropKey
    <2>5. Tables
      BY <2>1 DEF HarvestTypeOK, StoreTypeOK
    <2>6. QED
      <3>1. PICK s \in Deletions : deletion' = [deletion EXCEPT ![d] = s]
        BY <2>3, <2>4
      <3>2. QED
        BY <2>5, <3>1, DeletionMoves
  <1>4. ASSUME DeletionFails(d)
        PROVE  Tables /\ deletion' \in [Deleters -> Deletions]
    <2>1. deletion' = [deletion EXCEPT ![d] = IdleDeletion] /\ Tables
      BY <1>4 DEF DeletionFails, HarvestTypeOK, StoreTypeOK
    <2>2. QED
      <3>1. PICK s \in Deletions : deletion' = [deletion EXCEPT ![d] = s]
        BY <2>1 DEF Deletions
      <3>2. QED
        BY <2>1, <3>1, DeletionMoves
  <1>5. Tables /\ deletion' \in [Deleters -> Deletions]
    BY <1>1, <1>2, <1>3, <1>4 DEF Delete, DeleteFails
  <1>6. StoreTypeOK'
    BY <1>5 DEF HarvestTypeOK, StoreTypeOK, Deletions
  <1>7. jobs' \subseteq jobs
    BY DEF Delete, DeleteFails
  <1>8. QED
    BY <1>6, <1>7

\* The types hold in every state, for any number of ids, goroutines, passes and
\* faults: a slot past its Put holds a key, one past its insert holds a paper.
THEOREM HarvestTypeCorrect == Spec => []HarvestTypeOK
  <1>1. Init => HarvestTypeOK
    BY BoundAssumption DEF Init, HarvestTypeOK, StoreTypeOK, HasKey, HasPaper, IdleSlot
  <1>2. HarvestTypeOK /\ [Next]_vars => HarvestTypeOK'
    <2> SUFFICES ASSUME HarvestTypeOK, [Next]_vars
                 PROVE  HarvestTypeOK'
      OBVIOUS
    <2>1. ASSUME NEW w \in Writers,
                 StartHarvest(w) \/ StartUpload(w) \/ IngestStep(w) \/ CallFails(w) \/ PassLost(w)
          PROVE  HarvestTypeOK'
      <3>1. SlotMoves(w)
        BY <2>1, StepKeepsSlots
      <3>2. \A v \in Writers : v # w => slot'[v] = slot[v]
        BY <3>1 DEF SlotMoves, HarvestTypeOK
      <3>3. slot' \in [Writers -> Slots \cup {IdleSlot}]
        BY <3>1 DEF SlotMoves, HarvestTypeOK
      <3>4. QED
        BY <2>1, <3>1, <3>2, <3>3, StepKeepsStore DEF HarvestTypeOK, SlotMoves
    <2>2. ASSUME NEW d \in Deleters, Delete(d) \/ DeleteFails(d)
          PROVE  HarvestTypeOK'
      <3>1. UNCHANGED <<source, enqueued, slot, passes>> /\ faults' \in 0..MaxFaults
        BY <2>2, BoundAssumption DEF Delete, DeleteFails, Quiet, Fault, HarvestTypeOK
      <3>2. QED
        BY <2>2, <3>1, DeletionKeepsStore DEF HarvestTypeOK
    <2>3. CASE UNCHANGED vars
      BY <2>3 DEF vars, HarvestTypeOK, StoreTypeOK
    <2>4. QED
      BY <2>1, <2>2, <2>3 DEF Next
  <1>3. QED
    BY <1>1, <1>2, PTL DEF Spec

-----------------------------------------------------------------------------
(* One paper per arXiv id.                                                 *)

\* What a step does to the papers' rows: it inserts one of a source that is not
\* known, for the goroutine that took it there; or it takes rows away.
LEMMA PaperRows ==
  ASSUME HarvestTypeOK, [Next]_vars
  PROVE  \/ /\ source' = source
            /\ \A p \in Papers : row'[p] = row[p] \/ (row[p] = "present" /\ row'[p] = "deleted")
         \/ \E w \in Writers, p \in Papers :
              /\ CreatePaper(w) /\ row[p] = "absent" /\ ~Known(slot[w].entry)
              /\ row' = [row EXCEPT ![p] = "present"]
              /\ source' = [source EXCEPT ![p] = slot[w].entry]
              /\ slot' = [slot EXCEPT ![w].step = "createAsset", ![w].paper = p]
  <1> DEFINE Same == source' = source /\ row' = row
  <1>1. ASSUME NEW w \in Writers, CreatePaper(w), ~Same
        PROVE  \E p \in Papers :
                 /\ row[p] = "absent" /\ ~Known(slot[w].entry)
                 /\ row' = [row EXCEPT ![p] = "present"]
                 /\ source' = [source EXCEPT ![p] = slot[w].entry]
                 /\ slot' = [slot EXCEPT ![w].step = "createAsset", ![w].paper = p]
    <2>1. PICK p \in One(UnusedIds) :
            /\ ~Known(slot[w].entry)
            /\ row' = [row EXCEPT ![p] = "present"]
            /\ source' = [source EXCEPT ![p] = slot[w].entry]
            /\ slot' = [slot EXCEPT ![w].step = "createAsset", ![w].paper = p]
      BY <1>1 DEF CreatePaper
    <2>2. p \in UnusedIds
      BY <2>1, OneOfThem
    <2>3. p \in Papers /\ row[p] = "absent"
      BY <2>2 DEF UnusedIds
    <2>4. QED
      BY <2>1, <2>3
  <1>2. ASSUME NEW w \in Writers,
               StartHarvest(w) \/ StartUpload(w) \/ CallFails(w) \/ PassLost(w)
        PROVE  Same
    BY <1>2 DEF StartHarvest, StartUpload, Begin, CallFails, PassLost, storeVars
  <1>3. ASSUME NEW w \in Writers, IngestStep(w), ~CreatePaper(w)
        PROVE  Same
    <2>1. CASE FetchRecent(w) \/ CheckKnown(w) \/ Download(w) \/ EndHarvest(w)
      BY <2>1, Zenon DEF FetchRecent, CheckKnown, Download, EndHarvest, storeVars
    <2>2. CASE PutPDF(w)
      BY <2>2 DEF PutPDF, PutObject
    <2>3. CASE CreateAsset(w) \/ CreateJob(w) \/ EnqueueProcessing(w)
      BY <2>3 DEF CreateAsset, CreatePaperAsset, CreateJob, EnqueueProcessing, storeVars
    <2>4. QED
      BY <1>3, <2>1, <2>2, <2>3 DEF IngestStep
  <1>4. ASSUME NEW d \in Deleters, Delete(d) \/ DeleteFails(d)
        PROVE  /\ source' = source
               /\ \A p \in Papers : row'[p] = row[p] \/ (row[p] = "present" /\ row'[p] = "deleted")
    <2>1. source' = source
      BY <1>4 DEF Delete, DeleteFails
    <2>2. CASE DeletePaperRow(d)
      BY <2>1, <2>2 DEF DeletePaperRow, Present, HarvestTypeOK, StoreTypeOK
    <2>3. CASE ~DeletePaperRow(d)
      <3>1. row' = row
        BY <1>4, <2>3 DEF Delete, DeleteFails, ListPaperAssets, RemoveObject, RemoveFails, DeletionFails
      <3>2. QED
        BY <2>1, <3>1
    <2>4. QED
      BY <2>2, <2>3
  <1>5. CASE UNCHANGED vars
    BY <1>5 DEF vars
  <1>6. QED
    <2>1. CASE \E d \in Deleters : Delete(d) \/ DeleteFails(d)
      BY <1>4, <2>1
    <2>2. CASE Same
      BY <2>2
    <2>3. CASE ~Same /\ \E w \in Writers : StartHarvest(w) \/ StartUpload(w) \/ IngestStep(w)
                                           \/ CallFails(w) \/ PassLost(w)
      BY <1>1, <1>2, <1>3, <2>3
    <2>4. QED
      BY <1>5, <2>1, <2>2, <2>3 DEF Next

\* However many passes have all seen an arXiv id unknown, one paper of it comes
\* into being: the unique index refuses the second insert.
THEOREM OnePaperPerSourceHolds == Spec => []OnePaperPerSource
  <1>1. Init => OnePaperPerSource
    BY DEF Init, OnePaperPerSource
  <1>2. HarvestTypeOK /\ OnePaperPerSource /\ [Next]_vars => OnePaperPerSource'
    <2> SUFFICES ASSUME HarvestTypeOK, OnePaperPerSource, [Next]_vars
                 PROVE  OnePaperPerSource'
      OBVIOUS
    <2>1. CASE /\ source' = source
               /\ \A p \in Papers : row'[p] = row[p] \/ (row[p] = "present" /\ row'[p] = "deleted")
      BY <2>1 DEF OnePaperPerSource, Present
    <2>2. ASSUME NEW w \in Writers, NEW n \in Papers, ~Known(slot[w].entry),
                 row' = [row EXCEPT ![n] = "present"],
                 source' = [source EXCEPT ![n] = slot[w].entry]
          PROVE  OnePaperPerSource'
      <3>1. \A p \in Papers : p # n => row'[p] = row[p] /\ source'[p] = source[p]
        BY <2>2 DEF HarvestTypeOK, StoreTypeOK
      <3>2. source'[n] = slot[w].entry
        BY <2>2 DEF HarvestTypeOK
      <3>3. QED
        BY <2>2, <3>1, <3>2 DEF OnePaperPerSource, Present, Known
    <2>3. QED
      BY <2>1, <2>2, PaperRows
  <1>3. QED
    BY <1>1, <1>2, HarvestTypeCorrect, PTL DEF Spec

-----------------------------------------------------------------------------
(* No asset row without its object.                                        *)

\* Between its Put and its row of paper_assets an ingest's object has no row.
Storing(w) == slot[w].step \in {"createPaper", "createAsset"}

\* Keys belong to one paper at most, and a deletion gets to the objects only once
\* the rows that name them are gone.
FilesInv ==
  /\ AssetHasObject
  /\ \A a, b \in assets : a.key = b.key => a.paper = b.paper
  /\ \A w \in Writers : Storing(w) =>
       /\ slot[w].key \in objects /\ ~Removing(slot[w].key)
       /\ \A a \in assets : a.key # slot[w].key
  /\ \A v, w \in Writers : Storing(v) /\ Storing(w) /\ slot[v].key = slot[w].key => v = w
  /\ \A d \in Deleters, a \in assets :
       deletion[d] # IdleDeletion /\ a.key \in deletion[d].keys =>
         deletion[d].step = "deleteRow" /\ a.paper = deletion[d].paper

\* The steps of passes and uploads that neither store nor record a file.
LEMMA OtherStepsStoreNothing ==
  ASSUME HarvestTypeOK, NEW w \in Writers,
         StartHarvest(w) \/ StartUpload(w) \/ IngestStep(w) \/ CallFails(w) \/ PassLost(w),
         ~PutPDF(w)
  PROVE  \/ /\ UNCHANGED <<assets, objects, deletion>>
            /\ \A v \in Writers : Storing(v)' => Storing(v) /\ slot'[v].key = slot[v].key
         \/ /\ Storing(w) /\ ~Storing(w)' /\ UNCHANGED <<objects, deletion>>
            /\ assets' = assets \cup {Asset(slot[w].paper, slot[w].key, w)}
            /\ \A v \in Writers : v # w => slot'[v] = slot[v]
  <1>o. \A v \in Writers : v # w => slot'[v] = slot[v]
    BY StepKeepsSlots DEF SlotMoves, HarvestTypeOK
  <1> USE DEF Storing
  <1>1. CASE StartHarvest(w) \/ StartUpload(w)
    <2>1. \E s \in {Blank(t, n) : t \in {"next", "put"}, n \in 0..MaxCategories} : Begin(w, s)
      BY <1>1, BoundAssumption DEF StartHarvest, StartUpload
    <2>2. PICK t \in {"next", "put"}, n \in 0..MaxCategories : Begin(w, Blank(t, n))
      BY <2>1
    <2>3. slot'[w].step = t /\ UNCHANGED <<assets, objects, deletion>>
      BY <2>2 DEF Begin, Blank, storeVars, HarvestTypeOK
    <2>4. QED
      BY <1>o, <2>3
  <1>2. CASE EntryOver(w) \/ EndHarvest(w) \/ PassLost(w)
    <2>1. slot'[w].step \in {"idle", "next"}
      BY <1>2 DEF EntryOver, Blank, EndHarvest, PassLost, IdleSlot, HarvestTypeOK
    <2>2. \/ UNCHANGED <<assets, objects, deletion>>
          \/ CreateAsset(w) /\ Present(slot[w].paper)
      <3>1. CASE EntryOver(w) /\ IngestStep(w)
        <4>1. CASE FetchRecent(w) \/ CheckKnown(w) \/ Download(w) \/ EndHarvest(w)
          BY <4>1, Zenon DEF FetchRecent, CheckKnown, Download, EndHarvest, storeVars
        <4>2. CASE CreatePaper(w) \/ CreateJob(w) \/ EnqueueProcessing(w)
          BY <4>2 DEF CreatePaper, CreateJob, EnqueueProcessing, storeVars
        <4>3. CASE CreateAsset(w)
          BY <4>3 DEF CreateAsset, CreatePaperAsset, storeVars
        <4>4. QED
          BY <3>1, <4>1, <4>2, <4>3 DEF IngestStep
      <3>2. CASE EndHarvest(w) \/ PassLost(w) \/ CallFails(w)
        BY <3>2 DEF EndHarvest, PassLost, CallFails, storeVars
      <3>3. CASE StartHarvest(w) \/ StartUpload(w)
        BY <3>3 DEF StartHarvest, StartUpload, Begin, storeVars
      <3>4. QED
        BY <1>2, <3>1, <3>2, <3>3
    <2>3. CASE CreateAsset(w) /\ Present(slot[w].paper)
      <3>1. slot[w].step = "createAsset"
        BY <2>3 DEF CreateAsset, At
      <3>2. CASE UNCHANGED storeVars
        BY <1>o, <2>1, <3>2 DEF storeVars
      <3>3. CASE CreatePaperAsset(slot[w].paper, slot[w].key, w)
        BY <1>o, <2>1, <3>1, <3>3 DEF CreatePaperAsset
      <3>4. QED
        BY <2>3, <3>2, <3>3 DEF CreateAsset
    <2>4. QED
      BY <1>o, <2>1, <2>2, <2>3
  <1>3. CASE FetchRecent(w) \/ CheckKnown(w) \/ (Download(w) /\ ~EntryOver(w))
    <2>1. UNCHANGED <<assets, objects, deletion>>
      BY <1>3, Zenon DEF FetchRecent, CheckKnown, Download, storeVars
    <2>2. slot'[w].step \in {"next", "download", "put"}
      <3>1. CASE FetchRecent(w)
        <4>1. slot[w].step = "next"
          BY <3>1 DEF FetchRecent, At
        <4>2. PICK feed \in SUBSET Entries :
                slot' = [slot EXCEPT ![w].categories = @ - 1, ![w].todo = feed]
          BY <3>1, Zenon DEF FetchRecent
        <4>3. QED
          BY <4>1, <4>2, SlotShape DEF HarvestTypeOK, Slots
      <3>2. CASE CheckKnown(w)
        <4>1. slot[w].step = "next"
          BY <3>2 DEF CheckKnown, At
        <4>2. PICK e \in slot[w].todo :
                slot' = IF Known(e) THEN [slot EXCEPT ![w].todo = @ \ {e}]
                        ELSE [slot EXCEPT ![w].todo = @ \ {e}, ![w].entry = e, ![w].step = "download"]
          BY <3>2, Zenon DEF CheckKnown
        <4>3. QED
          BY <4>1, <4>2, SlotShape DEF HarvestTypeOK, Slots
      <3>3. CASE Download(w) /\ ~EntryOver(w)
        BY <3>3, SlotShape DEF Download, At, HarvestTypeOK, Slots
      <3>4. QED
        BY <1>3, <3>1, <3>2, <3>3
    <2>3. QED
      BY <1>o, <2>1, <2>2
  <1>4. CASE (CreatePaper(w) \/ CreateJob(w) \/ EnqueueProcessing(w)) /\ ~EntryOver(w)
    <2>1. UNCHANGED <<assets, objects, deletion>>
      BY <1>4 DEF CreatePaper, CreateJob, EnqueueProcessing, storeVars
    <2>2. CASE CreatePaper(w)
      <3>1. PICK p : slot' = [slot EXCEPT ![w].step = "createAsset", ![w].paper = p]
        BY <1>4, <2>2 DEF CreatePaper
      <3>2. slot[w].step = "createPaper"
        BY <2>2 DEF CreatePaper, At
      <3>3. slot'[w].key = slot[w].key
        BY <3>1, <3>2, SlotShape DEF HarvestTypeOK, Slots
      <3>4. QED
        BY <1>o, <2>1, <3>2, <3>3
    <2>3. CASE CreateJob(w)
      <3>1. slot[w].step = "createJob" /\ slot' = [slot EXCEPT ![w].step = "enqueue"]
        BY <1>4, <2>3 DEF CreateJob, At
      <3>2. slot'[w].step = "enqueue"
        BY <3>1, SlotShape DEF HarvestTypeOK, Slots
      <3>3. QED
        BY <1>o, <2>1, <3>2
    <2>4. QED
      BY <1>4, <2>2, <2>3 DEF EnqueueProcessing
  <1>5. CASE CreateAsset(w) /\ ~EntryOver(w)
    <2>1. slot[w].step = "createAsset" /\ slot' = [slot EXCEPT ![w].step = "createJob"]
      BY <1>5 DEF CreateAsset, At
    <2>2. slot'[w].step = "createJob"
      BY <2>1, SlotShape DEF HarvestTypeOK, Slots
    <2>3. QED
      BY <1>5, <1>o, <2>1, <2>2 DEF CreateAsset, CreatePaperAsset
  <1>6. CASE CallFails(w)
    BY <1>2, <1>6 DEF CallFails
  <1>7. QED
    BY <1>1, <1>2, <1>3, <1>4, <1>5, <1>6 DEF IngestStep

\* A Put stores the object under a key that nothing has and no one removes.
LEMMA PutKeepsFiles ==
  ASSUME HarvestTypeOK, FilesInv, NEW w \in Writers, PutPDF(w)
  PROVE  FilesInv'
  <1>1. PICK k \in One({n \in Keys : UnusedKey(n)}) :
          PutObject(k) /\ slot' = [slot EXCEPT ![w].step = "createPaper", ![w].key = k]
    BY Zenon DEF PutPDF
  <1>2. k \in {n \in Keys : UnusedKey(n)}
    BY <1>1, OneOfThem, Zenon
  <1>3. k \in Keys /\ UnusedKey(k)
    BY <1>2
  <1>4. slot[w] \in Slots
    BY SlotShape DEF PutPDF, At
  <1>5. slot'[w].key = k /\ \A v \in Writers : v # w => slot'[v] = slot[v]
    BY <1>1, <1>4 DEF HarvestTypeOK, Slots
  <1>6. \A v \in Writers : v # w /\ Storing(v) => slot[v].key # k
    BY <1>3 DEF UnusedKey, Storing, IdleSlot
  <1>7. UNCHANGED <<assets, deletion>> /\ objects' = objects \cup {k}
    BY <1>1 DEF PutObject
  <1>8. ~Removing(k) /\ \A a \in assets : a.key # k
    BY <1>3 DEF UnusedKey
  <1>9. AssetHasObject'
    BY <1>7 DEF FilesInv, AssetHasObject
  <1>10. \A v \in Writers : Storing(v)' =>
           /\ slot'[v].key \in objects' /\ ~Removing(slot'[v].key)
           /\ \A a \in assets : a.key # slot'[v].key
    BY <1>5, <1>7, <1>8 DEF FilesInv, Storing
  <1>11. \A u, v \in Writers :
           Storing(u)' /\ Storing(v)' /\ slot'[u].key = slot'[v].key => u = v
    BY <1>5, <1>6 DEF FilesInv, Storing
  <1>12. QED
    BY <1>7, <1>9, <1>10, <1>11 DEF FilesInv, Removing

\* A file gets its row while it is there and no deletion holds its key.
LEMMA RowKeepsFiles ==
  ASSUME HarvestTypeOK, FilesInv, NEW w \in Writers,
         Storing(w), ~Storing(w)', UNCHANGED <<objects, deletion>>,
         assets' = assets \cup {Asset(slot[w].paper, slot[w].key, w)},
         \A v \in Writers : v # w => slot'[v] = slot[v]
  PROVE  FilesInv'
  <1> DEFINE new == Asset(slot[w].paper, slot[w].key, w)
  <1>1. new.key = slot[w].key /\ assets' = assets \cup {new}
    BY DEF Asset
  <1>2. AssetHasObject'
    BY <1>1 DEF FilesInv, AssetHasObject
  <1>3. \A a, b \in assets' : a.key = b.key => a.paper = b.paper
    BY <1>1 DEF FilesInv
  <1>4. \A v \in Writers : Storing(v)' => v # w /\ Storing(v) /\ slot'[v] = slot[v]
    BY DEF Storing
  <1>5. \A v \in Writers : Storing(v)' =>
          /\ slot'[v].key \in objects' /\ ~Removing(slot'[v].key)
          /\ \A a \in assets' : a.key # slot'[v].key
    BY <1>1, <1>4 DEF FilesInv
  <1>6. \A u, v \in Writers :
          Storing(u)' /\ Storing(v)' /\ slot'[u].key = slot'[v].key => u = v
    BY <1>4 DEF FilesInv
  <1>7. \A d \in Deleters, a \in assets' :
          deletion[d] # IdleDeletion /\ a.key \in deletion[d].keys =>
            deletion[d].step = "deleteRow" /\ a.paper = deletion[d].paper
    BY <1>1 DEF FilesInv, Removing
  <1>8. QED
    BY <1>2, <1>3, <1>5, <1>6, <1>7 DEF FilesInv, Removing

\* A deletion removes objects after the rows that name them, for it has listed
\* keys of its own paper only.
LEMMA DeletionKeepsFiles ==
  ASSUME HarvestTypeOK, FilesInv, NEW d \in Deleters, Delete(d) \/ DeleteFails(d)
  PROVE  FilesInv'
  <1>1. slot' = slot
    BY DEF Delete, DeleteFails
  <1>2. deletion \in [Deleters -> Deletions]
    BY DEF HarvestTypeOK, StoreTypeOK, Deletions
  <1> USE DEF FilesInv, AssetHasObject, Removing, Storing
  <1>3. ASSUME NEW p \in Papers, ListPaperAssets(d, p)
        PROVE  FilesInv'
    <2> DEFINE r == [step |-> "deleteRow", paper |-> p, keys |-> AssetKeys(p)]
    <2>1. deletion'[d] = r /\ \A e \in Deleters : e # d => deletion'[e] = deletion[e]
      BY <1>2, <1>3 DEF ListPaperAssets
    <2>2. UNCHANGED <<assets, objects>>
      BY <1>3 DEF ListPaperAssets
    <2>3. \A k \in AssetKeys(p) : \E a \in assets : a.key = k /\ a.paper = p
      BY DEF AssetKeys
    <2>4. \A w \in Writers : Storing(w) => ~Removing(slot[w].key)'
      BY <1>1, <2>1, <2>3
    <2>5. \A e \in Deleters, a \in assets :
            deletion'[e] # IdleDeletion /\ a.key \in deletion'[e].keys =>
              deletion'[e].step = "deleteRow" /\ a.paper = deletion'[e].paper
      BY <2>1, <2>3
    <2>6. QED
      BY <1>1, <2>2, <2>4, <2>5
  <1>4. CASE DeletePaperRow(d)
    <2>1. deletion[d].step = "deleteRow" /\ deletion[d] # IdleDeletion /\ objects' = objects
      BY <1>4 DEF DeletePaperRow, IdleDeletion
    <2>2. \A e \in Deleters : e # d => deletion'[e] = deletion[e]
      BY <1>2, <1>4 DEF DeletePaperRow
    <2>3. assets' \subseteq assets
      BY <1>4 DEF DeletePaperRow
    <2>4. deletion'[d] # IdleDeletion =>
            deletion'[d].keys = deletion[d].keys /\ \A a \in assets' : a.paper # deletion[d].paper
      BY <1>2, <1>4, <2>1, DeletionShape DEF DeletePaperRow, IdleDeletion
    <2>5. \A w \in Writers : Storing(w) => ~Removing(slot[w].key)'
      BY <1>1, <2>1, <2>2, <2>4
    <2>6. \A e \in Deleters, a \in assets' :
            deletion'[e] # IdleDeletion /\ a.key \in deletion'[e].keys =>
              deletion'[e].step = "deleteRow" /\ a.paper = deletion'[e].paper
      BY <2>1, <2>2, <2>3, <2>4
    <2>7. QED
      BY <1>1, <2>1, <2>3, <2>5, <2>6
  <1>5. CASE RemoveObject(d) \/ RemoveFails(d)
    <2>1. deletion[d].step = "removeObjects" /\ deletion[d] # IdleDeletion /\ assets' = assets
      BY <1>5 DEF RemoveObject, RemoveFails, IdleDeletion
    <2>2. PICK k \in deletion[d].keys : DropKey(d, k) /\ objects' \in {objects, objects \ {k}}
      BY <1>5 DEF RemoveObject, RemoveFails
    <2>3. \A e \in Deleters : e # d => deletion'[e] = deletion[e]
      BY <1>2, <2>2 DEF DropKey
    <2>4. deletion'[d] # IdleDeletion =>
            /\ deletion'[d].keys \subseteq deletion[d].keys
            /\ deletion'[d].step = "removeObjects"
      BY <1>2, <2>1, <2>2, DeletionShape DEF DropKey
    <2>5. \A a \in assets : a.key # k
      BY <2>1, <2>2
    <2>6. \A w \in Writers : Storing(w) => slot[w].key # k /\ ~Removing(slot[w].key)'
      BY <1>1, <2>1, <2>2, <2>3, <2>4
    <2>7. \A e \in Deleters, a \in assets :
            deletion'[e] # IdleDeletion /\ a.key \in deletion'[e].keys =>
              deletion'[e].step = "deleteRow" /\ a.paper = deletion'[e].paper
      BY <2>1, <2>3, <2>4
    <2>8. QED
      BY <1>1, <2>1, <2>2, <2>5, <2>6, <2>7
  <1>6. CASE DeletionFails(d)
    <2>1. /\ deletion'[d] = IdleDeletion /\ \A e \in Deleters : e # d => deletion'[e] = deletion[e]
          /\ UNCHANGED <<assets, objects>>
      BY <1>2, <1>6 DEF DeletionFails
    <2>2. QED
      BY <1>1, <2>1
  <1>7. QED
    BY <1>3, <1>4, <1>5, <1>6 DEF Delete, DeleteFails

\* A row of paper_assets names an object the store has, however ingests and any
\* number of deletions interleave and fail.
THEOREM AssetHasObjectHolds == Spec => []AssetHasObject
  <1>1. Init => FilesInv
    BY DEF Init, FilesInv, AssetHasObject, Storing, IdleSlot
  <1>2. HarvestTypeOK /\ FilesInv /\ [Next]_vars => FilesInv'
    <2> SUFFICES ASSUME HarvestTypeOK, FilesInv, [Next]_vars
                 PROVE  FilesInv'
      OBVIOUS
    <2>1. ASSUME NEW w \in Writers,
                 StartHarvest(w) \/ StartUpload(w) \/ IngestStep(w) \/ CallFails(w) \/ PassLost(w)
          PROVE  FilesInv'
      <3>1. CASE PutPDF(w)
        BY <3>1, PutKeepsFiles
      <3>2. CASE /\ UNCHANGED <<assets, objects, deletion>>
                 /\ \A v \in Writers : Storing(v)' => Storing(v) /\ slot'[v].key = slot[v].key
        BY <3>2 DEF FilesInv, AssetHasObject, Removing
      <3>3. QED
        BY <2>1, <3>1, <3>2, OtherStepsStoreNothing, RowKeepsFiles
    <2>2. CASE UNCHANGED vars
      BY <2>2 DEF vars, FilesInv, AssetHasObject, Removing, Storing
    <2>3. QED
      BY <2>1, <2>2, DeletionKeepsFiles DEF Next
  <1>3. FilesInv => AssetHasObject
    BY DEF FilesInv
  <1>4. QED
    BY <1>1, <1>2, <1>3, HarvestTypeCorrect, PTL DEF Spec

-----------------------------------------------------------------------------
(* A fault strands one paper at most.                                      *)

Carries(w) == slot[w].step \in HasPaper

\* Goroutines past the insert of their paper have one each, which was inserted;
\* the one about to enqueue has seen its job inserted.
IngestInv ==
  /\ \A w \in Writers : Carries(w) => row[slot[w].paper] # "absent"
  /\ \A v, w \in Writers : Carries(v) /\ Carries(w) /\ slot[v].paper = slot[w].paper => v = w
  /\ \A w \in Writers : At(w, "enqueue") /\ Present(slot[w].paper) => slot[w].paper \in jobs

\* What a step of goroutine w does to the papers in hand.
NothingInHand(w) ==
  ~Carries(w) /\ ~Carries(w)' /\ UNCHANGED <<row, jobs, enqueued>> /\ faults' \in {faults, faults + 1}
TakesUp(w, p) ==
  /\ ~Carries(w) /\ slot'[w].step = "createAsset" /\ slot'[w].paper = p
  /\ row[p] = "absent" /\ row' = [row EXCEPT ![p] = "present"]
  /\ UNCHANGED <<jobs, enqueued, faults>>
CarriesOn(w) ==
  /\ Carries(w) /\ slot'[w].paper = slot[w].paper /\ UNCHANGED <<row, enqueued, faults>>
  /\ \/ slot'[w].step = "createJob" /\ jobs' = jobs
     \/ slot'[w].step = "enqueue" /\ jobs' = jobs \cup {slot[w].paper} /\ Present(slot[w].paper)
FindsItGone(w) ==
  Carries(w) /\ ~Carries(w)' /\ ~Present(slot[w].paper) /\ UNCHANGED <<row, jobs, enqueued, faults>>
HandsOver(w) ==
  /\ At(w, "enqueue") /\ ~Carries(w)' /\ UNCHANGED <<row, jobs, faults>>
  /\ enqueued' = enqueued \cup {slot[w].paper}
Drops(w) ==
  Carries(w) /\ ~Carries(w)' /\ UNCHANGED <<row, jobs, enqueued>> /\ faults' = faults + 1

LEMMA InHand ==
  ASSUME HarvestTypeOK, NEW w \in Writers,
         StartHarvest(w) \/ StartUpload(w) \/ IngestStep(w) \/ CallFails(w) \/ PassLost(w)
  PROVE  \/ NothingInHand(w) \/ CarriesOn(w) \/ FindsItGone(w) \/ HandsOver(w) \/ Drops(w)
         \/ \E p \in Papers : TakesUp(w, p)
  <1> USE DEF Carries, HasPaper
  <1>e. ASSUME EntryOver(w) \/ slot' = [slot EXCEPT ![w] = IdleSlot]
        PROVE  ~Carries(w)'
    BY <1>e DEF EntryOver, Blank, IdleSlot, HarvestTypeOK
  <1>1. CASE StartHarvest(w) \/ StartUpload(w)
    <2>1. \E s \in {Blank(t, n) : t \in {"next", "put"}, n \in 0..MaxCategories} : Begin(w, s)
      BY <1>1, BoundAssumption DEF StartHarvest, StartUpload
    <2>2. PICK t \in {"next", "put"}, n \in 0..MaxCategories : Begin(w, Blank(t, n))
      BY <2>1
    <2>3. slot[w].step = "idle" /\ slot'[w].step = t /\ UNCHANGED <<row, jobs, enqueued, faults>>
      BY <2>2 DEF Begin, Blank, storeVars, IdleSlot, HarvestTypeOK
    <2>4. QED
      BY <2>3 DEF NothingInHand
  <1>2. CASE FetchRecent(w) \/ CheckKnown(w)
    <2>1. slot[w].step = "next" /\ UNCHANGED <<row, jobs, enqueued, faults>>
      BY <1>2, Zenon DEF FetchRecent, CheckKnown, At, storeVars, Quiet
    <2>2. slot'[w].step \in {"next", "download"}
      <3>1. CASE FetchRecent(w)
        <4>1. PICK feed \in SUBSET Entries :
                slot' = [slot EXCEPT ![w].categories = @ - 1, ![w].todo = feed]
          BY <3>1, Zenon DEF FetchRecent
        <4>2. QED
          BY <2>1, <4>1, SlotShape DEF HarvestTypeOK, Slots
      <3>2. CASE CheckKnown(w)
        <4>1. PICK e \in slot[w].todo :
                slot' = IF Known(e) THEN [slot EXCEPT ![w].todo = @ \ {e}]
                        ELSE [slot EXCEPT ![w].todo = @ \ {e}, ![w].entry = e, ![w].step = "download"]
          BY <3>2, Zenon DEF CheckKnown
        <4>2. QED
          BY <2>1, <4>1, SlotShape DEF HarvestTypeOK, Slots
      <3>3. QED
        BY <1>2, <3>1, <3>2
    <2>3. QED
      BY <2>1, <2>2 DEF NothingInHand
  <1>3. CASE Download(w) \/ EndHarvest(w)
    <2>1. slot[w].step \in {"next", "download"} /\ UNCHANGED <<row, jobs, enqueued, faults>>
      BY <1>3 DEF Download, EndHarvest, At, storeVars, Quiet
    <2>2. EntryOver(w) \/ slot' = [slot EXCEPT ![w] = IdleSlot] \/ slot' = [slot EXCEPT ![w].step = "put"]
      BY <1>3 DEF Download, EndHarvest
    <2>3. ~Carries(w)'
      BY <1>e, <2>1, <2>2, SlotShape DEF HarvestTypeOK, Slots
    <2>4. QED
      BY <2>1, <2>3 DEF NothingInHand
  <1>4. CASE PutPDF(w)
    <2>1. slot[w].step = "put" /\ UNCHANGED <<jobs, enqueued, faults>>
      BY <1>4 DEF PutPDF, At, Quiet
    <2>2. PICK k \in One({n \in Keys : UnusedKey(n)}) :
            PutObject(k) /\ slot' = [slot EXCEPT ![w].step = "createPaper", ![w].key = k]
      BY <1>4, Zenon DEF PutPDF
    <2>3. slot'[w].step = "createPaper" /\ row' = row
      BY <2>1, <2>2, SlotShape DEF HarvestTypeOK, Slots, PutObject
    <2>4. QED
      BY <2>1, <2>3 DEF NothingInHand
  <1>5. CASE CreatePaper(w)
    <2>1. slot[w].step = "createPaper" /\ UNCHANGED <<jobs, enqueued, faults>>
      BY <1>5 DEF CreatePaper, At, Quiet
    <2>2. CASE EntryOver(w) /\ row' = row
      BY <1>e, <2>1, <2>2 DEF NothingInHand
    <2>3. CASE ~(EntryOver(w) /\ row' = row)
      <3>1. PICK p \in One(UnusedIds) :
              /\ row' = [row EXCEPT ![p] = "present"]
              /\ slot' = [slot EXCEPT ![w].step = "createAsset", ![w].paper = p]
        BY <1>5, <2>3 DEF CreatePaper
      <3>2. p \in UnusedIds
        BY <3>1, OneOfThem
      <3>3. p \in Papers /\ row[p] = "absent"
        BY <3>2 DEF UnusedIds
      <3>4. slot'[w].step = "createAsset" /\ slot'[w].paper = p
        BY <2>1, <3>1, SlotShape DEF HarvestTypeOK, Slots
      <3>5. QED
        BY <2>1, <3>1, <3>3, <3>4 DEF TakesUp
    <2>4. QED
      BY <2>2, <2>3
  <1>6. CASE CreateAsset(w) \/ CreateJob(w)
    <2>1. Carries(w) /\ UNCHANGED <<row, enqueued, faults>>
      BY <1>6 DEF CreateAsset, CreatePaperAsset, CreateJob, At, storeVars, Quiet
    <2>2. CASE EntryOver(w)
      <3>1. ~Present(slot[w].paper) /\ jobs' = jobs
        <4>1. ~Carries(w)'
          BY <1>e, <2>2
        <4>2. slot' # [slot EXCEPT ![w].step = "createJob"] /\ slot' # [slot EXCEPT ![w].step = "enqueue"]
          BY <2>1, <4>1, SlotShape DEF HarvestTypeOK, Slots
        <4>3. QED
          BY <1>6, <4>2 DEF CreateAsset, CreateJob
      <3>2. QED
        BY <1>e, <2>1, <2>2, <3>1 DEF FindsItGone
    <2>3. CASE ~EntryOver(w)
      <3>1. \/ slot' = [slot EXCEPT ![w].step = "createJob"] /\ jobs' = jobs
            \/ /\ slot' = [slot EXCEPT ![w].step = "enqueue"]
               /\ jobs' = jobs \cup {slot[w].paper} /\ Present(slot[w].paper)
        BY <1>6, <2>3 DEF CreateAsset, CreateJob
      <3>2. slot[w] \in Slots
        BY <2>1, SlotShape
      <3>3. QED
        BY <2>1, <3>1, <3>2 DEF CarriesOn, HarvestTypeOK, Slots
    <2>4. QED
      BY <2>2, <2>3
  <1>7. CASE EnqueueProcessing(w)
    BY <1>e, <1>7 DEF EnqueueProcessing, HandsOver, storeVars, Quiet
  <1>8. CASE CallFails(w) \/ PassLost(w)
    <2>1. ~Carries(w)' /\ UNCHANGED <<row, jobs, enqueued>> /\ faults' = faults + 1
      BY <1>e, <1>8 DEF CallFails, PassLost, Fault, storeVars
    <2>2. QED
      BY <2>1 DEF NothingInHand, Drops
  <1>9. QED
    BY <1>1, <1>2, <1>3, <1>4, <1>5, <1>6, <1>7, <1>8 DEF IngestStep

\* A deletion takes the job with its paper and leaves the goroutines alone.
LEMMA DeletionTakesJobs ==
  ASSUME HarvestTypeOK, NEW d \in Deleters, Delete(d) \/ DeleteFails(d)
  PROVE  /\ UNCHANGED <<slot, enqueued>> /\ faults' \in {faults, faults + 1}
         /\ \A p \in Papers : row'[p] = row[p] \/ (row[p] = "present" /\ row'[p] = "deleted")
         /\ \A p \in Papers : p \in jobs /\ row'[p] = "present" => p \in jobs'
  <1>1. UNCHANGED <<slot, enqueued>> /\ faults' \in {faults, faults + 1}
    BY DEF Delete, DeleteFails, Quiet, Fault
  <1>2. \A p \in Papers : row'[p] = row[p] \/ (row[p] = "present" /\ row'[p] = "deleted")
    <2>1. CASE DeletePaperRow(d)
      BY <2>1 DEF DeletePaperRow, Present, HarvestTypeOK, StoreTypeOK
    <2>2. CASE ~DeletePaperRow(d)
      <3>1. row' = row
        BY <2>2 DEF Delete, DeleteFails, ListPaperAssets, RemoveObject, RemoveFails, DeletionFails
      <3>2. QED
        BY <3>1
    <2>3. QED
      BY <2>1, <2>2
  <1>3. \A p \in Papers : p \in jobs /\ row'[p] = "present" => p \in jobs'
    BY DEF Delete, DeleteFails
  <1>4. QED
    BY <1>1, <1>2, <1>3

LEMMA IngestInvStep ==
  ASSUME HarvestTypeOK, IngestInv, [Next]_vars
  PROVE  IngestInv'
  <1> USE DEF IngestInv, Carries, At, HasPaper, Present
  <1>1. ASSUME NEW w \in Writers,
               StartHarvest(w) \/ StartUpload(w) \/ IngestStep(w) \/ CallFails(w) \/ PassLost(w)
        PROVE  IngestInv'
    <2>o. \A v \in Writers : v # w => slot'[v] = slot[v]
      BY <1>1, StepKeepsSlots DEF SlotMoves, HarvestTypeOK
    <2>p. \A v \in Writers : Carries(v) => slot[v].paper \in Papers
      BY DEF HarvestTypeOK
    <2>1. CASE NothingInHand(w)
      BY <2>o, <2>1 DEF NothingInHand
    <2>2. CASE FindsItGone(w) \/ HandsOver(w) \/ Drops(w)
      BY <2>o, <2>2 DEF FindsItGone, HandsOver, Drops
    <2>3. CASE CarriesOn(w)
      BY <2>o, <2>3 DEF CarriesOn
    <2>4. ASSUME NEW p \in Papers, TakesUp(w, p)
          PROVE  IngestInv'
      <3>1. \A v \in Writers : v # w /\ Carries(v) => slot[v].paper # p
        BY <2>4 DEF TakesUp
      <3>2. \A q \in Papers : row'[q] = IF q = p THEN "present" ELSE row[q]
        BY <2>4 DEF TakesUp, HarvestTypeOK, StoreTypeOK
      <3>3. QED
        BY <2>o, <2>p, <2>4, <3>1, <3>2 DEF TakesUp
    <2>5. QED
      BY <1>1, <2>1, <2>2, <2>3, <2>4, InHand
  <1>2. ASSUME NEW d \in Deleters, Delete(d) \/ DeleteFails(d)
        PROVE  IngestInv'
    <2>1. \A v \in Writers : Carries(v) => slot[v].paper \in Papers
      BY DEF HarvestTypeOK
    <2>2. QED
      BY <1>2, <2>1, DeletionTakesJobs
  <1>3. CASE UNCHANGED vars
    BY <1>3 DEF vars
  <1>4. QED
    BY <1>1, <1>2, <1>3 DEF Next

\* Only a fault strands a paper, and it strands the one its goroutine had in hand.
LEMMA StrandedStep ==
  ASSUME HarvestTypeOK, IngestInv, [Next]_vars
  PROVE  \/ Stranded' \subseteq Stranded /\ faults' \in {faults, faults + 1}
         \/ faults' = faults + 1 /\ \E p : Stranded' \subseteq Stranded \cup {p}
  <1> USE DEF Carries, At, HasPaper, Present, Stranded, Ingesting
  <1>1. ASSUME NEW w \in Writers,
               StartHarvest(w) \/ StartUpload(w) \/ IngestStep(w) \/ CallFails(w) \/ PassLost(w)
        PROVE  \/ Stranded' \subseteq Stranded /\ faults' \in {faults, faults + 1}
               \/ faults' = faults + 1 /\ \E p : Stranded' \subseteq Stranded \cup {p}
    <2>o. \A v \in Writers : v # w => slot'[v] = slot[v]
      BY <1>1, StepKeepsSlots DEF SlotMoves, HarvestTypeOK
    <2>1. CASE NothingInHand(w)
      BY <2>o, <2>1 DEF NothingInHand
    <2>2. CASE FindsItGone(w)
      BY <2>o, <2>2 DEF FindsItGone
    <2>3. CASE HandsOver(w)
      <3>1. Present(slot[w].paper) => slot[w].paper \in jobs
        BY <2>3 DEF HandsOver, IngestInv
      <3>2. UNCHANGED <<row, jobs>> /\ enqueued' = enqueued \cup {slot[w].paper}
        BY <2>3 DEF HandsOver
      <3>3. Stranded' \subseteq Stranded
        BY <2>o, <3>1, <3>2
      <3>4. QED
        BY <2>3, <3>3 DEF HandsOver
    <2>4. CASE Drops(w)
      <3>1. Stranded' \subseteq Stranded \cup {slot[w].paper}
        BY <2>o, <2>4 DEF Drops
      <3>2. QED
        BY <2>4, <3>1 DEF Drops
    <2>5. CASE CarriesOn(w)
      BY <2>o, <2>5 DEF CarriesOn
    <2>6. ASSUME NEW p \in Papers, TakesUp(w, p)
          PROVE  Stranded' \subseteq Stranded /\ faults' = faults
      <3>1. Ingesting(p)'
        BY <2>6 DEF TakesUp
      <3>2. \A q \in Papers : q # p => row'[q] = row[q]
        BY <2>6 DEF TakesUp, HarvestTypeOK, StoreTypeOK
      <3>3. \A q \in Papers : Ingesting(q) => Ingesting(q)'
        BY <2>o, <2>6 DEF TakesUp
      <3>4. QED
        BY <2>6, <3>1, <3>2, <3>3 DEF TakesUp
    <2>7. QED
      BY <1>1, <2>1, <2>2, <2>3, <2>4, <2>5, <2>6, InHand
  <1>2. ASSUME NEW d \in Deleters, Delete(d) \/ DeleteFails(d)
        PROVE  Stranded' \subseteq Stranded /\ faults' \in {faults, faults + 1}
    BY <1>2, DeletionTakesJobs
  <1>3. CASE UNCHANGED vars
    BY <1>3 DEF vars
  <1>4. QED
    BY <1>1, <1>2, <1>3 DEF Next

\* However many calls fail or passes are lost on their way, each leaves behind at
\* most one paper that no task will process.
THEOREM FaultsStrandOnePaperEachHolds == Spec => []FaultsStrandOnePaperEach
  <1>f. HarvestTypeOK => IsFiniteSet(Stranded) /\ Cardinality(Stranded) \in Nat /\ faults \in Nat
    <2> SUFFICES ASSUME HarvestTypeOK
                 PROVE  IsFiniteSet(Stranded) /\ Cardinality(Stranded) \in Nat /\ faults \in Nat
      OBVIOUS
    <2>1. Stranded \subseteq Papers
      BY DEF Stranded
    <2>2. IsFiniteSet(Stranded)
      BY <2>1, StoreAssumption, FS_Subset
    <2>3. QED
      BY <2>2, FS_CardinalityType, BoundAssumption DEF HarvestTypeOK
  <1>1. Init => IngestInv /\ FaultsStrandOnePaperEach
    <2> SUFFICES ASSUME Init
                 PROVE  IngestInv /\ FaultsStrandOnePaperEach
      OBVIOUS
    <2>1. Stranded = {} /\ faults = 0
      BY DEF Init, Stranded, Present
    <2>2. IngestInv
      BY DEF Init, IngestInv, Carries, At, HasPaper, IdleSlot
    <2>3. QED
      BY <2>1, <2>2, FS_EmptySet DEF FaultsStrandOnePaperEach
  <1>2. HarvestTypeOK /\ HarvestTypeOK' /\ IngestInv /\ FaultsStrandOnePaperEach /\ [Next]_vars
          => FaultsStrandOnePaperEach'
    <2> SUFFICES ASSUME HarvestTypeOK, HarvestTypeOK', IngestInv, FaultsStrandOnePaperEach, [Next]_vars
                 PROVE  Cardinality(Stranded') <= faults'
      BY DEF FaultsStrandOnePaperEach
    <2>1. /\ IsFiniteSet(Stranded) /\ Cardinality(Stranded) \in Nat /\ faults \in Nat
          /\ IsFiniteSet(Stranded') /\ Cardinality(Stranded') \in Nat
          /\ Cardinality(Stranded) <= faults
      BY <1>f, FS_Subset, StoreAssumption, FS_CardinalityType DEF FaultsStrandOnePaperEach, Stranded
    <2>2. CASE Stranded' \subseteq Stranded /\ faults' \in {faults, faults + 1}
      <3>1. Cardinality(Stranded') <= Cardinality(Stranded)
        BY <2>1, <2>2, FS_Subset
      <3>2. QED
        BY <2>1, <2>2, <3>1
    <2>3. ASSUME NEW p, Stranded' \subseteq Stranded \cup {p}, faults' = faults + 1
          PROVE  Cardinality(Stranded') <= faults'
      <3>1. /\ IsFiniteSet(Stranded \cup {p})
            /\ Cardinality(Stranded \cup {p}) \in {Cardinality(Stranded), Cardinality(Stranded) + 1}
        BY <2>1, FS_AddElement
      <3>2. Cardinality(Stranded') <= Cardinality(Stranded \cup {p})
        BY <2>3, <3>1, FS_Subset
      <3>3. QED
        BY <2>1, <2>3, <3>1, <3>2
    <2>4. QED
      BY <2>2, <2>3, StrandedStep
  <1>3. QED
    BY <1>1, <1>2, IngestInvStep, HarvestTypeCorrect, PTL DEF Spec
-----------------------------------------------------------------------------
(* Passes, uploads and deletions implement Intake.                         *)

\* A job is of a paper that is there.
JobsHavePapers == \A p \in jobs : Present(p)

\* What a paper looks like to Intake.
LEMMA IntakeIs ==
  ASSUME HarvestTypeOK, NEW p \in Papers
  PROVE  /\ row[p] = "absent" => IntakeOf(p) = "none"
         /\ row[p] = "deleted" => IntakeOf(p) = "removed"
         /\ row[p] = "present" /\ p \in jobs /\ p \in enqueued => IntakeOf(p) = "ready"
         /\ row[p] = "present" /\ ~(p \in jobs /\ p \in enqueued) /\ Ingesting(p)
              => IntakeOf(p) = "arriving"
         /\ row[p] = "present" /\ ~(p \in jobs /\ p \in enqueued) /\ ~Ingesting(p)
              => IntakeOf(p) = "stranded"
         /\ row[p] \in {"absent", "present", "deleted"}
  <1>1. row[p] \in {"absent", "present", "deleted"}
    BY DEF HarvestTypeOK, StoreTypeOK
  <1>2. QED
    BY <1>1 DEF IntakeOf, Present, Stranded

\* The same after a step.
LEMMA IntakeWillBe ==
  ASSUME HarvestTypeOK', NEW p \in Papers
  PROVE  /\ row'[p] = "absent" => IntakeOf(p)' = "none"
         /\ row'[p] = "deleted" => IntakeOf(p)' = "removed"
         /\ row'[p] = "present" /\ p \in jobs' /\ p \in enqueued' => IntakeOf(p)' = "ready"
         /\ row'[p] = "present" /\ ~(p \in jobs' /\ p \in enqueued') /\ Ingesting(p)'
              => IntakeOf(p)' = "arriving"
         /\ row'[p] = "present" /\ ~(p \in jobs' /\ p \in enqueued') /\ ~Ingesting(p)'
              => IntakeOf(p)' = "stranded"
  <1>1. row'[p] \in {"absent", "present", "deleted"}
    BY DEF HarvestTypeOK, StoreTypeOK
  <1>2. QED
    BY <1>1 DEF IntakeOf, Present, Stranded

\* A paper looks as before when its rows, its task and its ingest are as before.
LEMMA IntakeKept ==
  ASSUME HarvestTypeOK, HarvestTypeOK', NEW p \in Papers, row'[p] = row[p],
         row[p] = "present" => /\ p \in jobs' <=> p \in jobs
                               /\ p \in enqueued' <=> p \in enqueued
                               /\ Ingesting(p)' <=> Ingesting(p)
  PROVE  IntakeOf(p)' = IntakeOf(p)
  BY IntakeIs, IntakeWillBe

\* What happens to one paper is a step of Intake.
LEMMA StepsOfIntake ==
  ASSUME NEW q \in Papers, \A p \in Papers : p # q => IntakeOf(p)' = IntakeOf(p)
  PROVE  /\ /\ IntakeOf(q) = "arriving" /\ IntakeOf(q)' = "ready"
            /\ UNCHANGED <<source, faults>>
            => Arrival!Complete(q)
         /\ /\ IntakeOf(q) \in {"arriving", "ready", "stranded"} /\ IntakeOf(q)' = "removed"
            /\ UNCHANGED <<source, faults>>
            => Arrival!Remove(q)
         /\ /\ \/ IntakeOf(q) = "arriving" /\ IntakeOf(q)' = "stranded"
               \/ IntakeOf(q)' = IntakeOf(q)
            /\ source' = source /\ faults' = faults + 1
            => Arrival!Lose
         /\ IntakeOf(q)' = IntakeOf(q) /\ UNCHANGED <<source, faults>> => UNCHANGED Arrival!vars
  <1> DEFINE f == [p \in Papers |-> IntakeOf(p)]
             g == [p \in Papers |-> IntakeOf(p)']
  <1>1. ASSUME NEW s, IntakeOf(q)' = s
        PROVE  g = [f EXCEPT ![q] = s]
    BY <1>1
  <1>2. IntakeOf(q)' = IntakeOf(q) => g = f
    OBVIOUS
  <1>3. f[q] = IntakeOf(q)
    OBVIOUS
  <1>4. QED
    BY <1>1, <1>2, <1>3 DEF Arrival!Complete, Arrival!Remove, Arrival!Lose, Arrival!vars, Arrival!Strand,
                            Arrival!Become, Arrival!Held

\* JobsHavePapers is inductive.
LEMMA JobsHavePapersStep ==
  ASSUME HarvestTypeOK, IngestInv, JobsHavePapers, [Next]_vars
  PROVE  JobsHavePapers'
  <1> USE DEF JobsHavePapers, Present
  <1>1. ASSUME NEW w \in Writers,
               StartHarvest(w) \/ StartUpload(w) \/ IngestStep(w) \/ CallFails(w) \/ PassLost(w)
        PROVE  JobsHavePapers'
    <2>1. CASE NothingInHand(w) \/ FindsItGone(w) \/ HandsOver(w) \/ Drops(w)
      BY <2>1 DEF NothingInHand, FindsItGone, HandsOver, Drops
    <2>2. CASE CarriesOn(w)
      BY <2>2 DEF CarriesOn
    <2>3. ASSUME NEW p \in Papers, TakesUp(w, p)
          PROVE  JobsHavePapers'
      BY <2>3 DEF TakesUp, HarvestTypeOK, StoreTypeOK
    <2>4. QED
      BY <1>1, <2>1, <2>2, <2>3, InHand
  <1>2. ASSUME NEW d \in Deleters, Delete(d) \/ DeleteFails(d)
        PROVE  JobsHavePapers'
    <2>1. CASE Delete(d)
      BY <2>1 DEF Delete
    <2>2. CASE DeleteFails(d)
      BY <2>2 DEF DeleteFails, RemoveFails, DeletionFails
    <2>3. QED
      BY <1>2, <2>1, <2>2
  <1>3. CASE UNCHANGED vars
    BY <1>3 DEF vars
  <1>4. QED
    BY <1>1, <1>2, <1>3 DEF Next

\* A deletion removes one paper or none, and nothing else happens to papers.
LEMMA DeletionMaps ==
  ASSUME HarvestTypeOK, HarvestTypeOK', JobsHavePapers,
         NEW d \in Deleters, Delete(d) \/ DeleteFails(d)
  PROVE  [Arrival!Next]_(Arrival!vars)
  <1> USE DEF Present
  <1>1. UNCHANGED <<source, slot, enqueued>>
    BY DEF Delete, DeleteFails
  <1>2. \A p \in Papers : Ingesting(p)' <=> Ingesting(p)
    BY <1>1 DEF Ingesting
  <1>3. \A p \in Papers : row'[p] = "present" => (p \in jobs' <=> p \in jobs)
    BY DEF Delete, DeleteFails
  <1>4. CASE row' = row
    <2>1. \A p \in Papers : IntakeOf(p)' = IntakeOf(p)
      BY <1>1, <1>2, <1>3, <1>4, IntakeKept
    <2>2. CASE faults' = faults
      <3>1. UNCHANGED Arrival!vars
        BY <1>1, <2>1, <2>2 DEF Arrival!vars
      <3>2. QED
        BY <3>1
    <2>3. CASE faults' = faults + 1
      <3>1. Arrival!Lose
        BY <1>1, <2>1, <2>3 DEF Arrival!Lose
      <3>2. QED
        BY <3>1 DEF Arrival!Next
    <2>4. QED
      BY <2>2, <2>3 DEF Delete, DeleteFails, Quiet, Fault
  <1>5. CASE row' # row
    <2>1. DeletePaperRow(d) /\ faults' = faults
      BY <1>5 DEF Delete, DeleteFails, ListPaperAssets, RemoveObject, RemoveFails, DeletionFails, Quiet
    <2>2. PICK q : q = deletion[d].paper
      OBVIOUS
    <2>3. row[q] = "present" /\ row' = [row EXCEPT ![q] = "deleted"]
      BY <1>5, <2>1, <2>2 DEF DeletePaperRow
    <2>4. q \in Papers
      BY <1>5, <2>3 DEF HarvestTypeOK, StoreTypeOK
    <2>5. row'[q] = "deleted" /\ \A p \in Papers : p # q => row'[p] = row[p]
      BY <2>3, <2>4 DEF HarvestTypeOK, StoreTypeOK
    <2>6. \A p \in Papers : p # q => IntakeOf(p)' = IntakeOf(p)
      BY <1>1, <1>2, <1>3, <2>5, IntakeKept
    <2>7. IntakeOf(q) \in {"arriving", "ready", "stranded"} /\ IntakeOf(q)' = "removed"
      BY <2>3, <2>4, <2>5, IntakeIs, IntakeWillBe
    <2>8. Arrival!Remove(q)
      BY <1>1, <2>1, <2>4, <2>6, <2>7, StepsOfIntake
    <2>9. QED
      BY <2>4, <2>8 DEF Arrival!Next
  <1>6. QED
    BY <1>4, <1>5
\* A step of an ingest takes a paper in, completes or strands the one in hand, or is
\* nothing to Intake.
LEMMA IngestMaps ==
  ASSUME HarvestTypeOK, HarvestTypeOK', IngestInv, JobsHavePapers, [Next]_vars, NEW w \in Writers,
         StartHarvest(w) \/ StartUpload(w) \/ IngestStep(w) \/ CallFails(w) \/ PassLost(w)
  PROVE  [Arrival!Next]_(Arrival!vars)
  <1>o. \A v \in Writers : v # w => slot'[v] = slot[v]
    BY StepKeepsSlots DEF SlotMoves, HarvestTypeOK
  <1>s. row' = row => source' = source
    BY PaperRows DEF HarvestTypeOK, StoreTypeOK
  <1>p. \A v \in Writers : Carries(v) => slot[v].paper \in Papers
    BY DEF HarvestTypeOK, Carries
  <1>1. CASE NothingInHand(w) \/ FindsItGone(w)
    <2>1. UNCHANGED <<row, jobs, enqueued, source>> /\ faults' \in {faults, faults + 1}
      BY <1>1, <1>s DEF NothingInHand, FindsItGone
    <2>2. \A p \in Papers : row[p] = "present" => (Ingesting(p)' <=> Ingesting(p))
      BY <1>1, <1>o DEF NothingInHand, FindsItGone, Ingesting, Carries, Present
    <2>3. \A p \in Papers : IntakeOf(p)' = IntakeOf(p)
      BY <2>1, <2>2, IntakeKept
    <2>4. CASE faults' = faults
      <3>1. UNCHANGED Arrival!vars
        BY <2>1, <2>3, <2>4 DEF Arrival!vars
      <3>2. QED
        BY <3>1
    <2>5. CASE faults' = faults + 1
      <3>1. Arrival!Lose
        BY <2>1, <2>3, <2>5 DEF Arrival!Lose
      <3>2. QED
        BY <3>1 DEF Arrival!Next
    <2>6. QED
      BY <2>1, <2>4, <2>5
  <1>2. ASSUME Carries(w), CarriesOn(w) \/ HandsOver(w) \/ Drops(w)
        PROVE  [Arrival!Next]_(Arrival!vars)
    <2> PICK q : q = slot[w].paper
      OBVIOUS
    <2>1. q \in Papers /\ row' = row /\ source' = source /\ Ingesting(q)
      BY <1>2, <1>p, <1>s DEF CarriesOn, HandsOver, Drops, Ingesting, Carries
    <2>2. \A p \in Papers : p # q => (Ingesting(p)' <=> Ingesting(p))
      BY <1>2, <1>o DEF CarriesOn, HandsOver, Drops, Ingesting, Carries, HasPaper
    <2>3. \A p \in Papers : p # q => (p \in jobs' <=> p \in jobs) /\ (p \in enqueued' <=> p \in enqueued)
      BY <1>2 DEF CarriesOn, HandsOver, Drops
    <2>4. \A p \in Papers : p # q => IntakeOf(p)' = IntakeOf(p)
      BY <2>1, <2>2, <2>3, IntakeKept
    <2>5. CASE row[q] # "present"
      <3>1. IntakeOf(q)' = IntakeOf(q)
        BY <2>1, <2>5, IntakeKept
      <3>2. faults' \in {faults, faults + 1}
        BY <1>2 DEF CarriesOn, HandsOver, Drops
      <3>3. QED
        BY <2>1, <2>4, <3>1, <3>2, StepsOfIntake DEF Arrival!Next
    <2>6. CASE row[q] = "present" /\ q \in jobs /\ q \in enqueued
      <3>1. q \in jobs' /\ q \in enqueued' /\ faults' \in {faults, faults + 1}
        BY <1>2, <2>6 DEF CarriesOn, HandsOver, Drops
      <3>2. IntakeOf(q)' = IntakeOf(q)
        BY <2>1, <2>6, <3>1, IntakeIs, IntakeWillBe
      <3>3. QED
        BY <2>1, <2>4, <3>1, <3>2, StepsOfIntake DEF Arrival!Next
    <2>7. CASE row[q] = "present" /\ ~(q \in jobs /\ q \in enqueued)
      <3>1. IntakeOf(q) = "arriving"
        BY <2>1, <2>7, IntakeIs
      <3>2. CASE CarriesOn(w)
        <4>1. Ingesting(q)' /\ faults' = faults
          BY <3>2 DEF CarriesOn, Ingesting, HasPaper
        <4>2. IntakeOf(q)' \in {"arriving", "ready"}
          BY <2>1, <2>7, <4>1, IntakeWillBe
        <4>3. QED
          BY <2>1, <2>4, <3>1, <4>1, <4>2, StepsOfIntake DEF Arrival!Next
      <3>3. CASE HandsOver(w)
        <4>1. q \in jobs' /\ q \in enqueued' /\ faults' = faults
          BY <2>7, <3>3 DEF HandsOver, IngestInv, Present
        <4>2. IntakeOf(q)' = "ready"
          BY <2>1, <2>7, <4>1, IntakeWillBe
        <4>3. QED
          BY <2>1, <2>4, <3>1, <4>1, <4>2, StepsOfIntake DEF Arrival!Next
      <3>4. CASE Drops(w)
        <4>1. UNCHANGED <<jobs, enqueued>> /\ faults' = faults + 1
          BY <3>4 DEF Drops
        <4>2. ~Ingesting(q)'
          BY <1>2, <1>o, <3>4 DEF Drops, IngestInv, Ingesting, Carries
        <4>3. IntakeOf(q)' = "stranded"
          BY <2>1, <2>7, <4>1, <4>2, IntakeWillBe
        <4>4. QED
          BY <2>1, <2>4, <3>1, <4>1, <4>3, StepsOfIntake DEF Arrival!Next
      <3>5. QED
        BY <1>2, <3>2, <3>3, <3>4
    <2>8. QED
      BY <2>5, <2>6, <2>7
  <1>3. ASSUME NEW q \in Papers, TakesUp(w, q)
        PROVE  Arrival!Next
    <2>1. /\ ~Carries(w) /\ row[q] = "absent" /\ row'[q] = "present"
          /\ \A p \in Papers : p # q => row'[p] = row[p]
          /\ UNCHANGED <<jobs, enqueued, faults>> /\ Ingesting(q)'
      BY <1>3 DEF TakesUp, HarvestTypeOK, StoreTypeOK, Ingesting, HasPaper
    <2>2. PICK v \in Writers, p \in Papers :
            /\ CreatePaper(v) /\ row[p] = "absent" /\ ~Known(slot[v].entry)
            /\ row' = [row EXCEPT ![p] = "present"]
            /\ source' = [source EXCEPT ![p] = slot[v].entry]
      BY <2>1, PaperRows
    <2>3. p = q
      BY <2>1, <2>2 DEF HarvestTypeOK, StoreTypeOK
    <2>4. slot[v].entry \in Entries \cup {None}
      <3>1. slot[v].step = "createPaper"
        BY <2>2 DEF CreatePaper, At
      <3>2. QED
        BY <3>1, SlotShape DEF HarvestTypeOK, Slots
    <2>5. \A r \in Papers : r # q => (Ingesting(r)' <=> Ingesting(r))
      BY <1>3, <1>o DEF TakesUp, Ingesting, Carries
    <2>6. \A r \in Papers : r # q => IntakeOf(r)' = IntakeOf(r)
      BY <2>1, <2>5, IntakeKept
    <2>7. IntakeOf(q) = "none" /\ IntakeOf(q)' = "arriving"
      <3>1. q \notin jobs'
        BY <2>1 DEF JobsHavePapers, Present
      <3>2. QED
        BY <2>1, <3>1, IntakeIs, IntakeWillBe
    <2>8. ~Arrival!TakenIn(slot[v].entry)
      <3>1. \A r \in Papers : IntakeOf(r) \in {"arriving", "ready", "stranded"} => row[r] = "present"
        BY IntakeIs
      <3>2. QED
        BY <2>2, <3>1 DEF Known, Present, Arrival!TakenIn, Arrival!Held
    <2>9. Arrival!Arrive(q)
      <3>1. [r \in Papers |-> IntakeOf(r)'] = [[r \in Papers |-> IntakeOf(r)] EXCEPT ![q] = "arriving"]
        BY <2>6, <2>7
      <3>2. QED
        BY <2>1, <2>2, <2>3, <2>4, <2>7, <2>8, <3>1 DEF Arrival!Arrive, Arrival!Become
    <2>10. QED
      BY <2>9 DEF Arrival!Next
  <1>4. HandsOver(w) \/ Drops(w) \/ CarriesOn(w) => Carries(w)
    BY DEF HandsOver, Drops, CarriesOn, At, Carries, HasPaper
  <1>5. QED
    BY <1>1, <1>2, <1>3, <1>4, InHand

\* Passes, uploads and deletions implement Intake, for any number of each, of papers, of
\* sources and of faults: every statement of theirs is a step of Intake or none.
THEOREM ImplementsIntakeHolds == Spec => ImplementsIntake
  <1>1. Init => IngestInv /\ JobsHavePapers
    BY DEF Init, IngestInv, JobsHavePapers, Carries, HasPaper, At, IdleSlot
  <1>2. Init => Arrival!Init
    <2> SUFFICES ASSUME Init PROVE Arrival!Init
      OBVIOUS
    <2>1. \A p \in Papers : IntakeOf(p) = "none"
      BY DEF Init, IntakeOf, Present, Stranded
    <2>2. QED
      BY <2>1 DEF Init, Arrival!Init
  <1>3. /\ HarvestTypeOK /\ HarvestTypeOK' /\ IngestInv /\ JobsHavePapers
        /\ [Next]_vars
        => [Arrival!Next]_(Arrival!vars)
    <2> SUFFICES ASSUME HarvestTypeOK, HarvestTypeOK', IngestInv, JobsHavePapers, [Next]_vars
                 PROVE  [Arrival!Next]_(Arrival!vars)
      OBVIOUS
    <2>1. CASE UNCHANGED vars
      <3>1. \A p \in Papers : IntakeOf(p)' = IntakeOf(p)
        BY <2>1 DEF vars, IntakeOf, Stranded, Present, Ingesting
      <3>2. QED
        BY <2>1, <3>1 DEF vars, Arrival!vars
    <2>2. QED
      BY <2>1, IngestMaps, DeletionMaps DEF Next
  <1>4. QED
    BY <1>1, <1>2, <1>3, IngestInvStep, JobsHavePapersStep, HarvestTypeCorrect, PTL
       DEF Spec, ImplementsIntake, Arrival!Spec
=============================================================================
