----------------------------- MODULE AssetStore -----------------------------
(***************************************************************************)
(* Two records of the stored files: rows of paper_assets and objects in    *)
(* MinIO, and AdminService.DeletePaper, the one call that removes both.    *)
(* An asset row is written after its object; a deletion goes the other     *)
(* way, the rows first.                                                    *)
(***************************************************************************)
EXTENDS Naturals, FiniteSets

CONSTANTS Papers,     \* the ids papers.id may take
          Keys,       \* object keys
          Writers,    \* who inserts asset rows: they tell rows of one key apart
          Deleters    \* requests to delete a paper served at a time

ASSUME StoreAssumption == IsFiniteSet(Papers) /\ IsFiniteSet(Keys)

VARIABLES row,        \* papers: is there a row for the id, was there one
          assets,     \* paper_assets
          objects,    \* the keys MinIO holds
          deletion    \* the step of each delete request

storeVars == <<row, assets, objects, deletion>>

Asset(p, k, w) == [paper |-> p, key |-> k, by |-> w]

IdleDeletion == [step |-> "idle"]

StoreTypeOK ==
  /\ row \in [Papers -> {"absent", "present", "deleted"}]
  /\ assets \subseteq [paper : Papers, key : Keys, by : Writers]
  /\ objects \subseteq Keys
  /\ deletion \in [Deleters -> [step : {"deleteRow", "removeObjects"},
                                paper : Papers, keys : SUBSET Keys] \cup {IdleDeletion}]

Present(p) == row[p] = "present"
AssetKeys(p) == {a.key : a \in {b \in assets : b.paper = p}}
-----------------------------------------------------------------------------
(* Put overwrites an object of the same key; CreatePaperAsset's foreign key *)
(* needs the paper.                                                        *)

PutObject(k) == objects' = objects \cup {k} /\ UNCHANGED <<row, assets, deletion>>

CreatePaperAsset(p, k, w) ==
  /\ Present(p)
  /\ assets' = assets \cup {Asset(p, k, w)}
  /\ UNCHANGED <<row, objects, deletion>>
-----------------------------------------------------------------------------
(* AdminService.DeletePaper: the keys are read first, then the row goes and *)
(* its children with it, then the objects, one call each.                  *)

\* A deletion that removes the objects while the rows still name them.
ListAndRemove(d, p) ==
  /\ deletion[d] = IdleDeletion /\ Present(p)
  /\ deletion' = [deletion EXCEPT ![d] =
                    [step |-> "deleteRow", paper |-> p, keys |-> AssetKeys(p)]]
  /\ objects' = objects \ AssetKeys(p)
  /\ UNCHANGED <<row, assets>>

ListPaperAssets(d, p) ==
  /\ deletion[d] = IdleDeletion /\ Present(p)
  /\ deletion' = [deletion EXCEPT ![d] =
                    [step |-> "deleteRow", paper |-> p, keys |-> AssetKeys(p)]]
  /\ UNCHANGED <<row, assets, objects>>

\* Another deletion may have come first: ErrNotFound.
DeletePaperRow(d) ==
  LET p == deletion[d].paper
  IN /\ deletion[d].step = "deleteRow"
     /\ \/ /\ Present(p)
           /\ row' = [row EXCEPT ![p] = "deleted"]
           /\ assets' = {a \in assets : a.paper # p}
           /\ deletion' = [deletion EXCEPT ![d] =
                             IF @.keys = {} THEN IdleDeletion ELSE [@ EXCEPT !.step = "removeObjects"]]
        \/ /\ ~Present(p)
           /\ deletion' = [deletion EXCEPT ![d] = IdleDeletion]
           /\ UNCHANGED <<row, assets>>
     /\ UNCHANGED objects

\* Done with key k, removed or not: a failure is logged and the next key tried.
DropKey(d, k) ==
  deletion' = [deletion EXCEPT ![d] =
                 IF @.keys = {k} THEN IdleDeletion
                 ELSE [deletion[d] EXCEPT !.keys = @ \ {k}]]

RemoveObject(d) ==
  /\ deletion[d].step = "removeObjects"
  /\ \E k \in deletion[d].keys : objects' = objects \ {k} /\ DropKey(d, k)
  /\ UNCHANGED <<row, assets>>

RemoveFails(d) ==
  /\ deletion[d].step = "removeObjects"
  /\ \E k \in deletion[d].keys : DropKey(d, k)
  /\ UNCHANGED <<row, assets, objects>>

\* A row that fails, or a client that goes away, ends the request there.
DeletionFails(d) ==
  /\ deletion[d].step = "deleteRow"
  /\ deletion' = [deletion EXCEPT ![d] = IdleDeletion]
  /\ UNCHANGED <<row, assets, objects>>

Removing(k) == \E d \in Deleters : deletion[d] # IdleDeletion /\ k \in deletion[d].keys
=============================================================================
