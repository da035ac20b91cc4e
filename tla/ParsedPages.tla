---------------------------- MODULE ParsedPages ----------------------------
(***************************************************************************)
(* From GROBID's coordinates to pages and boxes (appendCoordPages,         *)
(* pageRange, parsePage and parseBox of internal/parser/grobid.go), and    *)
(* the pages of a card (resolveCardPages and clampPage of                  *)
(* internal/jobs/read_pipeline.go).                                        *)
(*                                                                         *)
(* A @coords value is a sequence of boxes, between semicolons.  A box has  *)
(* a page, which is Nil when it is not a number, and at most one rectangle: *)
(* none when the other fields are missing or are not numbers.  A box that  *)
(* is bare has no comma: its page is all there is to it.                   *)
(***************************************************************************)
EXTENDS Integers, Sequences, SequencesExt

CONSTANT Nil     \* a nil pointer

ASSUME NilAssumption == Nil \notin Int

ValidPage(page) == page # Nil /\ page > 0

\* appendCoordPages
CoordPages(coords) ==
  FoldLeft(LAMBDA pages, box : IF ValidPage(box.page) THEN Append(pages, box.page) ELSE pages,
           <<>>, coords)

\* A range that stops looking once a page is not smaller.
PageRangeOnce(pages) ==
  IF pages = <<>> THEN [start |-> Nil, end |-> Nil]
  ELSE FoldLeft(LAMBDA r, p : IF p < r.start THEN [r EXCEPT !.start = p] ELSE [r EXCEPT !.end = p],
                [start |-> pages[1], end |-> pages[1]], pages)

PageRange(pages) ==
  IF pages = <<>> THEN [start |-> Nil, end |-> Nil]
  ELSE FoldLeft(LAMBDA r, p : [start |-> IF p < r.start THEN p ELSE r.start,
                               end |-> IF p > r.end THEN p ELSE r.end],
                [start |-> pages[1], end |-> pages[1]], pages)

\* parsePage, for a figure: the text up to the first comma of the whole value, which is
\* a number only if no semicolon comes before that comma.
FirstPage(coords) ==
  LET number == coords # <<>> /\ (coords[1].bare => Len(coords) = 1)
  IN IF number /\ ValidPage(coords[1].page) THEN coords[1].page ELSE Nil
-----------------------------------------------------------------------------
(* parseBox: boxes are rectangles [x0, y0, x1, y1] on a page.              *)

RectOf(box) == CHOOSE r \in box.rect : TRUE
Area(box) == (RectOf(box).x1 - RectOf(box).x0) * (RectOf(box).y1 - RectOf(box).y0)

BoxesWithRect(coords) ==
  FoldLeft(LAMBDA boxes, box : IF ValidPage(box.page) /\ box.rect # {} THEN Append(boxes, box)
                               ELSE boxes,
           <<>>, coords)

\* The first box of the largest area.
Dominant(boxes) ==
  FoldLeft(LAMBDA dom, b : IF Area(b) > Area(dom) THEN b ELSE dom, boxes[1], boxes)

Lesser(a, b) == IF b < a THEN b ELSE a
Greater(a, b) == IF b > a THEN b ELSE a

Union(r, s) ==
  [x0 |-> Lesser(r.x0, s.x0), y0 |-> Lesser(r.y0, s.y0),
   x1 |-> Greater(r.x1, s.x1), y1 |-> Greater(r.y1, s.y1)]

\* A union of the boxes of all pages.
FigureBoxOfAllPages(coords) ==
  LET boxes == BoxesWithRect(coords)
      dom == Dominant(boxes)
  IN IF boxes = <<>> THEN Nil
     ELSE [page |-> dom.page,
           rect |-> FoldLeft(LAMBDA r, b : Union(r, RectOf(b)), RectOf(dom), boxes)]

FigureBox(coords) ==
  LET boxes == BoxesWithRect(coords)
      dom == Dominant(boxes)
  IN IF boxes = <<>> THEN Nil
     ELSE [page |-> dom.page,
           rect |-> FoldLeft(LAMBDA r, b : IF b.page = dom.page THEN Union(r, RectOf(b)) ELSE r,
                             RectOf(dom), boxes)]
-----------------------------------------------------------------------------
(* The pages of a card.                                                    *)

\* A clamp that asks for the lower bound only.
ClampBelow(page, start, end) ==
  CASE start = Nil -> page
    [] start # Nil /\ page = Nil -> start
    [] OTHER -> Greater(page, start)

ClampPage(page, start, end) ==
  CASE start = Nil -> page
    [] start # Nil /\ page = Nil -> start
    [] OTHER -> LET v == Greater(page, start)
                IN IF end # Nil /\ v > end THEN end ELSE v

\* resolveCardPages, for one entry of the card's evidence: cited is the set of the
\* page ranges of the section it cites, empty when there is no such section.
EvidencePage(page, cited) ==
  IF cited = {} THEN page
  ELSE LET range == CHOOSE range \in cited : TRUE
       IN ClampPage(page, range.start, range.end)
=============================================================================
