-------------------------- MODULE ConversionProofs --------------------------
(***************************************************************************)
(* The five conversions do what Conversions says of them, for every value  *)
(* of its constants.                                                       *)
(***************************************************************************)
EXTENDS Conversions, TLAPS

MaybePage == Int \cup {Nil}
PageBox == [page : MaybePage, rect : {{}}, bare : BOOLEAN]

-----------------------------------------------------------------------------
(* The pages of a section: appendCoordPages and pageRange.                 *)

\* The pages read so far are the valid pages of the boxes seen so far.
PagesSoFar(coords, k, pages) ==
  ToSet(pages) = {q \in {coords[j].page : j \in 1..k} : ValidPage(q)}

PagesLoop ==
  INSTANCE FoldFacts WITH
    Value <- Seq(Int), Item <- PageBox, Inv <- PagesSoFar,
    Op <- LAMBDA coords, pages, box : IF ValidPage(box.page) THEN Append(pages, box.page) ELSE pages

\* What is appended to a sequence is its last element and no other.
LEMMA AppendedRange ==
  ASSUME NEW T, NEW s \in Seq(T), NEW e \in T
  PROVE  /\ Append(s, e) \in Seq(T)
         /\ ToSet(Append(s, e)) = ToSet(s) \cup {e}
<1> DEFINE t == Append(s, e)
<1>1. t \in Seq(T) /\ Len(t) = Len(s) + 1 /\ t[Len(s) + 1] = e /\ Len(s) \in Nat
  OBVIOUS
<1>2. \A i \in 1..Len(s) : t[i] = s[i]
  OBVIOUS
<1>3. \A i \in 1..(Len(s) + 1) : i \in 1..Len(s) \/ i = Len(s) + 1
  BY <1>1
<1>4. \A i \in 1..Len(s) : i \in 1..(Len(s) + 1)
  BY <1>1
<1>5. Len(s) + 1 \in 1..(Len(s) + 1)
  BY <1>1
<1>6. DOMAIN s = 1..Len(s) /\ DOMAIN t = 1..(Len(s) + 1)
  BY <1>1
<1> HIDE DEF t
<1>7. ToSet(t) = ToSet(s) \cup {e}
  BY <1>1, <1>2, <1>3, <1>4, <1>5, <1>6 DEF ToSet
<1> QED
  BY <1>1, <1>7 DEF t

\* The elements of a sequence.
LEMMA ElementsOf ==
  ASSUME NEW T, NEW s \in Seq(T)
  PROVE  /\ ToSet(s) \subseteq T
         /\ \A i \in 1..Len(s) : s[i] \in ToSet(s)
         /\ \A x \in ToSet(s) : \E i \in 1..Len(s) : x = s[i]
         /\ s = <<>> <=> ToSet(s) = {}
<1>1. DOMAIN s = 1..Len(s) /\ Len(s) \in Nat
  OBVIOUS
<1>2. s # <<>> => 1 \in 1..Len(s)
  OBVIOUS
<1>3. \A i \in 1..Len(s) : s[i] \in T
  OBVIOUS
<1>4. s = <<>> => 1..Len(s) = {}
  OBVIOUS
<1> QED
  BY <1>1, <1>2, <1>3, <1>4 DEF ToSet

\* CoordPages keeps exactly the valid pages.
LEMMA CoordPagesAre ==
  ASSUME NEW coords \in Seq(PageBox)
  PROVE  /\ CoordPages(coords) \in Seq(Int)
         /\ PagesSoFar(coords, Len(coords), CoordPages(coords))
<1> DEFINE Op(pages, box) == IF ValidPage(box.page) THEN Append(pages, box.page) ELSE pages
<1>1. <<>> \in Seq(Int)
  OBVIOUS
<1>2. \A pages \in Seq(Int), box \in PageBox : Op(pages, box) \in Seq(Int)
  BY DEF PageBox, MaybePage, ValidPage
<1>3. PagesSoFar(coords, 0, <<>>)
  BY DEF PagesSoFar, ToSet
<1>4. ASSUME NEW k \in 1..Len(coords), NEW pages \in Seq(Int), PagesSoFar(coords, k - 1, pages)
      PROVE  PagesSoFar(coords, k, Op(pages, coords[k]))
  <2> DEFINE seen(j) == {coords[i].page : i \in 1..j}
  <2>1. seen(k) = seen(k - 1) \cup {coords[k].page}
    <3>1. \A i \in 1..k : i \in 1..(k - 1) \/ i = k
      OBVIOUS
    <3>2. \A i \in 1..(k - 1) : i \in 1..k
      OBVIOUS
    <3>3. k \in 1..k
      OBVIOUS
    <3> QED
      BY <3>1, <3>2, <3>3
  <2>2. coords[k] \in PageBox
    OBVIOUS
  <2>3. CASE ValidPage(coords[k].page)
    <3>1. coords[k].page \in Int
      BY <2>2, <2>3 DEF PageBox, MaybePage, ValidPage
    <3>2. ToSet(Append(pages, coords[k].page)) = ToSet(pages) \cup {coords[k].page}
      BY <3>1, AppendedRange
    <3> QED
      BY <1>4, <2>1, <2>3, <3>2 DEF PagesSoFar
  <2>4. CASE ~ValidPage(coords[k].page)
    BY <1>4, <2>1, <2>4, SMTT(30) DEF PagesSoFar
  <2> QED
    BY <2>3, <2>4
<1> QED
  BY <1>1, <1>2, <1>3, <1>4, PagesLoop!FoldInvariant
     DEF CoordPages, FoldLeft, MapThenFoldSet, Max,
         PagesLoop!Fold, PagesLoop!FoldLeft, PagesLoop!MapThenFoldSet, PagesLoop!Max

PageRanges == [start : Int, end : Int]

\* The range so far is between two of the pages, with all pages seen so far in it.
RangeSoFar(pages, k, r) ==
  /\ r.start \in ToSet(pages) /\ r.end \in ToSet(pages)
  /\ \A i \in 1..k : r.start <= pages[i] /\ pages[i] <= r.end

RangeLoop ==
  INSTANCE FoldFacts WITH
    Value <- PageRanges, Item <- Int, Inv <- RangeSoFar,
    Op <- LAMBDA pages, r, p : [start |-> IF p < r.start THEN p ELSE r.start,
                         end |-> IF p > r.end THEN p ELSE r.end]

\* pageRange finds the lowest and the highest page.
LEMMA PageRangeIs ==
  ASSUME NEW pages \in Seq(Int), pages # <<>>
  PROVE  /\ PageRange(pages) \in PageRanges
         /\ RangeSoFar(pages, Len(pages), PageRange(pages))
<1> DEFINE base == [start |-> pages[1], end |-> pages[1]]
           Op(r, p) == [start |-> IF p < r.start THEN p ELSE r.start,
                        end |-> IF p > r.end THEN p ELSE r.end]
<1>1. DOMAIN pages = 1..Len(pages) /\ 1 \in DOMAIN pages
  OBVIOUS
<1>2. base \in PageRanges /\ RangeSoFar(pages, 0, base)
  BY <1>1 DEF PageRanges, RangeSoFar, ToSet
<1>3. \A r \in PageRanges, p \in Int : Op(r, p) \in PageRanges
  BY DEF PageRanges
<1>4. ASSUME NEW k \in 1..Len(pages), NEW r \in PageRanges, RangeSoFar(pages, k - 1, r)
      PROVE  RangeSoFar(pages, k, Op(r, pages[k]))
  <2>1. pages[k] \in ToSet(pages) /\ pages[k] \in Int
    BY <1>1 DEF ToSet
  <2>2. \A i \in 1..k : i \in 1..(k - 1) \/ i = k
    OBVIOUS
  <2>3. \A i \in 1..(k - 1) : pages[i] \in Int
    OBVIOUS
  <2> QED
    BY <1>4, <2>1, <2>2, <2>3, SMTT(30) DEF RangeSoFar, PageRanges
<1> QED
  BY <1>2, <1>3, <1>4, RangeLoop!FoldInvariant
     DEF PageRange, FoldLeft, MapThenFoldSet, Max,
         RangeLoop!Fold, RangeLoop!FoldLeft, RangeLoop!MapThenFoldSet, RangeLoop!Max

\* A @coords value is a sequence of boxes.
LEMMA CoordsAreSequences ==
  ASSUME NEW T, NEW boxes \in SUBSET T, NEW coords \in CoordsOf(boxes)
  PROVE  coords \in Seq(T)
<1>1. PICK n \in 0..MaxBoxes : coords \in [1..n -> boxes]
  BY DEF CoordsOf
<1>2. n \in Nat /\ coords \in [1..n -> T]
  BY <1>1
<1> QED
  BY <1>2

\* A page is clamped to the range, and left alone when it is in it.
LEMMA ClampedPage ==
  ASSUME NEW page \in MaybePage, NEW start \in Int, NEW end \in Int, start <= end
  PROVE  /\ ClampPage(page, start, end) \in Int
         /\ start <= ClampPage(page, start, end) /\ ClampPage(page, start, end) <= end
         /\ page \in Int /\ start <= page /\ page <= end => ClampPage(page, start, end) = page
<1>1. start # Nil /\ end # Nil
  BY NilAssumption
<1>2. CASE page = Nil
  BY <1>1, <1>2, NilAssumption DEF ClampPage
<1>3. CASE page # Nil
  <2>1. page \in Int
    BY <1>3 DEF MaybePage
  <2>2. ClampPage(page, start, end) = IF Greater(page, start) > end THEN end ELSE Greater(page, start)
    BY <1>1, <1>3 DEF ClampPage
  <2> QED
    BY <2>1, <2>2 DEF Greater
<1> QED
  BY <1>2, <1>3

\* A page clamped to the range of some pages lies among them, and stays if it did.
LEMMA ClampedToPages ==
  ASSUME NEW pages \in Seq(Int), pages # <<>>, NEW page \in MaybePage,
         NEW result, result = ClampPage(page, PageRange(pages).start, PageRange(pages).end)
  PROVE  /\ \E q \in ToSet(pages) : q <= result
         /\ \E q \in ToSet(pages) : result <= q
         /\ \A p, q \in ToSet(pages) : page # Nil /\ p <= page /\ page <= q => result = page
<1> DEFINE r == PageRange(pages)
<1>1. r \in PageRanges /\ RangeSoFar(pages, Len(pages), r)
  BY PageRangeIs
<1>2. result = ClampPage(page, r.start, r.end)
  OBVIOUS
<1> HIDE DEF r
<1>3. r.start \in ToSet(pages) /\ r.end \in ToSet(pages)
  BY <1>1 DEF RangeSoFar
<1>4. \A q \in ToSet(pages) : q \in Int /\ r.start <= q /\ q <= r.end
  <2> TAKE q \in ToSet(pages)
  <2>1. PICK i \in 1..Len(pages) : q = pages[i]
    BY ElementsOf
  <2> QED
    BY <1>1, <2>1 DEF RangeSoFar
<1>5. r.start \in Int /\ r.end \in Int /\ r.start <= r.end
  BY <1>3, <1>4
<1>6. /\ result \in Int /\ r.start <= result /\ result <= r.end
      /\ page \in Int /\ r.start <= page /\ page <= r.end => result = page
  BY <1>2, <1>5, ClampedPage
<1>7. ASSUME NEW p \in ToSet(pages), NEW q \in ToSet(pages), page # Nil, p <= page, page <= q
      PROVE  result = page
  <2>1. page \in Int
    BY <1>7 DEF MaybePage
  <2>2. p \in Int /\ q \in Int /\ r.start <= p /\ q <= r.end
    BY <1>4
  <2> QED
    BY <1>5, <1>6, <1>7, <2>1, <2>2
<1> QED
  BY <1>3, <1>6, <1>7

\* A section without a page has no range.
LEMMA NoPages ==
  ASSUME NEW pages, pages = <<>>
  PROVE  PageRange(pages).start = Nil
<1>1. PageRange(pages) = [start |-> Nil, end |-> Nil]
  BY ZenonT(20) DEF PageRange
<1> QED
  BY <1>1

\* The valid pages of the section an entry of evidence cites.
CitedPages(e) == {p \in {b.page : b \in {e.coords[i] : i \in 1..Len(e.coords)}} \ {Nil} : p > 0}

\* An entry of evidence is held to those pages.
LEMMA EvidencePageIs ==
  ASSUME NEW e \in Evidences,
         NEW result, result = EvidencePage(e.page, IF e.cited THEN {PageRange(CoordPages(e.coords))}
                                                              ELSE {})
  PROVE  IF e.cited /\ CitedPages(e) # {}
         THEN /\ \E q \in CitedPages(e) : q <= result
              /\ \E q \in CitedPages(e) : result <= q
              /\ \A p, q \in CitedPages(e) : e.page # Nil /\ p <= e.page /\ e.page <= q => result = e.page
         ELSE result = e.page
<1> DEFINE pages == CoordPages(e.coords)
<1>1. e.coords \in Seq(PageBox) /\ e.page \in MaybePage /\ e.cited \in BOOLEAN
  <2>1. BoxesOf({{}}) \subseteq PageBox /\ ModelPages \subseteq MaybePage
    BY BoxesAssumption DEF BoxesOf, PageBox, MaybePage
  <2>2. e.coords \in CoordsOf(BoxesOf({{}})) /\ e.page \in ModelPages /\ e.cited \in BOOLEAN
    BY DEF Evidences
  <2> QED
    BY <2>1, <2>2, CoordsAreSequences
<1>2. pages \in Seq(Int) /\ ToSet(pages) = CitedPages(e)
  <2>1. pages \in Seq(Int) /\ PagesSoFar(e.coords, Len(e.coords), pages)
    BY <1>1, CoordPagesAre
  <2> HIDE DEF pages
  <2>2. {b.page : b \in {e.coords[i] : i \in 1..Len(e.coords)}}
          = {e.coords[i].page : i \in 1..Len(e.coords)}
    OBVIOUS
  <2> QED
    BY <2>1, <2>2 DEF PagesSoFar, ValidPage, CitedPages
<1>3. e.cited => result = ClampPage(e.page, PageRange(pages).start, PageRange(pages).end)
  BY DEF EvidencePage
<1>4. ~e.cited => result = e.page
  BY DEF EvidencePage
<1> HIDE DEF pages
<1>5. pages = <<>> <=> CitedPages(e) = {}
  BY <1>2, ElementsOf
<1>6. CASE e.cited /\ CitedPages(e) = {}
  <2>1. PageRange(pages).start = Nil
    BY <1>5, <1>6, NoPages
  <2> QED
    BY <1>3, <1>6, <2>1 DEF ClampPage
<1>7. CASE e.cited /\ CitedPages(e) # {}
  <2>1. pages # <<>> /\ result = ClampPage(e.page, PageRange(pages).start, PageRange(pages).end)
    BY <1>3, <1>5, <1>7
  <2>2. /\ \E q \in ToSet(pages) : q <= result
        /\ \E q \in ToSet(pages) : result <= q
        /\ \A p, q \in ToSet(pages) : e.page # Nil /\ p <= e.page /\ e.page <= q => result = e.page
    <3>1. e.page \in MaybePage /\ pages \in Seq(Int)
      BY <1>1, <1>2
    <3> QED
      BY <2>1, <3>1, ClampedToPages, ZenonT(60)
  <2>3. ToSet(pages) = CitedPages(e)
    BY <1>2
  <2> QED
    BY <1>7, <2>2, <2>3, Zenon
<1> QED
  BY <1>1, <1>4, <1>6, <1>7
-----------------------------------------------------------------------------
(* The box of a figure: parseBox.                                          *)

Rectangles == [x0 : Int, y0 : Int, x1 : Int, y1 : Int]
AnyBox ==
  {b \in [page : MaybePage, rect : {{}} \cup {{r} : r \in Rectangles}, bare : BOOLEAN] :
     b.bare => b.rect = {}}
Whole(box) == ValidPage(box.page) /\ box.rect # {}
WholeBox == {b \in AnyBox : Whole(b)}

\* A box with a rectangle has one, and an area.
LEMMA WholeBoxHas ==
  ASSUME NEW b \in WholeBox
  PROVE  /\ b.page \in Int /\ b.page # Nil /\ b.page > 0
         /\ RectOf(b) \in Rectangles
         /\ Area(b) \in Int
<1>1. b.page \in Int /\ b.page # Nil /\ b.page > 0
  BY NilAssumption DEF WholeBox, Whole, AnyBox, ValidPage, MaybePage
<1>2. PICK r \in Rectangles : b.rect = {r}
  BY DEF WholeBox, Whole, AnyBox
<1>3. RectOf(b) \in Rectangles
  BY <1>2 DEF RectOf
<1>4. \A s \in Rectangles : (s.x1 - s.x0) * (s.y1 - s.y0) \in Int
  <2> TAKE s \in Rectangles
  <2>1. s.x1 - s.x0 \in Int /\ s.y1 - s.y0 \in Int
    BY DEF Rectangles
  <2> QED
    BY <2>1
<1> QED
  BY <1>1, <1>3, <1>4 DEF Area

\* The boxes kept so far are the whole ones of those seen so far.
BoxesSoFar(coords, k, boxes) == ToSet(boxes) = {b \in {coords[j] : j \in 1..k} : Whole(b)}

BoxesLoop ==
  INSTANCE FoldFacts WITH
    Value <- Seq(WholeBox), Item <- AnyBox, Inv <- BoxesSoFar,
    Op <- LAMBDA coords, boxes, box : IF ValidPage(box.page) /\ box.rect # {} THEN Append(boxes, box)
                              ELSE boxes

\* The boxes with a page and a rectangle, and no others.
LEMMA BoxesWithRectAre ==
  ASSUME NEW coords \in Seq(AnyBox)
  PROVE  /\ BoxesWithRect(coords) \in Seq(WholeBox)
         /\ BoxesSoFar(coords, Len(coords), BoxesWithRect(coords))
<1> DEFINE Op(boxes, box) == IF ValidPage(box.page) /\ box.rect # {} THEN Append(boxes, box)
                             ELSE boxes
<1>1. <<>> \in Seq(WholeBox)
  OBVIOUS
<1>2. \A boxes \in Seq(WholeBox), box \in AnyBox : Op(boxes, box) \in Seq(WholeBox)
  <2> TAKE boxes \in Seq(WholeBox), box \in AnyBox
  <2>1. CASE Whole(box)
    <3>1. box \in WholeBox
      BY <2>1 DEF WholeBox
    <3> QED
      BY <2>1, <3>1, AppendedRange DEF Whole
  <2>2. CASE ~Whole(box)
    BY <2>2 DEF Whole
  <2> QED
    BY <2>1, <2>2
<1>3. BoxesSoFar(coords, 0, <<>>)
  BY DEF BoxesSoFar, ToSet
<1>4. ASSUME NEW k \in 1..Len(coords), NEW boxes \in Seq(WholeBox), BoxesSoFar(coords, k - 1, boxes)
      PROVE  BoxesSoFar(coords, k, Op(boxes, coords[k]))
  <2>1. {coords[i] : i \in 1..k} = {coords[i] : i \in 1..(k - 1)} \cup {coords[k]}
    <3>1. \A i \in 1..k : i \in 1..(k - 1) \/ i = k
      OBVIOUS
    <3>2. \A i \in 1..(k - 1) : i \in 1..k
      OBVIOUS
    <3>3. k \in 1..k
      OBVIOUS
    <3> QED
      BY <3>1, <3>2, <3>3
  <2>2. coords[k] \in AnyBox
    OBVIOUS
  <2>3. CASE Whole(coords[k])
    <3>1. ToSet(Append(boxes, coords[k])) = ToSet(boxes) \cup {coords[k]}
      BY <2>2, <2>3, AppendedRange DEF WholeBox
    <3> QED
      BY <1>4, <2>1, <2>3, <3>1 DEF BoxesSoFar, Whole
  <2>4. CASE ~Whole(coords[k])
    BY <1>4, <2>1, <2>4 DEF BoxesSoFar, Whole
  <2> QED
    BY <2>3, <2>4
<1> QED
  BY <1>1, <1>2, <1>3, <1>4, BoxesLoop!FoldInvariant
     DEF BoxesWithRect, FoldLeft, MapThenFoldSet, Max,
         BoxesLoop!Fold, BoxesLoop!FoldLeft, BoxesLoop!MapThenFoldSet, BoxesLoop!Max

\* The largest so far is one of the boxes, and none of those seen is larger.
LargestSoFar(boxes, k, d) == d \in ToSet(boxes) /\ \A i \in 1..k : Area(boxes[i]) <= Area(d)

LargestLoop ==
  INSTANCE FoldFacts WITH
    Value <- WholeBox, Item <- WholeBox, Inv <- LargestSoFar,
    Op <- LAMBDA boxes, dom, b : IF Area(b) > Area(dom) THEN b ELSE dom

\* The dominant box is one of a largest area.
LEMMA DominantIs ==
  ASSUME NEW boxes \in Seq(WholeBox), boxes # <<>>
  PROVE  /\ Dominant(boxes) \in WholeBox
         /\ LargestSoFar(boxes, Len(boxes), Dominant(boxes))
<1> DEFINE Op(dom, b) == IF Area(b) > Area(dom) THEN b ELSE dom
<1>1. 1 \in 1..Len(boxes) /\ boxes[1] \in WholeBox
  OBVIOUS
<1>2. LargestSoFar(boxes, 0, boxes[1])
  <2>1. boxes[1] \in ToSet(boxes)
    BY <1>1, ElementsOf
  <2> QED
    BY <2>1 DEF LargestSoFar
<1>3. \A dom \in WholeBox, b \in WholeBox : Op(dom, b) \in WholeBox
  OBVIOUS
<1>4. ASSUME NEW k \in 1..Len(boxes), NEW dom \in WholeBox, LargestSoFar(boxes, k - 1, dom)
      PROVE  LargestSoFar(boxes, k, Op(dom, boxes[k]))
  <2>1. boxes[k] \in ToSet(boxes) /\ boxes[k] \in WholeBox
    BY ElementsOf
  <2>2. \A i \in 1..k : i \in 1..(k - 1) \/ i = k
    OBVIOUS
  <2>3. \A i \in 1..k : Area(boxes[i]) \in Int
    <3> TAKE i \in 1..k
    <3>1. boxes[i] \in WholeBox
      OBVIOUS
    <3> QED
      BY <3>1, WholeBoxHas
  <2>4. Area(dom) \in Int /\ Area(boxes[k]) \in Int
    BY <2>1, WholeBoxHas
  <2> QED
    BY <1>4, <2>1, <2>2, <2>3, <2>4 DEF LargestSoFar
<1> QED
  BY <1>1, <1>2, <1>3, <1>4, LargestLoop!FoldInvariant
     DEF Dominant, FoldLeft, MapThenFoldSet, Max,
         LargestLoop!Fold, LargestLoop!FoldLeft, LargestLoop!MapThenFoldSet, LargestLoop!Max

\* The union so far has each side from a box on the page, and covers those seen.
OnPage(boxes, page) == {RectOf(b) : b \in {c \in ToSet(boxes) : c.page = page}}
Covers(r, s) == r.x0 <= s.x0 /\ r.y0 <= s.y0 /\ r.x1 >= s.x1 /\ r.y1 >= s.y1
SidesFrom(r, rects) ==
  /\ \E s \in rects : s.x0 = r.x0
  /\ \E s \in rects : s.y0 = r.y0
  /\ \E s \in rects : s.x1 = r.x1
  /\ \E s \in rects : s.y1 = r.y1
UnionSoFar(boxes, k, r) ==
  LET page == Dominant(boxes).page
  IN /\ SidesFrom(r, OnPage(boxes, page))
     /\ \A i \in 1..k : boxes[i].page = page => Covers(r, RectOf(boxes[i]))

UnionLoop ==
  INSTANCE FoldFacts WITH
    Value <- Rectangles, Item <- WholeBox, Inv <- UnionSoFar,
    Op <- LAMBDA boxes, r, b : IF b.page = Dominant(boxes).page THEN Union(r, RectOf(b)) ELSE r

\* A union covers what either rectangle covers, and its sides are theirs.
LEMMA UnionIs ==
  ASSUME NEW r \in Rectangles, NEW s \in Rectangles
  PROVE  /\ Union(r, s) \in Rectangles
         /\ Covers(Union(r, s), r) /\ Covers(Union(r, s), s)
         /\ Union(r, s).x0 \in {r.x0, s.x0} /\ Union(r, s).y0 \in {r.y0, s.y0}
         /\ Union(r, s).x1 \in {r.x1, s.x1} /\ Union(r, s).y1 \in {r.y1, s.y1}
  BY DEF Rectangles, Covers, Union, Lesser, Greater

\* Covering is transitive.
LEMMA CoversThrough ==
  ASSUME NEW r \in Rectangles, NEW s \in Rectangles, NEW u \in Rectangles,
         Covers(u, r), Covers(r, s)
  PROVE  Covers(u, s)
  BY DEF Rectangles, Covers

\* A figure without a rectangle has no box.
LEMMA NoBox ==
  ASSUME NEW coords, BoxesWithRect(coords) = <<>>
  PROVE  FigureBox(coords) = Nil
  BY ZenonT(20) DEF FigureBox

\* The box of a figure is the least that covers the boxes on the dominant one's page.
LEMMA FigureBoxIs ==
  ASSUME NEW coords, NEW boxes \in Seq(WholeBox), boxes = BoxesWithRect(coords), boxes # <<>>
  PROVE  /\ FigureBox(coords).page = Dominant(boxes).page
         /\ FigureBox(coords).rect \in Rectangles
         /\ UnionSoFar(boxes, Len(boxes), FigureBox(coords).rect)
<1> DEFINE dom == Dominant(boxes)
           page == dom.page
           Op(r, b) == IF b.page = page THEN Union(r, RectOf(b)) ELSE r
<1>1. dom \in WholeBox /\ dom \in ToSet(boxes)
  BY DominantIs DEF LargestSoFar
<1> HIDE DEF dom
<1>2. RectOf(dom) \in Rectangles /\ RectOf(dom) \in OnPage(boxes, page)
  BY <1>1, WholeBoxHas DEF OnPage
<1>3. UnionSoFar(boxes, 0, RectOf(dom))
  BY <1>2 DEF UnionSoFar, dom, SidesFrom
<1>4. \A r \in Rectangles, b \in WholeBox : Op(r, b) \in Rectangles
  BY UnionIs, WholeBoxHas
<1>5. ASSUME NEW k \in 1..Len(boxes), NEW r \in Rectangles, UnionSoFar(boxes, k - 1, r)
      PROVE  UnionSoFar(boxes, k, Op(r, boxes[k]))
  <2>1. \A i \in 1..k : i \in 1..(k - 1) \/ i = k
    OBVIOUS
  <2>2. CASE boxes[k].page # page
    BY <1>5, <2>1, <2>2 DEF UnionSoFar, dom
  <2>3. CASE boxes[k].page = page
    <3> DEFINE s == RectOf(boxes[k])
               u == Union(r, s)
    <3>1. boxes[k] \in ToSet(boxes) /\ boxes[k] \in WholeBox
      BY ElementsOf
    <3>2. s \in Rectangles /\ s \in OnPage(boxes, page)
      BY <2>3, <3>1, WholeBoxHas DEF OnPage
    <3>3. Covers(u, s)
      BY <3>2, UnionIs
    <3>4. \A q \in Rectangles : Covers(r, q) => Covers(u, q)
      BY <3>2, UnionIs, CoversThrough
    <3>5. SidesFrom(u, OnPage(boxes, page))
      <4>1. SidesFrom(r, OnPage(boxes, page))
        BY <1>5 DEF UnionSoFar, dom
      <4>2. /\ u.x0 \in {r.x0, s.x0} /\ u.y0 \in {r.y0, s.y0}
            /\ u.x1 \in {r.x1, s.x1} /\ u.y1 \in {r.y1, s.y1}
        BY <3>2, UnionIs
      <4> HIDE DEF u, s
      <4> QED
        BY <3>2, <4>1, <4>2 DEF SidesFrom
    <3>6. \A i \in 1..(k - 1) : RectOf(boxes[i]) \in Rectangles
      <4> TAKE i \in 1..(k - 1)
      <4>1. boxes[i] \in WholeBox
        OBVIOUS
      <4> QED
        BY <4>1, WholeBoxHas
    <3> HIDE DEF u
    <3>7. UnionSoFar(boxes, k, u)
      BY <1>5, <2>1, <3>3, <3>4, <3>5, <3>6 DEF UnionSoFar, dom
    <3> QED
      BY <2>3, <3>7 DEF u
  <2> QED
    BY <2>2, <2>3
<1> DEFINE whole == FoldLeft(LAMBDA r, b : IF b.page = dom.page THEN Union(r, RectOf(b)) ELSE r,
                             RectOf(dom), boxes)
<1>6. whole \in Rectangles /\ UnionSoFar(boxes, Len(boxes), whole)
  BY <1>2, <1>3, <1>4, <1>5, UnionLoop!FoldInvariant
     DEF dom, FoldLeft, MapThenFoldSet, Max,
         UnionLoop!Fold, UnionLoop!FoldLeft, UnionLoop!MapThenFoldSet, UnionLoop!Max
<1>7. FigureBox(coords) = [page |-> page, rect |-> whole]
  BY DEF FigureBox, dom
<1> HIDE DEF whole
<1> QED
  BY <1>6, <1>7 DEF dom
-----------------------------------------------------------------------------
(* The crop of a figure and its size: PixelRect and Downscale.             *)

\* Truncation loses less than one.
LEMMA TruncateBounds ==
  ASSUME NEW a \in Int
  PROVE  LET t == Truncate(a, 7200)
         IN /\ t \in Int
            /\ a >= 0 => t >= 0 /\ 7200 * t <= a /\ a < 7200 * t + 7200
            /\ a < 0 => t <= 0
<1>1. CASE a >= 0
  BY <1>1 DEF Truncate
<1>2. CASE a < 0
  BY <1>2 DEF Truncate
<1> QED
  BY <1>1, <1>2

\* A product with a larger factor is larger.
LEMMA ProductGrows ==
  ASSUME NEW a \in Nat, NEW b \in Nat, NEW c \in Nat, a <= b
  PROVE  a * c <= b * c /\ a * c \in Nat /\ b * c \in Nat
  OBVIOUS

\* The quotient of two natural numbers.
LEMMA QuotientBounds ==
  ASSUME NEW a \in Nat, NEW b \in Nat, b > 0
  PROVE  /\ a \div b \in Nat
         /\ (a \div b) * b <= a
         /\ a < (a \div b) * b + b
  OBVIOUS

\* The pixels from span.lo to span.hi are on the page and hold the length's whole pixels.
HoldsPixels(span, from, length, dpi, limit) ==
  /\ span.lo \in Int /\ span.hi \in Int
  /\ 0 <= span.lo /\ span.lo < span.hi /\ span.hi <= limit
  /\ span.lo * 72 < from * dpi + 72
  /\ span.hi * 72 > (from + length) * dpi - 72

\* A side that spans a pixel and is on the page has a crop on the rendered page, with all
\* its whole pixels.
LEMMA PixelSpanIs ==
  ASSUME NEW from \in Nat, NEW length \in Nat, NEW dpi \in Nat, NEW padding \in Nat,
         NEW page \in Nat, from + length <= page, length * dpi > 72,
         NEW limit, limit = (page * dpi + 71) \div 72,
         NEW span, span = PixelSpan(from, length, dpi, padding, limit)
  PROVE  HoldsPixels(span, from, length, dpi, limit)
<1> DEFINE F == from * dpi
           L == length * dpi
           S == page * dpi
           Q == (padding * length) * dpi
           A == 100 * F - Q
           B == 100 * F + 100 * L + Q
           lo == Truncate(A, 7200)
           hi == Truncate(B, 7200)
<1>1. F \in Nat /\ L \in Nat /\ S \in Nat /\ Q \in Nat
  <2>1. padding * length \in Nat
    OBVIOUS
  <2> QED
    BY <2>1
<1>2. (from + length) * dpi = F + L
  OBVIOUS
<1>3. F + L <= S
  BY <1>2, ProductGrows
<1>4. /\ (100 * from - padding * length) * dpi = 100 * F - Q
      /\ (100 * (from + length) + padding * length) * dpi = 100 * F + 100 * L + Q
  OBVIOUS
<1>5. span = [lo |-> Larger(lo, 0), hi |-> Smaller(hi, limit)]
  BY <1>4 DEF PixelSpan
<1>6. limit \in Nat /\ 72 * limit >= S
  BY <1>1
<1>7. L > 72
  OBVIOUS
<1> HIDE DEF F, L, S, Q
<1>8. lo \in Int /\ 7200 * Larger(lo, 0) <= 100 * F /\ Larger(lo, 0) >= 0 /\ Larger(lo, 0) \in Int
  <2>1. A \in Int /\ A <= 100 * F
    BY <1>1
  <2> HIDE DEF A
  <2>2. /\ lo \in Int
        /\ A >= 0 => lo >= 0 /\ 7200 * lo <= A
        /\ A < 0 => lo <= 0
    BY <2>1, TruncateBounds
  <2> HIDE DEF lo
  <2> QED
    BY <1>1, <2>1, <2>2 DEF Larger
<1>9. hi \in Int /\ 7200 * hi > 100 * F + 100 * L - 7200
  <2>1. B \in Int /\ B >= 0 /\ B >= 100 * F + 100 * L
    BY <1>1
  <2> HIDE DEF B
  <2>2. hi \in Int /\ B < 7200 * hi + 7200
    BY <2>1, TruncateBounds
  <2> HIDE DEF hi
  <2> QED
    BY <1>1, <2>1, <2>2
<1> HIDE DEF lo, hi
<1>10. /\ Smaller(hi, limit) \in Int /\ Smaller(hi, limit) <= limit
       /\ 72 * Smaller(hi, limit) > F + L - 72
  BY <1>1, <1>3, <1>6, <1>9 DEF Smaller
<1>11. span.lo = Larger(lo, 0) /\ span.hi = Smaller(hi, limit)
  BY <1>5
<1> DEFINE l == Larger(lo, 0)
           h == Smaller(hi, limit)
<1> HIDE DEF l, h
<1>12. /\ l \in Int /\ h \in Int
       /\ 0 <= l /\ l < h /\ h <= limit
       /\ l * 72 < F + 72 /\ h * 72 > F + L - 72
  BY <1>1, <1>7, <1>8, <1>10 DEF l, h
<1>13. span.lo = l /\ span.hi = h
  BY <1>11 DEF l, h
<1> DEFINE G == (from + length) * dpi
<1>14. G = F + L
  BY <1>2 DEF F
<1> HIDE DEF G
<1>15. l * 72 < F + 72 /\ h * 72 > G - 72
  BY <1>1, <1>12, <1>14, <1>8, <1>10 DEF l, h
<1> QED
  BY <1>12, <1>13, <1>15, ZenonT(60) DEF F, G, HoldsPixels

\* One side of a smaller image: between one pixel and the bound, each pixel from the source.
LEMMA ShrunkSide ==
  ASSUME NEW side \in Nat, side >= 1, NEW longest \in Nat, side <= longest,
         NEW maxDim \in Nat, maxDim >= 1, maxDim < longest,
         NEW new, new = Larger(1, (side * maxDim) \div longest)
  PROVE  /\ new \in 1..maxDim
         /\ \A k \in 0..(new - 1) : (k * longest) \div maxDim \in 0..(side - 1)
<1> DEFINE q == (side * maxDim) \div longest
<1>1. side * maxDim \in Nat /\ q \in Nat /\ q * longest <= side * maxDim
  BY QuotientBounds
<1>2. side * maxDim <= longest * maxDim
  BY ProductGrows
<1>3. q <= maxDim
  <2> HIDE DEF q
  <2> SUFFICES ASSUME q > maxDim PROVE FALSE
    BY <1>1
  <2>1. (maxDim + 1) * longest <= q * longest
    BY <1>1, ProductGrows
  <2>2. (maxDim + 1) * longest = longest * maxDim + longest
    OBVIOUS
  <2>3. q * longest \in Nat /\ longest * maxDim \in Nat /\ (maxDim + 1) * longest \in Nat
    BY <1>1
  <2> QED
    BY <1>1, <1>2, <2>1, <2>2, <2>3
<1> HIDE DEF q
<1>4. new \in 1..maxDim
  BY <1>1, <1>3 DEF Larger, q
<1>5. ASSUME NEW k \in 0..(new - 1)
      PROVE  (k * longest) \div maxDim \in 0..(side - 1)
  <2> DEFINE p == (k * longest) \div maxDim
  <2>1. k \in Nat /\ k * longest \in Nat
    OBVIOUS
  <2>2. p \in Nat /\ p * maxDim <= k * longest
    BY <2>1, QuotientBounds
  <2>3. k * longest < side * maxDim
    <3>1. CASE k = 0
      <4>1. k * longest = 0
        BY <3>1
      <4>2. side * maxDim >= 1
        BY ProductGrows
      <4> QED
        BY <4>1, <4>2
    <3>2. CASE k # 0
      <4>1. k + 1 <= q
        BY <1>1, <1>4, <1>5, <2>1, <3>2 DEF Larger, q
      <4>2. (k + 1) * longest <= q * longest
        BY <1>1, <2>1, <4>1, ProductGrows
      <4>3. (k + 1) * longest = k * longest + longest
        BY <2>1
      <4>4. q * longest \in Nat
        BY <1>1
      <4> QED
        BY <1>1, <2>1, <4>2, <4>3, <4>4
    <3> QED
      BY <3>1, <3>2
  <2> HIDE DEF p
  <2>4. p < side
    <3> SUFFICES ASSUME p >= side PROVE FALSE
      BY <2>2
    <3>1. side * maxDim <= p * maxDim
      BY <2>2, ProductGrows
    <3>2. p * maxDim \in Nat
      BY <2>2
    <3> QED
      BY <1>1, <2>1, <2>2, <2>3, <3>1, <3>2
  <2> QED
    BY <2>2, <2>4 DEF p
<1> QED
  BY <1>4, <1>5
-----------------------------------------------------------------------------
(* A setting: the list's reading and that of a process that starts.        *)

\* What Snapshot and the list make of a setting is the same.
LEMMA SnapshotAsShown ==
  ASSUME NEW s \in Settings, Plainly(s)
  PROVE  Snapshot(s) = Meaning(s, Shown(s))
<1> DEFINE default == s.default
           raw == Shown(s)
<1>1. /\ s.kind \in Kinds /\ default \in Raw
      /\ s.override \in Raw \cup {Unset} /\ s.env \in Raw \cup {Unset}
      /\ s.kind = "csv" => Empty(default)
      /\ s.kind \in {"int", "bool"} => Parses(default)
      /\ s.override # Unset => s.override \in Raw
      /\ s.env # Unset => s.env \in Raw
  BY LayersAssumption DEF Settings
<1> DEFINE overridden == s.override # Unset /\ s.apply # "bootstrap"
           fromEnv == ~overridden /\ s.env # Unset /\ ~Empty(s.env)
<1>2. /\ overridden => raw = s.override
      /\ fromEnv => raw = s.env
      /\ ~overridden /\ ~fromEnv => raw = default
  <2>1. s.apply = "bootstrap" => [s EXCEPT !.override = Unset].override = Unset
    BY DEF Settings
  <2>2. /\ [s EXCEPT !.override = Unset].env = s.env
        /\ [s EXCEPT !.override = Unset].default = s.default
    BY DEF Settings
  <2> QED
    BY <2>1, <2>2 DEF Shown, RawWithSource
<1>3. \A r \in Raw : ~r.padded => TrimSpace(r) = r
  BY DEF Raw, TrimSpace
<1>4. \A r : Empty(r) => Items(r) = {}
  BY Zenon DEF Empty, Items
<1>5. CASE overridden \/ fromEnv
  <2>1. raw \in Raw /\ ~Empty(raw)
    BY <1>1, <1>2, <1>5 DEF Plainly
  <2>2. Getter(s) = raw
    BY <1>2, <1>5 DEF Getter
  <2> QED
    BY <1>1, <1>2, <1>3, <1>5, <2>1, <2>2 DEF Plainly, Snapshot, From, Meaning, Kinds
<1>6. CASE ~overridden /\ ~fromEnv
  <2>1. raw = default /\ (Getter(s) = Unset \/ Empty(Getter(s)))
    BY <1>2, <1>6 DEF Getter
  <2> QED
    BY <1>1, <1>3, <1>4, <1>6, <2>1 DEF Plainly, Snapshot, From, Meaning, Kinds
<1> QED
  BY <1>5, <1>6
-----------------------------------------------------------------------------
(* From the conversions to the specification: each input has one result.   *)

EvidenceOf(e) ==
  EvidencePage(e.page, IF e.cited THEN {PageRange(CoordPages(e.coords))} ELSE {})
FigureOf(f) == [page |-> FirstPage(f.coords), box |-> FigureBox(f.coords)]
CropOf(c) ==
  PixelRect(c.box, c.dpi, c.padding, Rendered(PageSize, c.dpi), Rendered(PageSize, c.dpi))
ImageOf(i) == Downscaled(i.width, i.height, i.maxDim)

\* A result is the conversion of the input, whichever input there is.
Converted ==
  \/ output = {}
  \/ input \in Settings /\ output = {Snapshot(input)}
  \/ input \in Evidences /\ output = {EvidenceOf(input)}
  \/ input \in Figures /\ output = {FigureOf(input)}
  \/ input \in Crops /\ LargeEnough(input.box) /\ output = {CropOf(input)}
  \/ input \in Images /\ output = {ImageOf(input)}

\* Converted is inductive.
LEMMA AlwaysConverted == Spec => []Converted
<1>1. Init => Converted
  BY DEF Init, Converted
<1>2. Converted /\ [Next]_<<input, output>> => Converted'
  <2> SUFFICES ASSUME Converted, [Next]_<<input, output>>
               PROVE  Converted'
    OBVIOUS
  <2>1. CASE Configure
    BY <2>1 DEF Configure, Convert, Converted
  <2>2. CASE LocateEvidence
    BY <2>2 DEF LocateEvidence, Convert, Converted, EvidenceOf
  <2>3. CASE LocateFigure
    BY <2>3 DEF LocateFigure, Convert, Converted, FigureOf
  <2>4. CASE CropFigure
    BY <2>4 DEF CropFigure, Convert, Converted, CropOf
  <2>5. CASE ShrinkImage
    BY <2>5 DEF ShrinkImage, Convert, Converted, ImageOf
  <2>6. CASE UNCHANGED <<input, output>>
    BY <2>6 DEF Converted
  <2> QED
    BY <2>1, <2>2, <2>3, <2>4, <2>5, <2>6 DEF Next
<1> QED
  BY <1>1, <1>2, PTL DEF Spec

\* The inputs of one conversion are no other's: their fields differ.
LEMMA InputsDiffer ==
  ASSUME NEW x
  PROVE  /\ x \in Settings => x \notin Evidences \cup Figures \cup Crops \cup Images
         /\ x \in Evidences => x \notin Figures \cup Crops \cup Images
         /\ x \in Figures => x \notin Crops \cup Images
         /\ x \in Crops => x \notin Images
<1>1. x \in Settings => DOMAIN x = {"kind", "apply", "default", "override", "env"}
  BY DEF Settings
<1>2. x \in Evidences => DOMAIN x = {"page", "cited", "coords"}
  BY DEF Evidences
<1>3. x \in Figures => DOMAIN x = {"coords"}
  BY DEF Figures
<1>4. x \in Crops => DOMAIN x = {"box", "dpi", "padding"}
  BY DEF Crops
<1>5. x \in Images => DOMAIN x = {"width", "height", "maxDim"}
  BY DEF Images
<1> QED
  BY <1>1, <1>2, <1>3, <1>4, <1>5

\* Each conversion's results.
LEMMA ResultsAre ==
  ASSUME Converted
  PROVE  /\ \A r \in Results(Settings) : input \in Settings /\ r = Snapshot(input)
         /\ \A r \in Results(Evidences) : input \in Evidences /\ r = EvidenceOf(input)
         /\ \A r \in Results(Figures) : input \in Figures /\ r = FigureOf(input)
         /\ \A r \in Results(Crops) :
              input \in Crops /\ LargeEnough(input.box) /\ r = CropOf(input)
         /\ \A r \in Results(Images) : input \in Images /\ r = ImageOf(input)
  BY InputsDiffer DEF Converted, Results

\* A process starts with what the list of settings shows.
THEOREM StartsAsShownHolds == Spec => []StartsAsShown
<1>1. Converted => StartsAsShown
  BY ResultsAre, SnapshotAsShown DEF StartsAsShown
<1> QED
  BY <1>1, AlwaysConverted, PTL

\* The page of an entry of evidence lies in the section it cites.
THEOREM EvidencePageInSectionHolds == Spec => []EvidencePageInSection
<1>1. Converted => EvidencePageInSection
  <2> SUFFICES ASSUME Converted, NEW result \in Results(Evidences)
               PROVE  LET pages == {b.page : b \in {input.coords[i] : i \in 1..Len(input.coords)}}
                          valid == {p \in pages \ {Nil} : p > 0}
                          within(p) == (\E q \in valid : q <= p) /\ (\E q \in valid : p <= q)
                      IN IF input.cited /\ valid # {}
                         THEN within(result) /\ (input.page # Nil /\ within(input.page) => result = input.page)
                         ELSE result = input.page
    BY DEF EvidencePageInSection
  <2>1. input \in Evidences /\ result = EvidenceOf(input)
    BY ResultsAre
  <2> DEFINE valid == CitedPages(input)
  <2>2. IF input.cited /\ valid # {}
        THEN /\ \E q \in valid : q <= result
             /\ \E q \in valid : result <= q
             /\ \A p, q \in valid :
                  input.page # Nil /\ p <= input.page /\ input.page <= q => result = input.page
        ELSE result = input.page
    BY <2>1, EvidencePageIs DEF EvidenceOf
  <2> HIDE DEF valid
  <2>3. IF input.cited /\ valid # {}
        THEN /\ (\E q \in valid : q <= result) /\ (\E q \in valid : result <= q)
             /\ input.page # Nil /\ (\E q \in valid : q <= input.page)
                                 /\ (\E q \in valid : input.page <= q) => result = input.page
        ELSE result = input.page
    BY <2>2
  <2> QED
    BY <2>3 DEF valid, CitedPages
<1> QED
  BY <1>1, AlwaysConverted, PTL

\* The box of a figure is the least one that covers its page.
THEOREM FigureBoxCoversItsPageHolds == Spec => []FigureBoxCoversItsPage
<1>1. Converted => FigureBoxCoversItsPage
  <2> SUFFICES ASSUME Converted, NEW result \in Results(Figures)
               PROVE  LET all == {input.coords[i] : i \in 1..Len(input.coords)}
                          boxes == {b \in all : b.rect # {} /\ b.page # Nil /\ b.page > 0}
                          largest == {b \in boxes : \A c \in boxes : Area(c) <= Area(b)}
                          rects == {RectOf(b) : b \in {c \in boxes : c.page = result.box.page}}
                          sides(r) == [x0 |-> r.x0, y0 |-> r.y0, x1 |-> -r.x1, y1 |-> -r.y1]
                      IN IF boxes = {} THEN result.box = Nil
                         ELSE /\ \E b \in largest : result.box.page = b.page
                              /\ \A f \in {"x0", "y0", "x1", "y1"} :
                                   /\ \A r \in rects : sides(result.box.rect)[f] <= sides(r)[f]
                                   /\ \E r \in rects : sides(result.box.rect)[f] = sides(r)[f]
                              /\ (\A b, c \in all : b.page = c.page) =>
                                   result.page = IF input.coords[1].bare THEN Nil ELSE result.box.page
    BY DEF FigureBoxCoversItsPage
  <2> DEFINE coords == input.coords
             kept == BoxesWithRect(coords)
             all == {coords[i] : i \in 1..Len(coords)}
             boxes == {b \in all : b.rect # {} /\ b.page # Nil /\ b.page > 0}
             largest == {b \in boxes : \A c \in boxes : Area(c) <= Area(b)}
             rects == {RectOf(b) : b \in {c \in boxes : c.page = result.box.page}}
             sides(r) == [x0 |-> r.x0, y0 |-> r.y0, x1 |-> -r.x1, y1 |-> -r.y1]
             dom == Dominant(kept)
  <2>1. input \in Figures /\ result.page = FirstPage(coords) /\ result.box = FigureBox(coords)
    BY ResultsAre DEF FigureOf
  <2>2. coords \in Seq(AnyBox)
    <3>1. BoxesOf({{}} \cup {{r} : r \in Rects}) \subseteq AnyBox
      BY BoxesAssumption DEF BoxesOf, AnyBox, MaybePage, Rectangles
    <3>2. coords \in CoordsOf(BoxesOf({{}} \cup {{r} : r \in Rects}))
      BY <2>1 DEF Figures
    <3> QED
      BY <3>1, <3>2, CoordsAreSequences
  <2>3. kept \in Seq(WholeBox) /\ ToSet(kept) = boxes
    <3>1. kept \in Seq(WholeBox) /\ BoxesSoFar(coords, Len(coords), kept)
      BY <2>2, BoxesWithRectAre
    <3> QED
      BY <3>1 DEF BoxesSoFar, Whole, ValidPage
  <2> HIDE DEF kept, dom
  <2>4. kept = <<>> <=> boxes = {}
    BY <2>3, ElementsOf, SMTT(30)
  <2>5. CASE boxes = {}
    <3>1. FigureBox(coords) = Nil
      BY <2>4, <2>5, NoBox DEF kept
    <3> QED
      BY <2>1, <2>5, <3>1
  <2>6. CASE boxes # {}
    <3>1. dom \in boxes /\ dom \in WholeBox /\ \A i \in 1..Len(kept) : Area(kept[i]) <= Area(dom)
      BY <2>3, <2>4, <2>6, DominantIs DEF LargestSoFar, dom
    <3>2. result.box.page = dom.page /\ result.box.rect \in Rectangles
      BY <2>1, <2>3, <2>4, <2>6, FigureBoxIs DEF dom, kept
    <3>3. UnionSoFar(kept, Len(kept), result.box.rect)
      BY <2>1, <2>3, <2>4, <2>6, FigureBoxIs DEF kept
    <3>4. \E b \in largest : result.box.page = b.page
      <4>1. \A c \in boxes : Area(c) <= Area(dom)
        <5> HIDE DEF boxes
        <5> TAKE c \in boxes
        <5>1. PICK i \in 1..Len(kept) : c = kept[i]
          BY <2>3, ElementsOf
        <5> QED
          BY <3>1, <5>1
      <4> QED
        BY <3>1, <3>2, <4>1
    <3>5. rects = OnPage(kept, dom.page)
      BY <2>3, <3>2 DEF OnPage
    <3>6. \A r \in rects : r \in Rectangles /\ Covers(result.box.rect, r)
      <4> SUFFICES ASSUME NEW b \in boxes, b.page = dom.page
                   PROVE  RectOf(b) \in Rectangles /\ Covers(result.box.rect, RectOf(b))
        BY <3>2
      <4>1. PICK i \in 1..Len(kept) : b = kept[i]
        <5>1. b \in ToSet(kept)
          BY <2>3
        <5> HIDE DEF boxes
        <5> QED
          BY <2>3, <5>1, ElementsOf, ZenonT(60)
      <4>2. b \in WholeBox
        BY <2>3, <4>1
      <4> QED
        BY <3>3, <4>1, <4>2, WholeBoxHas DEF UnionSoFar, dom
    <3>7. SidesFrom(result.box.rect, rects)
      BY <3>3, <3>5 DEF UnionSoFar, dom
    <3>8. \A r \in rects, f \in {"x0", "y0", "x1", "y1"} : sides(result.box.rect)[f] <= sides(r)[f]
      <4> HIDE DEF rects
      <4> QED
        BY <3>2, <3>6 DEF Covers, Rectangles
    <3>9. \A f \in {"x0", "y0", "x1", "y1"} : \E r \in rects : sides(result.box.rect)[f] = sides(r)[f]
      <4> HIDE DEF rects
      <4> QED
        BY <3>2, <3>6, <3>7 DEF SidesFrom, Rectangles
    <3>10. (\A b, c \in all : b.page = c.page) =>
             result.page = IF coords[1].bare THEN Nil ELSE result.box.page
      <4> SUFFICES ASSUME \A b, c \in all : b.page = c.page
                   PROVE  result.page = IF coords[1].bare THEN Nil ELSE result.box.page
        OBVIOUS
      <4>1. dom \in all /\ ValidPage(dom.page) /\ dom.rect # {}
        BY <3>1 DEF ValidPage
      <4>2. coords # <<>> /\ coords[1] \in all /\ coords[1] \in AnyBox /\ Len(coords) \in Nat
        BY <2>2, <4>1
      <4>3. coords[1].page = dom.page
        BY <4>1, <4>2
      <4>4. ASSUME coords[1].bare PROVE Len(coords) # 1
        <5>1. coords[1].rect = {}
          BY <4>2, <4>4 DEF AnyBox
        <5> QED
          BY <4>1, <5>1
      <4> QED
        BY <2>1, <3>2, <4>1, <4>2, <4>3, <4>4 DEF FirstPage
    <3> HIDE DEF largest, rects, all, sides, boxes
    <3> QED
      BY <2>6, <3>4, <3>8, <3>9, <3>10, ZenonT(60) DEF largest, rects, all, sides, boxes
  <2> QED
    BY <2>5, <2>6
<1> QED
  BY <1>1, AlwaysConverted, PTL

\* Three dots per inch or more: below that a figure of the least height need not span a
\* pixel.  And no padding below zero, which would cut into the figure.  The code takes any
\* number for FIGURE_EXTRACT_DPI and for FIGURE_EXTRACT_PADDING_PCT.
FiguresSpanPixels == (\A dpi \in Resolutions : dpi >= 3) /\ (\A p \in Paddings : p >= 0)

\* The crop of a figure that lies on its page holds the figure, with all its whole pixels.
THEOREM CropHoldsFigureHolds == FiguresSpanPixels => (Spec => []CropHoldsFigure)
<1> SUFFICES ASSUME FiguresSpanPixels PROVE Spec => []CropHoldsFigure
  OBVIOUS
<1>1. Converted => CropHoldsFigure
  <2> SUFFICES ASSUME Converted, NEW result \in Results(Crops),
                      0 <= input.box.x /\ input.box.x + input.box.w <= PageSize,
                      0 <= input.box.y /\ input.box.y + input.box.h <= PageSize
               PROVE  LET size == Rendered(PageSize, input.dpi)
                          holds(span, from, length) ==
                            /\ 0 <= span.lo /\ span.lo < span.hi /\ span.hi <= size
                            /\ span.lo * 72 < from * input.dpi + 72
                            /\ span.hi * 72 > (from + length) * input.dpi - 72
                      IN /\ ~EmptyRect(result)
                         /\ holds(result.x, input.box.x, input.box.w)
                         /\ holds(result.y, input.box.y, input.box.h)
    BY DEF CropHoldsFigure
  <2> DEFINE size == Rendered(PageSize, input.dpi)
             dpi == input.dpi
             x == input.box.x
             y == input.box.y
             w == input.box.w
             h == input.box.h
             padding == input.padding
  <2>1. input \in Crops /\ LargeEnough(input.box) /\ result = CropOf(input)
    BY ResultsAre
  <2>2. /\ x \in Nat /\ y \in Nat /\ w \in Nat /\ h \in Nat
        /\ dpi \in Nat /\ dpi >= 3 /\ padding \in Nat /\ PageSize \in Nat
        /\ x + w <= PageSize /\ y + h <= PageSize
    <3>1. input.box.w >= 40 /\ input.box.h >= 30
      BY <2>1 DEF LargeEnough, MinFigureWidth, MinFigureHeight
    <3> QED
      BY <2>1, <3>1, ImagesAssumption DEF Crops, FiguresSpanPixels
  <2>3. /\ result.x = PixelSpan(x, w, dpi, padding, size)
        /\ result.y = PixelSpan(y, h, dpi, padding, size)
    BY <2>1 DEF CropOf, PixelRect
  <2>4. size = (PageSize * dpi + 71) \div 72
    BY DEF Rendered
  <2>5. ASSUME NEW length \in Nat, length >= 30 PROVE length * dpi > 72
    <3>1. 30 * dpi <= length * dpi
      BY <2>2, <2>5, ProductGrows
    <3> QED
      BY <2>2, <3>1
  <2>6. w * dpi > 72 /\ h * dpi > 72
    BY <2>1, <2>2, <2>5 DEF LargeEnough, MinFigureWidth, MinFigureHeight
  <2> HIDE DEF size, dpi, x, y, w, h, padding
  <2>7. HoldsPixels(result.x, x, w, dpi, size) /\ HoldsPixels(result.y, y, h, dpi, size)
    BY <2>2, <2>3, <2>4, <2>6, PixelSpanIs, ZenonT(60)
  <2>8. ~EmptyRect(result)
    BY <2>7 DEF EmptyRect, HoldsPixels
  <2> QED
    BY <2>7, <2>8, Zenon DEF HoldsPixels, size, dpi, x, y, w, h
<1> QED
  BY <1>1, AlwaysConverted, PTL

\* A crop that is scaled down fits and shows only pixels the source has.
THEOREM DownscaleFitsHolds == Spec => []DownscaleFits
<1>1. Converted => DownscaleFits
  <2> SUFFICES ASSUME Converted, NEW result \in Results(Images)
               PROVE  LET small == input.maxDim <= 0 \/ Larger(input.width, input.height) <= input.maxDim
                      IN IF small THEN result.w = input.width /\ result.h = input.height
                         ELSE /\ result.w \in 1..input.maxDim /\ result.h \in 1..input.maxDim
                              /\ \A k \in 0..(result.w - 1) : SampledAt(k, result) \in 0..(input.width - 1)
                              /\ \A k \in 0..(result.h - 1) : SampledAt(k, result) \in 0..(input.height - 1)
    BY DEF DownscaleFits
  <2> DEFINE w == input.width
             h == input.height
             maxDim == input.maxDim
             longest == Larger(w, h)
  <2>1. input \in Images /\ result = Downscaled(w, h, maxDim)
    BY ResultsAre DEF ImageOf
  <2>2. w \in Nat /\ w >= 1 /\ h \in Nat /\ h >= 1 /\ maxDim \in Int
    BY <2>1, ImagesAssumption DEF Images
  <2> HIDE DEF w, h, maxDim
  <2>3. longest \in Nat /\ w <= longest /\ h <= longest
    BY <2>2 DEF Larger
  <2>4. CASE maxDim <= 0 \/ longest <= maxDim
    BY <2>1, <2>4 DEF Downscaled, w, h, maxDim
  <2>5. CASE ~(maxDim <= 0 \/ longest <= maxDim)
    <3>1. maxDim \in Nat /\ maxDim >= 1 /\ maxDim < longest
      BY <2>2, <2>3, <2>5
    <3>2. /\ result.w = Larger(1, (w * maxDim) \div longest)
          /\ result.h = Larger(1, (h * maxDim) \div longest)
          /\ result.num = maxDim /\ result.den = longest
      BY <2>1, <2>5 DEF Downscaled
    <3> HIDE DEF longest
    <3>3. /\ result.w \in 1..maxDim /\ result.h \in 1..maxDim
          /\ \A k \in 0..(result.w - 1) : (k * longest) \div maxDim \in 0..(w - 1)
          /\ \A k \in 0..(result.h - 1) : (k * longest) \div maxDim \in 0..(h - 1)
      BY <2>2, <2>3, <3>1, <3>2, ShrunkSide
    <3>4. \A k : SampledAt(k, result) = (k * longest) \div maxDim
      BY <3>2 DEF SampledAt
    <3> QED
      BY <2>5, <3>3, <3>4, Zenon DEF longest, w, h, maxDim
  <2> QED
    BY <2>4, <2>5
<1> QED
  BY <1>1, AlwaysConverted, PTL
=============================================================================
