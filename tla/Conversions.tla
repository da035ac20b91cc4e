---------------------------- MODULE Conversions ----------------------------
(***************************************************************************)
(* The conversions of the program over bounded inputs, each a step from an *)
(* input to its output, and what makes them correct.                       *)
(***************************************************************************)
EXTENDS SettingLayers, ParsedPages, FigureGeometry, FiniteSets

CONSTANTS Overrides, Variables, Defaults,  \* the raw texts of a setting's layers
          Pages,       \* the page fields of a box
          Rects,       \* its rectangles
          MaxBoxes,    \* bound: boxes of a @coords value
          ModelPages,  \* the pages a model may give
          Lengths,     \* of boxes, and where they start, in points
          PageSize,    \* of a PDF page, in points
          Resolutions, Paddings,
          MaxPixels    \* bound: the sides of an image

ASSUME LayersAssumption == Overrides \cup Variables \cup Defaults \subseteq Raw

ASSUME BoxesAssumption ==
  /\ Pages \cup ModelPages \subseteq Int \cup {Nil}
  /\ Rects \subseteq [x0 : Int, y0 : Int, x1 : Int, y1 : Int]

ASSUME ImagesAssumption ==
  /\ Lengths \cup Resolutions \cup Paddings \subseteq Int
  /\ PageSize \in Nat /\ MaxPixels \in Nat

VARIABLES input,
          output     \* the set of results: none yet, or one

\* In the registry a list has no default, and the default of a number parses.
Settings ==
  {s \in [kind : Kinds, apply : Applies, default : Defaults,
          override : Overrides \cup {Unset}, env : Variables \cup {Unset}] :
     /\ s.kind = "csv" => Empty(s.default)
     /\ s.kind \in {"int", "bool"} => Parses(s.default)}

BoxesOf(rects) == {b \in [page : Pages, rect : rects, bare : BOOLEAN] : b.bare => b.rect = {}}

CoordsOf(boxes) == UNION {[1..n -> boxes] : n \in 0..MaxBoxes}

Evidences ==
  [page : ModelPages, cited : BOOLEAN, coords : CoordsOf(BoxesOf({{}}))]

Figures == [coords : CoordsOf(BoxesOf({{}} \cup {{r} : r \in Rects}))]

Crops ==
  [box : [x : Lengths, y : {0}, w : Lengths, h : Lengths], dpi : Resolutions, padding : Paddings]

Images == [width : 1..MaxPixels, height : 1..MaxPixels, maxDim : -1..(MaxPixels + 1)]

Init == input \in Settings \cup Evidences \cup Figures \cup Crops \cup Images /\ output = {}

\* The side of a rendered page: a pixel that the page reaches into is there.
Rendered(length, dpi) == (length * dpi + 71) \div 72

Convert(inputs, result) ==
  /\ output = {} /\ input \in inputs
  /\ output' = {result} /\ UNCHANGED input

Configure == Convert(Settings, Snapshot(input))

LocateEvidence ==
  Convert(Evidences, EvidencePage(input.page, IF input.cited
                                              THEN {PageRange(CoordPages(input.coords))} ELSE {}))

LocateFigure ==
  Convert(Figures, [page |-> FirstPage(input.coords), box |-> FigureBox(input.coords)])

CropFigure ==
  /\ input \in Crops /\ LargeEnough(input.box)
  /\ Convert(Crops, PixelRect(input.box, input.dpi, input.padding,
                              Rendered(PageSize, input.dpi), Rendered(PageSize, input.dpi)))

ShrinkImage == Convert(Images, Downscaled(input.width, input.height, input.maxDim))

Next == Configure \/ LocateEvidence \/ LocateFigure \/ CropFigure \/ ShrinkImage

Spec == Init /\ [][Next]_<<input, output>>

\* The results for inputs of one conversion.
Results(inputs) == IF input \in inputs THEN output ELSE {}
-----------------------------------------------------------------------------
\* The list's reading of the layers, without the rows that Set would refuse: those of a
\* bootstrap key, which only SQL can put there.
Shown(s) ==
  LET layers == IF s.apply = "bootstrap" THEN [s EXCEPT !.override = Unset] ELSE s
  IN RawWithSource(layers).value

\* The rest is what Set accepts, and a text both readings of a number take: with no
\* spaces around it, and not empty.
Plainly(s) ==
  /\ s.override # Unset /\ s.apply # "bootstrap" => Accepts(s.kind, s.override)
  /\ s.override # Unset => ~Empty(s.override)
  /\ s.kind \in {"int", "bool"} => ~Shown(s).padded

\* The two ways a setting is resolved agree: a process starts with what the list of
\* settings shows, through all layers and for values of the environment that do not
\* parse; and a bootstrap key never has its value from the table.
StartsAsShown ==
  \A result \in Results(Settings) : Plainly(input) => result = Meaning(input, Shown(input))

\* The page of an entry of evidence is in the range of the section it cites, from the
\* lowest to the highest page GROBID gave any of its boxes, whatever the model
\* answered; a page that is in the range is kept, and so is any page when the
\* range is not known.
EvidencePageInSection ==
  \A result \in Results(Evidences) :
    LET pages == {b.page : b \in {input.coords[i] : i \in 1..Len(input.coords)}}
        valid == {p \in pages \ {Nil} : p > 0}
        within(p) == (\E q \in valid : q <= p) /\ (\E q \in valid : p <= q)
    IN IF input.cited /\ valid # {}
       THEN within(result) /\ (input.page # Nil /\ within(input.page) => result = input.page)
       ELSE result = input.page

\* A figure's box is on a page that carries a rectangle of the largest area, covers
\* every rectangle on that page, and is the least that does.  The page a figure is
\* listed on is another reading of the same text: with all boxes on one page it is the
\* page the image is cropped from, but none when the first of several is a bare number.
FigureBoxCoversItsPage ==
  \A result \in Results(Figures) :
    LET all == {input.coords[i] : i \in 1..Len(input.coords)}
        boxes == {b \in all : b.rect # {} /\ b.page # Nil /\ b.page > 0}
        largest == {b \in boxes : \A c \in boxes : Area(c) <= Area(b)}
        rects == {RectOf(b) : b \in {c \in boxes : c.page = result.box.page}}
        sides(r) == [x0 |-> r.x0, y0 |-> r.y0, x1 |-> -r.x1, y1 |-> -r.y1]
    IN IF boxes = {} THEN result.box = Nil
       ELSE /\ \E b \in largest : result.box.page = b.page
            /\ \A f \in {"x0", "y0", "x1", "y1"} :
                 /\ \A r \in rects : sides(result.box.rect)[f] <= sides(r)[f]
                 /\ \E r \in rects : sides(result.box.rect)[f] = sides(r)[f]
            /\ (\A b, c \in all : b.page = c.page) =>
                 result.page = IF input.coords[1].bare THEN Nil ELSE result.box.page

\* A figure that is large enough and on its page has a crop: not empty, on the rendered
\* page, and with every pixel that lies wholly in the figure.
CropHoldsFigure ==
  \A result \in Results(Crops) :
    LET onPage == /\ 0 <= input.box.x /\ input.box.x + input.box.w <= PageSize
                  /\ 0 <= input.box.y /\ input.box.y + input.box.h <= PageSize
        size == Rendered(PageSize, input.dpi)
        holds(span, from, length) ==
          /\ 0 <= span.lo /\ span.lo < span.hi /\ span.hi <= size
          /\ span.lo * 72 < from * input.dpi + 72
          /\ span.hi * 72 > (from + length) * input.dpi - 72
    IN onPage =>
         /\ ~EmptyRect(result)
         /\ holds(result.x, input.box.x, input.box.w)
         /\ holds(result.y, input.box.y, input.box.h)

\* A crop that is scaled down fits, keeps at least one pixel a side, and shows only
\* pixels the source has; one that fits already is left as it is.
DownscaleFits ==
  \A result \in Results(Images) :
    LET small == input.maxDim <= 0 \/ Larger(input.width, input.height) <= input.maxDim
    IN IF small THEN result.w = input.width /\ result.h = input.height
       ELSE /\ result.w \in 1..input.maxDim /\ result.h \in 1..input.maxDim
            /\ \A k \in 0..(result.w - 1) : SampledAt(k, result) \in 0..(input.width - 1)
            /\ \A k \in 0..(result.h - 1) : SampledAt(k, result) \in 0..(input.height - 1)
=============================================================================
