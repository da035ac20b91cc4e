--------------------------- MODULE FigureGeometry ---------------------------
(***************************************************************************)
(* From a box on a PDF page to the pixels of a crop: the size check of     *)
(* extractFigures (internal/jobs/pipeline.go), and PixelRect and Downscale *)
(* of internal/figures.  The code computes in floating point and truncates;*)
(* here the numbers are exact: points in whole numbers, pixels as          *)
(* numerators over a common denominator, truncated towards zero.           *)
(***************************************************************************)
EXTENDS Integers

MinFigureWidth == 40
MinFigureHeight == 30

\* A box this small is noise.
LargeEnough(box) == box.w >= MinFigureWidth /\ box.h >= MinFigureHeight

\* int(a / b), for b > 0
Truncate(a, b) == IF a >= 0 THEN a \div b ELSE -((-a) \div b)

Smaller(a, b) == IF a < b THEN a ELSE b
Larger(a, b) == IF a > b THEN a ELSE b

\* A padding that is taken from both ends.
PixelSpanShifted(from, length, dpi, padding, limit) ==
  LET lo == Truncate((100 * from - padding * length) * dpi, 7200)
      hi == Truncate((100 * (from + length) - padding * length) * dpi, 7200)
  IN [lo |-> Larger(lo, 0), hi |-> Smaller(hi, limit)]

\* One side of a box, a length from a point, in pixels from 0 up to limit: padding
\* percent of the length is added at both ends.  The scale is dpi / 72.
PixelSpan(from, length, dpi, padding, limit) ==
  LET lo == Truncate((100 * from - padding * length) * dpi, 7200)
      hi == Truncate((100 * (from + length) + padding * length) * dpi, 7200)
  IN [lo |-> Larger(lo, 0), hi |-> Smaller(hi, limit)]

PixelRect(box, dpi, padding, pageW, pageH) ==
  [x |-> PixelSpan(box.x, box.w, dpi, padding, pageW),
   y |-> PixelSpan(box.y, box.h, dpi, padding, pageH)]

EmptyRect(r) == r.x.lo >= r.x.hi \/ r.y.lo >= r.y.hi
-----------------------------------------------------------------------------
(* Downscale: the size of the result, and which pixel of the source each   *)
(* of its pixels shows.                                                    *)

\* A ratio taken from the width, whichever side is longer.
ScaledByWidth(w, h, maxDim) ==
  IF maxDim <= 0 \/ Larger(w, h) <= maxDim THEN [w |-> w, h |-> h, num |-> 1, den |-> 1]
  ELSE [w |-> Larger(1, (w * maxDim) \div w), h |-> Larger(1, (h * maxDim) \div w),
        num |-> maxDim, den |-> w]

Downscaled(w, h, maxDim) ==
  LET longest == Larger(w, h)
  IN IF maxDim <= 0 \/ longest <= maxDim THEN [w |-> w, h |-> h, num |-> 1, den |-> 1]
     ELSE [w |-> Larger(1, (w * maxDim) \div longest), h |-> Larger(1, (h * maxDim) \div longest),
           num |-> maxDim, den |-> longest]

\* The ratio is num / den; pixel k of the result shows this one of the source.
SampledAt(k, size) == (k * size.den) \div size.num
=============================================================================
