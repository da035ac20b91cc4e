--------------------------- MODULE MCConversions ---------------------------
(* The inputs of Conversions for TLC.                                       *)
EXTENDS Conversions

AnyOf(literals) == [core : literals \cup {"", "word"}, padded : BOOLEAN]

MCOverrides == AnyOf({"row"})
MCVariables == AnyOf({"variable"})
MCDefaults == {Plain("default"), Plain("")}
MCPages == {Nil, -1, 0, 1, 2, 3}
MCRects == {[x0 |-> 0, y0 |-> 1, x1 |-> 2, y1 |-> 3], [x0 |-> 1, y0 |-> 0, x1 |-> 2, y1 |-> 4],
            [x0 |-> 1, y0 |-> 1, x1 |-> 1, y1 |-> 2]}
MCModelPages == {Nil} \cup -1..4
MCLengths == {-3, 0, 7, 29, 30, 39, 40, 61}
MCResolutions == {72, 100, 150}
MCPaddings == {0, 2, 30}
=============================================================================
