--------------------------- MODULE MCFrameUpdate ---------------------------
(***************************************************************************)
(* Constants for model checking FrameUpdate: words of one pixel at depth 4 *)
(* and of one or two at depth 8, where the copiers store two and four;     *)
(* malloc returns memory of one value throughout.                          *)
(***************************************************************************)
EXTENDS FrameUpdate

CONSTANT WidestWord   \* how many pixels a word of the 8-bit copier has

MCPixelsPerWord == [d \in {4, 8} |-> IF d = 4 THEN 1 ELSE WidestWord]

MCMallocFrames == {[p \in Cells |-> v] : v \in Pixels}
=============================================================================
