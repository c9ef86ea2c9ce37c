--------------------------- MODULE MCMergedStream ---------------------------
(* Instances of MergedStream for TLC.                                      *)
EXTENDS MergedStream

\* Pages that overlap (3) and are not sorted; 5 is fed twice.
OverlappingPages == <<<<2, 1>>, <<3>>, <<4, 3>>>>
RefedBatches == <<<<5>>, <<5, 6>>>>
Ledgers == <<1, 1, 2, 3, 0, 0>>
=============================================================================
