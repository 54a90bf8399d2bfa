----------------------------- MODULE MCSegmenter -----------------------------
(* Segmenter for TLC: threads are interchangeable, and so are renditions.   *)
EXTENDS Segmenter, TLC

Symmetry == Permutations(Threads) \cup Permutations(Renditions)
=============================================================================
