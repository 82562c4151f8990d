----------------------------- MODULE MCOpenFile -----------------------------
(* Instances of OpenFile for TLC.                                          *)
EXTENDS OpenFile, TLC

MCOffsets == {0, 1}
\* What responses state of the length: the same, or not.
OneSize == {1}
TwoSizes == {1, 2}
NoSizers == {}

\* Goroutines are interchangeable; no property names one.
Symmetry == Permutations(Readers)
=============================================================================
