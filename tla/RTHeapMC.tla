------------------------------ MODULE RTHeapMC ------------------------------
(***************************************************************************)
(* Heaps of three levels whose last parents have one child and two, with   *)
(* equal and distinct start times.  Instruments are only ever compared for *)
(* identity, so safety is checked up to their permutations.                *)
(***************************************************************************)
EXTENDS RTHeap, TLC

CONSTANTS i1, i2, i3, i4, i5, i6
SixInsts == {i1, i2, i3, i4, i5, i6}
Symmetry == Permutations(SixInsts)
ThreeStarts == {0, 1, 2}
Before2And3 == {2, 3}
=============================================================================
