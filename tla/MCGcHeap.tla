------------------------------ MODULE MCGcHeap ------------------------------
(* The objects of a kind are alike, and so are the roots.                  *)
EXTENDS GcHeap, TLC

ObjSymmetry == Permutations(Tables) \cup Permutations(Closures)
                 \cup Permutations(Strings) \cup Permutations(Roots)
=============================================================================
