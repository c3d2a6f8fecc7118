----------------------------- MODULE MCCloudSync ----------------------------
(* Small instances of CloudSync for TLC. *)
EXTENDS CloudSync, TLC

CONSTANTS c1, c2, b1, x1, y1

FirstFile  == {b1}
TwoFiles   == {{b1}, {x1, y1}}
ThreeFiles == {{b1}, {x1}, {y1}}

Symmetry == Permutations({c1, c2}) \cup Permutations({x1, y1})
=============================================================================
