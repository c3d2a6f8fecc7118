-------------------------- MODULE MCAccessControl ---------------------------
(* Instances of AccessControl for TLC. *)
EXTENDS AccessControl, TLC

(* Users other than the founder are alike, and so are the copies. *)
CONSTANTS u1, u2, u3, c1, c2
AnyUser == Permutations({u2, u3}) \cup Permutations(Copies)
=============================================================================
