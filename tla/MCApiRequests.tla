--------------------------- MODULE MCApiRequests ----------------------------
(* Instances of ApiRequests for TLC: the requests of one server. *)
EXTENDS ApiRequests

CONSTANTS w1, w2, r1, home

OneHost   == [p \in Procs |-> home]
AllProbes == Procs \X Procs
=============================================================================
