----------------------------- MODULE MCRepoSave -----------------------------
(* Instances of RepoSave for TLC. *)
EXTENDS RepoSave

CONSTANTS p1, p2, home, away

(* Every process reports the same host name, or p1 reports another one. *)
OneHost  == [p \in Procs |-> home]
TwoHosts == [p \in Procs |-> IF p = p1 THEN home ELSE away]

(* `kill -0` is reliable between all processes (one pid namespace) or for  *)
(* p1 only (p2 is in a container).                                         *)
AllProbes    == Procs \X Procs
OneWayProbes == {pr \in Procs \X Procs : pr[1] = p1}
=============================================================================
