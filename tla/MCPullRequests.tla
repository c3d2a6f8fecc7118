--------------------------- MODULE MCPullRequests ---------------------------
(* An instance of PullRequests for TLC. *)
EXTENDS PullRequests

CONSTANTS r1, r2, ann, local_user, feat, main

Commented ==
    [NewPull(Nobody, 99) EXCEPT
        !.comments = <<[id |-> 1, author |-> ann, body |-> 1]>>]

Approved ==
    [Commented EXCEPT
        !.reviews = <<[id |-> 1, by |-> Nobody, verdict |-> "approved"]>>]

OneApproval == [approvals |-> 1, ci |-> FALSE]

(* No pull request, one without review, and one that can be merged. *)
MCStarts ==
    {[prs |-> <<>>, next |-> 1, rule |-> NoRule],
     [prs |-> <<Commented>>, next |-> 2, rule |-> OneApproval],
     [prs |-> <<Approved>>, next |-> 2, rule |-> OneApproval]}
=============================================================================
