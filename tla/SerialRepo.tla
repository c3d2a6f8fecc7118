----------------------------- MODULE SerialRepo -----------------------------
(***************************************************************************)
(* What a repository promises to its users: one content that changes by    *)
(* one whole operation at a time, each applied to the content the previous *)
(* one left.  No files, locks or copies.                                   *)
(***************************************************************************)
CONSTANTS
    Branches,   \* branch names
    Commits     \* commits that may be made

VARIABLES
    objs,       \* the commits that are stored
    refs        \* refs[b]: the history of branch b, {} when there is none

Commit ==
    \E b \in Branches, c \in Commits \ objs :
        /\ refs[b] # {}
        /\ objs' = objs \cup {c}
        /\ refs' = [refs EXCEPT ![b] = @ \cup {c}]

CreateBranch ==
    \E b, from \in Branches :
        /\ refs[from] # {}
        /\ refs' = [refs EXCEPT ![b] = refs[from]]
        /\ UNCHANGED objs

DeleteBranch ==
    \E b \in Branches :
        /\ refs' = [refs EXCEPT ![b] = {}]
        /\ UNCHANGED objs

Next == Commit \/ CreateBranch \/ DeleteBranch
=============================================================================
