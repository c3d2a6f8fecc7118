------------------------------ MODULE MCWorkTree ------------------------------
EXTENDS WorkTree

CONSTANTS p, i, a, b, dev

NewRepo ==
    [commits |-> <<>>, have |-> {}, blobs |-> {}, refs |-> [x \in Branch |-> None],
     tags |-> [x \in Tag |-> None], head |-> Main, headRef |-> Main, reflog |-> <<>>,
     index |-> EmptyTree, stash |-> <<>>, notes |-> {}]

\* One commit on the default branch, then one commit on each of two branches.
Fork(ours, theirs) ==
    LET base == [EmptyTree EXCEPT ![p] = a]
    IN  [NewRepo EXCEPT
            !.commits = <<[tree |-> base, parents |-> <<>>],
                          [tree |-> theirs, parents |-> <<1>>],
                          [tree |-> ours, parents |-> <<1>>]>>,
            !.have = 1 .. 3,
            !.blobs = UNION {Contents(base), Contents(ours), Contents(theirs)},
            !.refs = [@ EXCEPT ![Main] = 3, ![dev] = 2],
            !.reflog = <<[old |-> None, new |-> 1], [old |-> None, new |-> 1],
                         [old |-> 1, new |-> 2], [old |-> 1, new |-> 3]>>,
            !.index = ours]

MCStart ==
    {NewRepo,
     Fork([EmptyTree EXCEPT ![p] = b], [EmptyTree EXCEPT ![p] = Empty, ![i] = a])}
===============================================================================
