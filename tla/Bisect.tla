------------------------------- MODULE Bisect -------------------------------
(***************************************************************************)
(* `ovc bisect` (ovc-core bisect.rs and the command, whose session lives   *)
(* in .ovc-bisect.json between invocations).                               *)
(*                                                                         *)
(* The history is the linear range the module is written for: commit i is  *)
(* the parent of commit i + 1.  The regression came with commit `first`    *)
(* and the user answers truthfully.                                        *)
(***************************************************************************)
EXTENDS Integers, Sequences, SequencesExt

CONSTANTS MaxCommits   \* bound: the length of the history

ASSUME BisectAssumption == MaxCommits \in Nat \ {0}

Commits == 1..MaxCommits

VARIABLES
    first,     \* the commit that brought the regression
    session,   \* what the state file holds
    found,     \* 0, or the commit reported as the first bad one
    tests,     \* the answers given in this session
    strayed    \* an answer was given about a commit that is no candidate

bisectVars == <<first, session, found, tests, strayed>>

NoSession == [on |-> FALSE, good |-> <<>>, bad |-> <<>>, candidates |-> <<>>, current_idx |-> 0]

(* The commits met walking back from bad until good, oldest first; when    *)
(* good is not behind bad the walk only ends at the root.                  *)
collect_commits_between(good, bad) ==
    LET from == IF good < bad THEN good ELSE 0
    IN  [i \in 1..(bad - from - 1) |-> from + i]

(* The middle of what is left (an index from 0). *)
Midpoint(candidates) == Len(candidates) \div 2

Current(s) == s.candidates[s.current_idx + 1]
HasCurrent(s) == s.current_idx < Len(s.candidates)

BisectInit ==
    /\ first \in Commits
    /\ session = NoSession /\ found = 0 /\ tests = 0 /\ strayed = FALSE

NewSession(good, bad) ==
    LET candidates == collect_commits_between(good, bad)
    IN  [on |-> TRUE, good |-> <<good>>, bad |-> <<bad>>,
         candidates |-> candidates, current_idx |-> Midpoint(candidates)]

Start(good, bad) ==
    /\ good < first /\ first <= bad
    /\ session' = NewSession(good, bad)
    /\ found' = 0 /\ tests' = 0 /\ strayed' = FALSE
    /\ UNCHANGED first

(* Test again, or report: the state file goes once a commit is found. *)
PickNext(s) ==
    IF s.candidates = <<>>
      THEN session' = NoSession /\ found' = Last(s.bad)
    ELSE IF Len(s.candidates) = 1
      THEN session' = NoSession /\ found' = s.candidates[1]
      ELSE session' = [s EXCEPT !.current_idx = Midpoint(s.candidates)] /\ UNCHANGED found

(* What stays when the candidate at position pos is good, or is bad. *)
MutAfterGood(candidates, pos) == SubSeq(candidates, pos, Len(candidates))
AfterGood(candidates, pos) == SubSeq(candidates, pos + 1, Len(candidates))
MutBeforeBad(candidates, pos) == SubSeq(candidates, 1, pos - 2)
BeforeBad(candidates, pos) == SubSeq(candidates, 1, pos - 1)

mark_good(s, c) ==
    LET pos == SelectInSeq(s.candidates, LAMBDA x : x = c)
    IN  [s EXCEPT !.good = Append(@, c),
                  !.candidates = IF pos = 0 THEN @ ELSE AfterGood(@, pos)]

mark_bad(s, c) ==
    LET pos == SelectInSeq(s.candidates, LAMBDA x : x = c)
    IN  [s EXCEPT !.bad = Append(@, c),
                  !.candidates = IF pos = 0 THEN @ ELSE BeforeBad(@, pos)]

(* `bisect good` or `bisect bad`, about the current commit or a named one. *)
Mark(c) ==
    /\ session.on /\ tests <= MaxCommits
    /\ PickNext(IF c < first THEN mark_good(session, c) ELSE mark_bad(session, c))
    /\ tests' = tests + 1
    /\ strayed' = (strayed \/ ~Contains(session.candidates, c))
    /\ UNCHANGED first

MarkCurrent == session.on /\ HasCurrent(session) /\ Mark(Current(session))
MarkNamed(c) == Mark(c)

Reset ==
    /\ session.on
    /\ session' = NoSession /\ found' = 0 /\ tests' = 0 /\ strayed' = FALSE
    /\ UNCHANGED first

BisectNext ==
    \/ \E good, bad \in Commits : Start(good, bad)
    \/ MarkCurrent
    \/ \E c \in Commits : MarkNamed(c)
    \/ Reset

BisectSpec == BisectInit /\ [][BisectNext]_bisectVars

(* The range the session still has to look at, by what was answered. *)
LastGood == Max(ToSet(session.good))
FirstBad == Min(ToSet(session.bad))

(* BisectClose: the commit reported as the first bad one is it, or the one *)
(* right before it: the last candidate is reported untested (pick_next),   *)
(* so the report may be one commit early, and never further off.  The user *)
(* answered truthfully and only about candidates.                          *)
BisectClose ==
    found # 0 /\ ~strayed => found \in {first, first - 1}

(* BisectNarrows: while a session runs the candidates are exactly the      *)
(* commits between the newest good answer and the oldest bad one, so no    *)
(* suspect was dropped and no cleared commit is asked about again, and the *)
(* regression came in that range or with its bad end; a session with       *)
(* nothing left to ask is one that was started that way, never one left    *)
(* over by an answer.                                                      *)
BisectNarrows ==
    session.on /\ ~strayed =>
        /\ session.candidates = [i \in 1..(FirstBad - LastGood - 1) |-> LastGood + i]
        /\ LastGood < first /\ first <= FirstBad
        /\ session.candidates = <<>> => tests = 0

(* BisectSound: a session with truthful answers closes in on the           *)
(* regression and ends next to it.                                         *)
BisectSound == BisectClose /\ BisectNarrows
=============================================================================
