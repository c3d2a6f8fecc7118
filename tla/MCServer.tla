------------------------------- MODULE MCServer -----------------------------
(***************************************************************************)
(* The parts of the API server that keep state of their own: sessions, the *)
(* maps about repositories, the scheduler, the files of actions and the    *)
(* dependency updates.  They share no variable, so a behaviour is one of   *)
(* one part while the others rest; nor do the two kinds of files of        *)
(* actions, but for the mark that somebody died.                           *)
(***************************************************************************)
EXTENDS Sessions, ServerRepos, Scheduler, ActionFiles, DepUpdates

CONSTANTS alpha, beta

VARIABLE part

(* One repository gives its user everything, the other one little. *)
Standings == {[r \in Repos |-> IF r = alpha THEN "owner" ELSE s] : s \in {"read", "keyonly"}}

(* The repository that is there first had one save; those that come after  *)
(* a deletion have one or two.                                             *)
FirstSeq == 1

Schedules ==
    [nightly |-> [hour |-> 1, minute |-> 0], hourly |-> [hour |-> Star, minute |-> 1],
     broken |-> Malformed]

Passphrases == [w \in Writers |-> IF w = 1 THEN 1 ELSE 0]

Init ==
    /\ part \in {"sessions", "repos", "scheduler", "updates", "history", "deps"}
    /\ SessionsInit /\ acl \in Standings /\ (part = "sessions" \/ acl[beta] = "read")
    /\ ReposInit /\ file.seq = FirstSeq /\ (part = "repos" \/ password = 0)
    /\ SchedulerInit /\ (part = "scheduler" \/ instant = 0)
    /\ FilesInit /\ (part = "updates" \/ disk["config"] = Missing)
    /\ DepInit

Next ==
    /\ \/ /\ part = "sessions" /\ SessionsNext
          /\ UNCHANGED <<reposVars, schedulerVars, filesVars, depVars>>
       \/ /\ part = "repos" /\ ReposNext
          /\ UNCHANGED <<sessionsVars, schedulerVars, filesVars, depVars>>
       \/ /\ part = "scheduler" /\ SchedulerNext
          /\ UNCHANGED <<sessionsVars, reposVars, filesVars, depVars>>
       \/ /\ \/ part = "updates" /\ UpdateStep
             \/ part = "history" /\ HistoryStep
          /\ UNCHANGED <<sessionsVars, reposVars, schedulerVars, depVars>>
       \/ /\ part = "deps" /\ DepNext
          /\ UNCHANGED <<sessionsVars, reposVars, schedulerVars, filesVars>>
    /\ UNCHANGED part

Spec == Init /\ [][Next]_<<sessionsVars, reposVars, schedulerVars, filesVars, depVars, part>>
=============================================================================
