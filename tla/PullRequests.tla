---------------------------- MODULE PullRequests ----------------------------
(***************************************************************************)
(* The pull requests of one repository: the store kept in the .ovc file    *)
(* (ovc-core/src/pulls.rs), the handlers of one server that change it      *)
(* (routes/pulls.rs) and one command line process that commits meanwhile   *)
(* and saves with save_with_merge.                                         *)
(*                                                                         *)
(* A handler that only changes the store takes the repository's mutex,     *)
(* opens, changes and saves: one action.  Three handlers have steps of     *)
(* their own, because they read the file long before they write it: a      *)
(* merge reads the pull request and the protection rule before it waits    *)
(* for the mutex, a run of the checks writes back the pull request it read *)
(* before the checks ran, and a creation keeps the mutex while it runs     *)
(* them.                                                                   *)
(*                                                                         *)
(* A pull request is [state, checks, reviews, comments, upd, commit, by,   *)
(* need]: "by" (who created it) stands for its title and author, and       *)
(* "need" is a history field, the approvals that the gate of its merge     *)
(* asked for.  All pull requests go from Source to Target.                 *)
(***************************************************************************)
EXTENDS Integers, Sequences, FiniteSets, SequencesExt

CONSTANTS
    Requests,     \* the requests that the server gets
    Users,        \* the subjects of tokens
    LocalUser,    \* the subject "local-user", which may edit any comment
    Source,       \* the branch that all pull requests come from
    Target,       \* the branch that they go to
    Starts,       \* the stores that the file may hold at the start
    Configs,      \* what the actions configuration of the tree may be
    MaxPulls,     \* MAX_PULL_REQUESTS
    MaxItems,     \* bound on the reviews, and on the comments, of one
    MaxSecond,    \* bound on the clock
    MaxCommits    \* bound on the commits

ASSUME PullAssumptions ==
    /\ LocalUser \in Users
    /\ Source # Target
    /\ Configs \subseteq {"none", "plain", "pull_request"}
    /\ {MaxPulls, MaxItems, MaxSecond, MaxCommits} \subseteq Nat

VARIABLES
    prs,       \* PullRequestStore.pull_requests of the file
    next,      \* PullRequestStore.next_number of the file
    rule,      \* the approvals that the rule of Target requires, or NoRule
    hist,      \* hist[b]: the commits of branch b, {} when it is absent
    head,      \* the branch that HEAD names
    mutex,     \* the request that holds the repository's mutex, or Nobody
    job,       \* job[r]: how far the handler of request r is
    cli,       \* the file as the command line process opened it
    config,    \* the actions configuration that ActionsConfig::load finds
    now,       \* [s, k]: the second, and the stamps made so far
    made,      \* the commits made so far
    merges,    \* history: merges[n] is how many merges of n made a commit
    replaced,  \* history: the numbers whose stale copy a check run saved
    tied,      \* history: the numbers whose stale copy had no older stamp
    rolled     \* history: a merging save kept an older tip of Target

store == <<prs, next, rule, hist, head>>
ghosts == <<merges, replaced, tied, rolled>>
vars == <<store, mutex, job, cli, config, now, made, ghosts>>

Branches == {Source, Target}
States   == {"open", "closed", "merged"}
Verdicts == {"approved", "changes_requested", "commented"}
NoRule   == [approvals |-> 0, ci |-> FALSE]
Rules    == [approvals : 0..1, ci : BOOLEAN]
Nobody   == "nobody"

NewPull(by, upd) ==
    [state |-> "open", checks |-> "none", reviews |-> <<>>, comments |-> <<>>,
     upd |-> upd, commit |-> 0, by |-> by, need |-> 0]

PullType ==
    [state : States, checks : {"none", "passing", "failing"},
     reviews : Seq([id : 1..MaxItems, by : Requests \cup {Nobody},
                    verdict : Verdicts]),
     comments : Seq([id : 1..MaxItems, author : Users, body : 1..2]),
     upd : Nat, commit : 0..MaxCommits, by : Requests \cup {Nobody}, need : 0..1]

Approvals(pr) ==
    Cardinality({i \in DOMAIN pr.reviews : pr.reviews[i].verdict = "approved"})

(* A file at the start is one that the handlers leave. *)
ASSUME StartAssumptions ==
    \A s \in Starts :
        /\ s.next \in 1 .. MaxPulls + 1 /\ s.rule \in Rules
        /\ DOMAIN s.prs \subseteq 1 .. s.next - 1
        /\ \A n \in DOMAIN s.prs :
              /\ s.prs[n] \in PullType
              /\ \A i \in DOMAIN s.prs[n].reviews : s.prs[n].reviews[i].id = i
              /\ s.prs[n].state = "merged" =>
                    s.prs[n].commit = 1 /\ Approvals(s.prs[n]) >= s.prs[n].need

Idle == [pc |-> "idle", n |-> 0, snap |-> NewPull(Nobody, 0),
         force |-> FALSE, need |-> 0]

Closed == [open |-> FALSE, prs |-> <<>>, next |-> 1, rule |-> NoRule,
           hist |-> [b \in Branches |-> {}]]

---------------------------------------------------------------------------
(* Time stamps are strings and compare as strings.  now_iso8601 ends the   *)
(* second with "Z", to_rfc3339 goes on with ".": within a second the first *)
(* is the greater, two of the first are equal, two of the second differ.   *)

Ticks == 100
FracStamp(t) == t.s * Ticks + t.k
now_iso8601(t) == t.s * Ticks + Ticks - 1

(* A stamp is made in this second or in a later one. *)
Clock == {[s |-> s, k |-> now.k + 1] : s \in now.s .. MaxSecond}

---------------------------------------------------------------------------
(* ovc-core/src/pulls.rs *)

(* Mutant: the limit is the only thing that next_pr_number looks at. *)
MutNextPrNumber(s) == s.next <= MaxPulls + 1

(* next_pr_number gives a number. *)
next_pr_number(s) ==
    /\ Cardinality(DOMAIN s.prs) < MaxPulls
    /\ s.next <= MaxPulls

SavedPull(ps, n, pr) == [m \in DOMAIN ps \cup {n} |-> IF m = n THEN pr ELSE ps[m]]

(* The first list and what only the other has, sorted by id; the sort      *)
(* keeps the order of items with one id.                                   *)
ById(items, other) ==
    LET both    == items \o other
        kept    == {p \in DOMAIN both :
                       p <= Len(items) \/ \A i \in DOMAIN items : items[i].id # both[p].id}
        upTo(p) == {q \in kept : both[q].id < both[p].id
                                    \/ (both[q].id = both[p].id /\ q <= p)}
    IN  [k \in 1..Cardinality(kept) |->
            both[CHOOSE p \in kept : Cardinality(upTo(p)) = k]]

(* Mutant: the newer copy is taken with its reviews and comments. *)
MutMergePull(local, other) ==
    [(IF other.upd > local.upd THEN other ELSE local) EXCEPT !.by = local.by]

MergePull(local, other) ==
    LET newer == IF other.upd > local.upd THEN other ELSE local
    IN  [newer EXCEPT !.reviews  = ById(local.reviews, other.reviews),
                      !.comments = ById(local.comments, other.comments),
                      !.by = local.by]

(* Mutant: the counter of the local copy is kept. *)
MutMergeFrom(local, other) ==
    [prs  |-> [n \in DOMAIN local.prs \cup DOMAIN other.prs |->
                  IF n \notin DOMAIN local.prs THEN other.prs[n]
                  ELSE IF n \notin DOMAIN other.prs THEN local.prs[n]
                  ELSE MergePull(local.prs[n], other.prs[n])],
     next |-> local.next]

(* merge_from: a number only one copy has is taken as it is; reviews and   *)
(* comments are united by id; the rest is that of the newer stamp.         *)
MergeFrom(local, other) ==
    [prs  |-> [n \in DOMAIN local.prs \cup DOMAIN other.prs |->
                  IF n \notin DOMAIN local.prs THEN other.prs[n]
                  ELSE IF n \notin DOMAIN other.prs THEN local.prs[n]
                  ELSE MergePull(local.prs[n], other.prs[n])],
     next |-> IF other.next > local.next THEN other.next ELSE local.next]

---------------------------------------------------------------------------
(* Handlers of one step: lock, open, change, save, unlock. *)

Goto(r, pc) == job' = [job EXCEPT ![r].pc = pc]

(* A handler that may begin, answered when it has waited for the mutex. *)
Locked(r) == job[r].pc = "idle" /\ mutex = Nobody

PutPull(r, n, pr) ==
    /\ prs' = [prs EXCEPT ![n] = pr]
    /\ Goto(r, "done")
    /\ UNCHANGED <<next, rule, hist, head, mutex, cli, config, made, ghosts>>

(* Mutant: a merged pull request can be updated. *)
MutMayUpdate(pr) == TRUE

MayUpdate(pr) == pr.state # "merged"

(* update_pull_request: close, reopen, or change the title. *)
UpdatePull(r, n) ==
    /\ Locked(r)
    /\ MayUpdate(prs[n])
    /\ \E st \in {"open", "closed"} :
         /\ now' \in Clock
         /\ PutPull(r, n, [prs[n] EXCEPT !.state = st, !.upd = now_iso8601(now')])

(* create_review; the id is one more than the number of reviews. *)
CreateReview(r, n) ==
    /\ Locked(r)
    /\ prs[n].state = "open"
    /\ Len(prs[n].reviews) < MaxItems
    /\ \E v \in Verdicts :
         /\ now' \in Clock
         /\ PutPull(r, n, [prs[n] EXCEPT
              !.reviews = Append(@, [id |-> Len(@) + 1, by |-> r, verdict |-> v]),
              !.upd = FracStamp(now')])

(* create_comment, on a pull request in any state. *)
CreateComment(r, n) ==
    /\ Locked(r)
    /\ Len(prs[n].comments) < MaxItems
    /\ \E u \in Users :
         /\ now' \in Clock
         /\ PutPull(r, n, [prs[n] EXCEPT
              !.comments = Append(@, [id |-> Len(@) + 1, author |-> u, body |-> 1]),
              !.upd = FracStamp(now')])

(* The place of the comment that a handler finds: the first of that id. *)
CommentAt(pr, id) ==
    {i \in DOMAIN pr.comments :
        pr.comments[i].id = id /\ \A j \in 1 .. i - 1 : pr.comments[j].id # id}

MayEdit(c, u) == u \in {c.author, LocalUser}

(* update_comment changes the comment, not the stamp of the pull request. *)
UpdateComment(r, n) ==
    /\ Locked(r)
    /\ \E id \in 1..MaxItems, u \in Users : \E i \in CommentAt(prs[n], id) :
         /\ MayEdit(prs[n].comments[i], u)
         /\ now' \in Clock
         /\ PutPull(r, n, [prs[n] EXCEPT !.comments[i].body = 2])

DeleteComment(r, n) ==
    /\ Locked(r)
    /\ \E id \in 1..MaxItems, u \in Users : \E i \in CommentAt(prs[n], id) :
         /\ MayEdit(prs[n].comments[i], u)
         /\ now' \in Clock
         /\ PutPull(r, n, [prs[n] EXCEPT !.comments = RemoveAt(@, i),
                                         !.upd = FracStamp(now')])

PutRule(r, p) ==
    /\ Locked(r)
    /\ rule' = p
    /\ Goto(r, "done")
    /\ UNCHANGED <<prs, next, hist, head, mutex, cli, config, now, made, ghosts>>

(* set_branch_protection of Target, by an admin. *)
SetBranchProtection(r) == \E p \in Rules : PutRule(r, p)

(* remove_branch_protection, an error when there is no rule. *)
RemoveBranchProtection(r) == rule # NoRule /\ PutRule(r, NoRule)

---------------------------------------------------------------------------
(* create_pull_request: the mutex is kept until the handler returns. *)

HasChecks == config = "pull_request"

CreatePull(r) ==
    /\ Locked(r)
    /\ hist[Source] # {} /\ hist[Target] # {}
    /\ next_pr_number([prs |-> prs, next |-> next])
    /\ now' \in Clock
    /\ LET pr == NewPull(r, now_iso8601(now'))
       IN  /\ prs' = SavedPull(prs, next, pr)
           /\ next' = next + 1
           /\ IF HasChecks
                THEN /\ mutex' = r
                     /\ job' = [job EXCEPT ![r].pc = "checking", ![r].n = next,
                                           ![r].snap = pr]
                ELSE UNCHANGED mutex /\ Goto(r, "done")
    /\ UNCHANGED <<rule, hist, head, cli, config, made, ghosts>>

---------------------------------------------------------------------------
(* run_pr_checks and the run_checks_for_pr it shares with the creation *)

(* The pull request is read without the mutex; without actions for pull    *)
(* requests the handler returns it unchanged.                              *)
RunPrChecks(r, n) ==
    /\ job[r].pc = "idle"
    /\ prs[n].state = "open"
    /\ job' = [job EXCEPT ![r].pc = IF HasChecks THEN "checking" ELSE "done",
                          ![r].n = n, ![r].snap = prs[n]]
    /\ UNCHANGED <<store, mutex, cli, config, now, made, ghosts>>

Released(r) == IF mutex = r THEN Nobody ELSE mutex

(* Mutant: the guard of a creation is not dropped with an error. *)
MutCheckError(r) == Goto(r, "done") /\ UNCHANGED mutex

CheckError(r) == Goto(r, "done") /\ mutex' = Released(r)

(* results_to_pr_checks: the checks ran and the snapshot gets the result.  *)
(* A missing branch ends the handler (collect_changed_paths), and with it  *)
(* the guard of a creation.                                                *)
FinishChecks(r) ==
    /\ job[r].pc = "checking"
    /\ \/ /\ {} \in {hist[b] : b \in Branches}
          /\ CheckError(r)
          /\ UNCHANGED now
       \/ /\ {} \notin {hist[b] : b \in Branches}
          /\ now' \in Clock
          /\ \E c \in {"passing", "failing"} :
               job' = [job EXCEPT ![r].pc = "saving", ![r].snap.checks = c,
                                  ![r].snap.upd = now_iso8601(now')]
          /\ UNCHANGED mutex
    /\ UNCHANGED <<store, cli, config, made, ghosts>>

(* The mutex is taken and the snapshot saved over what the file holds by   *)
(* now.  A creation waits here for the mutex that it holds itself.         *)
SaveChecks(r) ==
    /\ job[r].pc = "saving"
    /\ mutex = Nobody
    /\ LET n == job[r].n IN
         /\ prs' = SavedPull(prs, n, job[r].snap)
         /\ replaced' = IF [prs[n] EXCEPT !.checks = job[r].snap.checks,
                                          !.upd = job[r].snap.upd] = job[r].snap
                          THEN replaced ELSE replaced \cup {n}
    /\ Goto(r, "done")
    /\ UNCHANGED <<next, rule, hist, head, mutex, cli, config, now, made,
                   merges, tied, rolled>>

---------------------------------------------------------------------------
(* merge_pull_request *)

(* The snapshot, its state and its checks. *)
BeginMerge(r, n) ==
    /\ job[r].pc = "idle"
    /\ prs[n].state = "open"
    /\ \E f \in BOOLEAN :
         /\ f \/ prs[n].checks # "failing"
         /\ job' = [job EXCEPT ![r] = [pc |-> IF f THEN "merging" ELSE "gate",
                         n |-> n, snap |-> prs[n], force |-> f, need |-> 0]]
    /\ UNCHANGED <<store, mutex, cli, config, now, made, ghosts>>

(* Mutant: every review counts as an approval. *)
MutGateHolds(pr) ==
    /\ Len(pr.reviews) >= rule.approvals
    /\ rule.ci => pr.checks = "passing"

(* The rule of the target branch, read when the file is opened again. *)
GateHolds(pr) ==
    /\ Approvals(pr) >= rule.approvals
    /\ rule.ci => pr.checks = "passing"

(* Refused, or on to the hooks. *)
PassGate(r) ==
    /\ job[r].pc = "gate"
    /\ job' = [job EXCEPT ![r].pc = IF GateHolds(job[r].snap) THEN "hooks" ELSE "done",
                          ![r].need = rule.approvals]
    /\ UNCHANGED <<store, mutex, cli, config, now, made, ghosts>>

(* run_pre_merge_hooks and check_branch_protection of ovc-actions: nothing *)
(* to run without a configuration.  With one they call block_on on a       *)
(* worker of the server's own runtime, which panics and ends the request.  *)
RunMergeHooks(r) ==
    /\ job[r].pc = "hooks"
    /\ Goto(r, IF config = "none" THEN "merging" ELSE "panicked")
    /\ UNCHANGED <<store, mutex, cli, config, now, made, ghosts>>

(* create_commit: the commit goes to the branch that HEAD names. *)
CreateCommit(h) ==
    /\ made < MaxCommits
    /\ made' = made + 1
    /\ hist' = [hist EXCEPT ![h] = @ \cup {made'}]

(* Mutant: HEAD is not moved to the target for the commit. *)
MutMergeHead(b) == head

(* set_head of the target before the commit; HEAD is put back after it. *)
MergeHead(b) == b

(* Mutant: the state is not looked at again under the mutex. *)
MutStillOpen(pr) == TRUE

StillOpen(pr) == pr.state = "open"

(* Under the mutex: the pull request is read again.  It stays as it is     *)
(* when the tips are equal or the trees conflict.                          *)
MergePullRequest(r) ==
    LET n == job[r].n IN
    /\ job[r].pc = "merging"
    /\ mutex = Nobody
    /\ Goto(r, "done")
    /\ \/ /\ StillOpen(prs[n])
          /\ hist[Source] # {} /\ hist[Target] # {}
          /\ hist[Source] # hist[Target]
          /\ CreateCommit(MergeHead(Target))
          /\ now' \in Clock
          /\ prs' = [prs EXCEPT ![n].state = "merged", ![n].upd = now_iso8601(now'),
                                ![n].commit = made', ![n].need = job[r].need]
          /\ merges' = [merges EXCEPT ![n] = @ + 1]
       \/ UNCHANGED <<prs, hist, now, made, merges>>
    /\ UNCHANGED <<next, rule, head, mutex, cli, config, replaced, tied, rolled>>

---------------------------------------------------------------------------
(* A command line process: it opens the file and commits on the branch of  *)
(* HEAD, with save_with_merge, or deletes Source.                          *)

OnDisk == [open |-> TRUE, prs |-> prs, next |-> next, rule |-> rule, hist |-> hist]

CliOpen ==
    /\ ~cli.open
    /\ cli' = OnDisk
    /\ UNCHANGED <<store, mutex, job, config, now, made, ghosts>>

(* merge_and_save: a branch, or a rule, that both copies have is the local *)
(* one.                                                                    *)
MergedCopy(local) ==
    LET m == MergeFrom(local, OnDisk)
    IN  [prs  |-> m.prs, next |-> m.next,
         rule |-> IF local.rule = NoRule THEN rule ELSE local.rule,
         hist |-> [b \in Branches |->
                      IF local.hist[b] = {} THEN hist[b] ELSE local.hist[b]]]

(* Numbers whose stale copy the stamps do not tell from a newer one. *)
Tied == {n \in DOMAIN cli.prs \cap DOMAIN prs :
             cli.prs[n] # prs[n] /\ cli.prs[n].upd >= prs[n].upd}

CliSave(local) ==
    LET file == IF cli = OnDisk THEN local ELSE MergedCopy(local)
    IN  /\ cli.open
        /\ cli' = Closed
        /\ prs' = file.prs /\ next' = file.next
        /\ rule' = file.rule /\ hist' = file.hist
        /\ tied' = tied \cup Tied
        /\ rolled' = (rolled \/ cli.hist[Target] # hist[Target])
        /\ UNCHANGED <<head, mutex, job, config, now, merges, replaced>>

CliCommit ==
    /\ cli.open /\ made < MaxCommits
    /\ made' = made + 1
    /\ CliSave([cli EXCEPT !.hist[head] = @ \cup {made'}])

(* branch -D saves without merging: a conflict is an error. *)
CliDeleteSource ==
    /\ cli.open /\ head # Source
    /\ hist' = IF cli = OnDisk THEN [hist EXCEPT ![Source] = {}] ELSE hist
    /\ cli' = Closed
    /\ UNCHANGED <<prs, next, rule, head, mutex, job, config, now, made, ghosts>>

---------------------------------------------------------------------------
Init ==
    /\ \E s \in Starts : prs = s.prs /\ next = s.next /\ rule = s.rule
    /\ hist = [b \in Branches |-> IF b = Source THEN {1, 2} ELSE {1}]
    /\ head \in Branches
    /\ mutex = Nobody
    /\ job = [r \in Requests |-> Idle]
    /\ cli = Closed
    /\ config \in Configs
    /\ now = [s |-> 0, k |-> 0]
    /\ made = 2
    /\ merges = [n \in 1..MaxPulls |-> 0]
    /\ replaced = {} /\ tied = {} /\ rolled = FALSE

OnPull(r, n) ==
    \/ UpdatePull(r, n) \/ CreateReview(r, n) \/ CreateComment(r, n)
    \/ UpdateComment(r, n) \/ DeleteComment(r, n)
    \/ RunPrChecks(r, n) \/ BeginMerge(r, n)

(* The steps of a handler that has begun. *)
Continue(r) ==
    \/ FinishChecks(r) \/ SaveChecks(r)
    \/ PassGate(r) \/ RunMergeHooks(r) \/ MergePullRequest(r)

Next ==
    \/ \E r \in Requests :
         \/ \E n \in DOMAIN prs : OnPull(r, n)
         \/ CreatePull(r)
         \/ SetBranchProtection(r) \/ RemoveBranchProtection(r)
         \/ Continue(r)
    \/ CliOpen \/ CliCommit \/ CliDeleteSource

(* tokio polls a handler that can go on. *)
Fairness == \A r \in Requests : WF_vars(Continue(r))

Spec == Init /\ [][Next]_vars /\ Fairness

---------------------------------------------------------------------------
(* Every value has its type; numbers stay within MAX_PULL_REQUESTS. *)
TypeOK ==
    /\ DOMAIN prs \subseteq 1..MaxPulls
    /\ next \in 1 .. MaxPulls + 1
    /\ \A n \in DOMAIN prs : prs[n] \in PullType
    /\ rule \in Rules
    /\ hist \in [Branches -> SUBSET (1..made)]
    /\ mutex \in Requests \cup {Nobody}
    /\ \A r \in Requests :
         job[r].pc \in {"idle", "checking", "saving", "gate", "hooks", "merging",
                        "done", "panicked"}

(* The number of a pull request is given once: none is ever lost or taken  *)
(* over by another, although the command line saves a copy with an older   *)
(* counter (next_pr_number, PullRequestStore::merge_from).                 *)
PullsKept ==
    [][\A n \in DOMAIN prs :
          n \in DOMAIN prs' /\ prs'[n].by = prs[n].by]_vars

(* A merged pull request stays merged, whatever handler ran or was waiting *)
(* meanwhile, except for two stale copies: the one that a run of the       *)
(* checks writes back (run_checks_for_pr), and one that a merging save     *)
(* cannot tell from a newer one because the stamps are of one second.      *)
MergedIsFinal ==
    [][\A n \in DOMAIN prs \ (replaced' \cup tied') :
          prs[n].state = "merged" => prs'[n].state = "merged"]_vars

(* A review that was answered stays with its pull request: a merge of two  *)
(* copies loses none, whichever copy is the newer.  Only the snapshot of a *)
(* run of the checks does.                                                 *)
ReviewsKept ==
    [][\A n \in DOMAIN prs \ replaced' :
          Range(prs[n].reviews) \subseteq Range(prs'[n].reviews)]_vars

(* A pull request merged without force has the approvals that the rule of  *)
(* the target asked for when the request read it, although gate and merge  *)
(* read the pull request at different times and only the second holds the  *)
(* mutex.                                                                  *)
ApprovedMerges ==
    \A n \in DOMAIN prs \ replaced :
        prs[n].state = "merged" => Approvals(prs[n]) >= prs[n].need

(* Of several merge requests for one pull request that all passed the gate *)
(* one makes a commit: the others see the state again under the mutex.     *)
OneMergeCommit ==
    \A n \in DOMAIN merges \ (replaced \cup tied) : merges[n] <= 1

(* The merge commit of a merged pull request is on the target branch,      *)
(* whatever branch HEAD named, until a command line process that opened    *)
(* the file before saves its own older tip (merge_and_save).               *)
MergeOnTarget ==
    \A n \in DOMAIN prs :
        prs[n].state = "merged" => prs[n].commit \in hist[Target] \/ rolled

(* What was merged was approved, once, and is where it should be: gate and *)
(* merge of concurrent requests and the copies of the command line agree.  *)
MergesSound == TypeOK /\ ApprovedMerges /\ OneMergeCommit /\ MergeOnTarget

(* No handler, and no merge of two stores, takes back what another one     *)
(* answered: the pull request, its reviews, its merge.                     *)
AnswersKept == PullsKept /\ MergedIsFinal /\ ReviewsKept

(* A creation that waits for the mutex that it holds. *)
SelfBlocked == \E r \in Requests : mutex = r /\ job[r].pc = "saving"

Ended(r) == job[r].pc \in {"done", "panicked"}

(* Every merge and every run of the checks ends, unless a creation blocks  *)
(* the repository for good.                                                *)
EveryPullRequestEnds ==
    \A r \in Requests : job[r].pc # "idle" ~> (Ended(r) \/ SelfBlocked)

(* What the comment on run_checks_for_pr says: "Updates and saves the PR   *)
(* if checks are run."                                                     *)
ChecksAreSaved ==
    \A r \in Requests : job[r].pc = "saving" ~> job[r].pc = "done"

=============================================================================
