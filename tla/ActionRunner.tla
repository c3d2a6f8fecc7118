---------------------------- MODULE ActionRunner ----------------------------
(***************************************************************************)
(* One run of configured actions (ovc-actions/src/runner.rs) and what its  *)
(* caller makes of the results: a hook of commit, push or merge            *)
(* (hooks.rs), the API (routes/actions.rs) or `ovc actions run`.           *)
(*                                                                         *)
(* run_trigger sorts the actions of a trigger into levels of the graph of  *)
(* depends_on and runs a level's actions concurrently, each once for every *)
(* combination of its matrix and again while it fails and has attempts     *)
(* left.  A unit is an action with a combination.  What a command does is  *)
(* not modelled: an attempt ends with any of the outcomes it can have.     *)
(*                                                                         *)
(* An action is a number (names are sorted) with a definition [trigger,    *)
(* deps, cond, matrix, kind, run, max, cont, fix]: deps is depends_on, cond *)
(* says whether there is a path condition and it matches, matrix gives the *)
(* number of values of every variable, kind is how it runs and run what a  *)
(* command finds (a permitted shell and directory, Docker and its image),  *)
(* max its attempts, cont is continue_on_error, fix that it has auto_fix   *)
(* and a fix_command.                                                      *)
(***************************************************************************)
EXTENDS Integers, Sequences, FiniteSets, SequencesExt

CONSTANTS
    Configs,    \* the configurations, functions from actions to definitions
    MaxCombos   \* MAX_MATRIX_COMBINATIONS

ASSUME RunnerAssumptions ==
    /\ MaxCombos \in Nat \ {0}
    /\ \A c \in Configs :
          /\ DOMAIN c \subseteq Nat /\ IsFiniteSet(DOMAIN c)
          /\ \A a \in DOMAIN c :
                c[a].deps \in Seq(Nat) /\ c[a].matrix \in Seq(Nat) /\ c[a].max \in Nat

VARIABLES
    cfg,       \* ActionsConfig.actions
    broken,    \* ActionsConfig::load fails on this file
    caller,    \* who runs it: a hook, the API, the command line
    changed,   \* the caller passes the changed paths
    pc,        \* where run_trigger, or its caller, is
    levels,    \* the levels still to run
    live,      \* live[u]: the attempt that unit u of this level is in
    results,   \* results[u]: the status of the units that have ended
    ended,     \* the actions of the levels that have ended
    saw,       \* history: saw[u], the value of ended when u began
    queue,     \* the actions or units still to be taken one by one
    verdict    \* what the caller concluded

vars == <<cfg, broken, caller, changed, pc, levels, live, results, ended,
          saw, queue, verdict>>
asked == <<cfg, broken, caller, changed>>

Actions  == DOMAIN cfg
Gates    == {"pre-commit", "pre-push", "pre-merge"}
Hooks    == Gates \cup {"post"}
ByName   == {"api-names", "cli-names", "required"}
Callers  == Hooks \cup {"api", "cli"} \cup ByName
Failures == {"failed", "timed_out", "error"}
Statuses == Failures \cup {"passed", "skipped"}
Empty    == [u \in {} |-> "none"]

(* The units of S get an entry, or a new one. *)
Put(f, S, entry) == [u \in DOMAIN f \cup S |-> IF u \in S THEN entry ELSE f[u]]

---------------------------------------------------------------------------
(* What the configuration says *)

Sorted(S) ==
    CHOOSE s \in [1..Cardinality(S) -> S] :
        ToSet(s) = S /\ \A i, j \in DOMAIN s : i < j => s[i] < s[j]

actions_for_trigger(c, t) == {a \in DOMAIN c : c[a].trigger = t}

(* A path that matches must be among the changed paths of the caller. *)
matches_condition(def) == def.cond = "none" \/ (def.cond = "met" /\ changed)

(* Mutant: the expansion stops when the limit is reached. *)
MutOverLimit(n) == n >= MaxCombos

OverLimit(n) == n > MaxCombos

(* expand_matrix: one variable after the other; past the limit it returns  *)
(* what it has, without the variables that follow.                         *)
expand_matrix(m) ==
    LET Times(combos, n) ==
            FlattenSeq([i \in DOMAIN combos |-> [v \in 1..n |-> Append(combos[i], v)]])
        e[i \in 0..Len(m)] ==
            IF i = 0 THEN [combos |-> << <<>> >>, over |-> FALSE]
            ELSE LET p == e[i - 1]
                     new == Times(p.combos, m[i])
                 IN  IF p.over THEN p
                     ELSE IF OverLimit(Len(new))
                       THEN [combos |-> SubSeq(new, 1, MaxCombos), over |-> TRUE]
                       ELSE [combos |-> new, over |-> FALSE]
    IN  e[Len(m)].combos

Units(a) == {<<a, c>> : c \in ToSet(expand_matrix(cfg[a].matrix))}

(* in_degree, counted up for every name in depends_on and down for every   *)
(* one whose action has been processed.                                    *)
InDegree(c, M, done, a) ==
    LET Named(S) == {i \in DOMAIN c[a].deps : c[a].deps[i] \in S}
    IN  Cardinality(Named(M)) - Cardinality(Named(done))

(* Mutant: an action is taken when one dependency is left. *)
MutReady(deg) == deg \in 0..1

Ready(deg) == deg = 0

(* topological_levels: Kahn's algorithm; the actions processed after i     *)
(* levels.                                                                 *)
Kahn(c, M) ==
    LET k[i \in 0..Cardinality(M)] ==
          IF i = 0 THEN {}
          ELSE k[i - 1] \cup {a \in M : Ready(InDegree(c, M, k[i - 1], a))}
    IN  k

(* Mutant: with a cycle nothing is run. *)
MutFallback(M) == <<>>

(* With a cycle the actions run one by one, in the order of their names. *)
Fallback(M) == [i \in DOMAIN Sorted(M) |-> {Sorted(M)[i]}]

(* The loop ends at the first level that would be empty. *)
Depth(M, k) == Cardinality({i \in 1..Cardinality(M) : k[i] # k[i - 1]})

topological_levels(c, M) ==
    LET k == Kahn(c, M)
    IN  IF k[Cardinality(M)] # M THEN Fallback(M)
        ELSE [i \in 1..Depth(M, k) |-> k[i] \ k[i - 1]]

---------------------------------------------------------------------------
(* One attempt *)

(* The command exits, or the timeout kills it, or waiting fails. *)
await_child_with_timeout == {"passed", "failed", "timed_out", "error"}

validate_shell(run) == run.shell

validate_working_dir(run) == run.dir

(* Docker is used if the action or the configuration says so, the action   *)
(* does not forbid it and the daemon answered when the runner was made.    *)
should_use_docker(run) ==
    /\ run.override # "no"
    /\ run.enabled \/ run.override = "yes"
    /\ run.available

(* docker pull succeeds or fails. *)
pull_image == BOOLEAN

ensure_image(run) ==
    CASE run.policy = "never" -> {run.present}
      [] run.policy = "if-not-present" /\ run.present -> {TRUE}
      [] OTHER -> pull_image

(* A child that cannot be spawned is an error. *)
execute_command_native == await_child_with_timeout

execute_command_docker(run) ==
    UNION {IF ok THEN await_child_with_timeout ELSE {"error"} : ok \in ensure_image(run)}

execute_command(run) ==
    IF ~validate_shell(run) \/ ~validate_working_dir(run) THEN {"error"}
    ELSE IF should_use_docker(run) THEN execute_command_docker(run)
    ELSE execute_command_native

run_builtin == {"passed", "failed", "error"}

Outcomes(def) ==
    CASE def.kind = "command" -> execute_command(def.run)
      [] def.kind = "builtin" -> run_builtin
      [] OTHER -> {"error"}

---------------------------------------------------------------------------
(* run_trigger *)

AskedFor == IF caller \in ByName THEN Actions ELSE actions_for_trigger(cfg, "asked")

(* A configuration that cannot be read: a hook warns and goes on, so does  *)
(* the check of the required actions; the others refuse.                   *)
BrokenConfig ==
    /\ pc = "begin" /\ broken
    /\ pc' = "done"
    /\ verdict' = IF caller \in Hooks \cup {"required"} THEN "passed" ELSE "refused"
    /\ UNCHANGED <<asked, levels, live, results, ended, saw, queue>>

(* The matching actions in levels. *)
RunTrigger ==
    /\ pc = "begin" /\ ~broken /\ caller \notin ByName
    /\ pc' = "level"
    /\ levels' = topological_levels(cfg, AskedFor)
    /\ UNCHANGED <<asked, live, results, ended, saw, queue, verdict>>

(* A level begins: an action whose condition does not match is skipped,    *)
(* every unit of the others is started.                                    *)
StartLevel ==
    /\ pc = "level" /\ levels # <<>>
    /\ pc' = "running"
    /\ LET skipped == {a \in Head(levels) : ~matches_condition(cfg[a])}
           started == UNION {Units(a) : a \in Head(levels) \ skipped}
       IN  /\ results' = Put(results, {<<a, <<>> >> : a \in skipped}, "skipped")
           /\ live' = [u \in started |-> 1]
           /\ saw' = Put(saw, started, ended)
    /\ UNCHANGED <<asked, levels, ended, queue, verdict>>

(* max_attempts of the definition, once at least. *)
Attempts(def) == IF def.max = 0 THEN 1 ELSE def.max

(* Mutant: one attempt too many. *)
MutAttempt(def, n, o) == o = "passed" \/ n > Attempts(def)

(* run_single_action_with_retry leaves its loop. *)
LastAttempt(def, n, o) == o = "passed" \/ n = Attempts(def)

EndAttempt(u) ==
    /\ pc = "running"
    /\ \E o \in Outcomes(cfg[u[1]]) :
         IF LastAttempt(cfg[u[1]], live[u], o)
           THEN /\ results' = Put(results, {u}, o)
                /\ live' = [v \in DOMAIN live \ {u} |-> live[v]]
           ELSE /\ live' = [live EXCEPT ![u] = @ + 1]
                /\ UNCHANGED results
    /\ UNCHANGED <<asked, pc, levels, ended, saw, queue, verdict>>

(* Mutant: the next level waits for every unit to pass. *)
MutLevelEnded == DOMAIN live = {} /\ \A u \in DOMAIN results : results[u] # "failed"

LevelEnded == DOMAIN live = {}

(* join_all returns: the results and the outputs of the level are there. *)
EndLevel ==
    /\ pc = "running" /\ LevelEnded
    /\ pc' = "level"
    /\ ended' = ended \cup Head(levels)
    /\ levels' = Tail(levels)
    /\ UNCHANGED <<asked, live, results, saw, queue, verdict>>

(* Mutant: only a failed command counts. *)
MutHasFailures == \E u \in DOMAIN results : results[u] = "failed"

HasFailures == \E u \in DOMAIN results : results[u] \in Failures

(* After the last level: the on-fail actions, when something failed. *)
AfterLevels ==
    /\ pc = "level" /\ levels = <<>>
    /\ pc' = "on-fail"
    /\ queue' = IF HasFailures THEN Sorted(actions_for_trigger(cfg, "on-fail")) ELSE <<>>
    /\ UNCHANGED <<asked, levels, live, results, ended, saw, verdict>>

(* One on-fail action to its end: no condition, no matrix. *)
RunOnFail ==
    /\ pc = "on-fail" /\ queue # <<>>
    /\ \E o \in Outcomes(cfg[Head(queue)]) :
         results' = Put(results, {<<Head(queue), <<>> >>}, o)
    /\ queue' = Tail(queue)
    /\ UNCHANGED <<asked, pc, levels, live, ended, saw, verdict>>

---------------------------------------------------------------------------
(* Callers *)

(* run_hooks_for_trigger goes on to the failed actions with auto_fix.      *)
EndTrigger ==
    /\ pc = "on-fail" /\ queue = <<>>
    /\ pc' = "conclude"
    /\ queue' = IF caller \in Hooks
                  THEN SetToSeq({u \in DOMAIN results :
                          results[u] = "failed" /\ cfg[u[1]].fix
                          /\ cfg[u[1]].trigger = "asked"})
                  ELSE <<>>
    /\ UNCHANGED <<asked, levels, live, results, ended, saw, verdict>>

(* What run_action may return; an error leaves the old result. *)
Recheck(def) == (Outcomes(def) \ {"error"}) \cup {"failed"}

(* run_action_fix, and run_action again when it passed. *)
AutoFix ==
    /\ pc = "conclude" /\ queue # <<>>
    /\ \/ UNCHANGED results
       \/ \E o \in Recheck(cfg[Head(queue)[1]]) :
            results' = [results EXCEPT ![Head(queue)] = o]
    /\ queue' = Tail(queue)
    /\ UNCHANGED <<asked, pc, levels, live, ended, saw, verdict>>

(* Mutant: an action that timed out does not block. *)
MutBlocking(u) == ~cfg[u[1]].cont /\ results[u] \in {"failed", "error"}

Blocking(u) == ~cfg[u[1]].cont /\ results[u] \in Failures

(* A hook before the operation stops at a blocking failure, one after it   *)
(* only warns, the others count every failure.                             *)
Stops(u) ==
    CASE caller \in Gates -> Blocking(u)
      [] caller = "post" -> FALSE
      [] OTHER -> results[u] \in Failures

Conclude ==
    /\ pc = "conclude" /\ queue = <<>>
    /\ pc' = "done"
    /\ verdict' = IF \E u \in DOMAIN results : Stops(u) THEN "failed" ELSE "passed"
    /\ UNCHANGED <<asked, levels, live, results, ended, saw, queue>>

(* A list of names: run_action one by one, without dependencies,           *)
(* conditions, matrix or retries.                                          *)
RunNames ==
    /\ pc = "begin" /\ ~broken /\ caller \in ByName
    /\ pc' = "names"
    /\ queue' = Sorted(Actions)
    /\ UNCHANGED <<asked, levels, live, results, ended, saw, verdict>>

(* An error (no such action, no command, no image) ends a request of the   *)
(* API, is a violation for a required check, and the command line prints   *)
(* it and leaves it out of the results.                                    *)
RunName ==
    /\ pc = "names" /\ queue # <<>>
    /\ \E o \in Outcomes(cfg[Head(queue)]) :
         /\ results' = IF o = "error" /\ caller # "required" THEN results
                       ELSE Put(results, {<<Head(queue), <<>> >>}, o)
         /\ IF o = "error" /\ caller = "api-names"
              THEN pc' = "done" /\ verdict' = "refused"
              ELSE UNCHANGED <<pc, verdict>>
    /\ queue' = Tail(queue)
    /\ UNCHANGED <<asked, levels, live, ended, saw>>

EndNames ==
    /\ pc = "names" /\ queue = <<>>
    /\ pc' = "conclude"
    /\ UNCHANGED <<asked, levels, live, results, ended, saw, queue, verdict>>

---------------------------------------------------------------------------
Init ==
    /\ cfg \in Configs
    /\ broken \in BOOLEAN
    /\ caller \in Callers
    /\ changed \in IF caller = "pre-commit" THEN {TRUE}
                   ELSE IF caller = "api" THEN BOOLEAN ELSE {FALSE}
    /\ pc = "begin"
    /\ levels = <<>> /\ queue = <<>>
    /\ live = Empty /\ results = Empty /\ saw = Empty
    /\ ended = {}
    /\ verdict = "none"

Next ==
    \/ BrokenConfig \/ RunTrigger \/ StartLevel
    \/ \E u \in DOMAIN live : EndAttempt(u)
    \/ EndLevel \/ AfterLevels \/ RunOnFail \/ EndTrigger
    \/ AutoFix \/ Conclude \/ RunNames \/ RunName \/ EndNames

(* An attempt ends: its command exits or the timeout kills it. *)
Spec == Init /\ [][Next]_vars /\ WF_vars(Next)

---------------------------------------------------------------------------
(* Every value has its type. *)
TypeOK ==
    /\ pc \in {"begin", "level", "running", "on-fail", "names", "conclude", "done"}
    /\ verdict \in {"none", "passed", "failed", "refused"}
    /\ \A u \in DOMAIN live : live[u] \in 1..Attempts(cfg[u[1]])
    /\ \A u \in DOMAIN results : u[1] \in Actions /\ results[u] \in Statuses
    /\ ended \subseteq Actions

(* Some actions depend on one another in a circle. *)
Circular(M) ==
    \E S \in (SUBSET M) \ {{}} : \A a \in S : ToSet(cfg[a].deps) \cap S # {}

(* A unit begins when every action it depends on has ended, so that the    *)
(* outputs of all of them are there: for every graph of dependencies, with *)
(* names that repeat, name themselves or belong to other triggers.  Only a *)
(* circle (which falls back to the order of names) breaks it.              *)
DependenciesFirst ==
    Circular(AskedFor) \/
    \A u \in DOMAIN saw : ToSet(cfg[u[1]].deps) \cap AskedFor \subseteq saw[u]

(* When the levels are done every action of the trigger has a result, run  *)
(* or skipped, with or without a cycle; only an action whose matrix has a  *)
(* variable without values has none.                                       *)
NoActionForgotten ==
    pc \in {"on-fail", "conclude"} /\ caller \notin ByName =>
        \A a \in AskedFor :
            (\E u \in DOMAIN results : u[1] = a) \/ 0 \in ToSet(cfg[a].matrix)

(* A matrix within the limit runs all its combinations and nothing else; a *)
(* larger one as many as the limit allows.  A variable without values      *)
(* leaves none, unless the limit was passed before it was reached.         *)
MatrixCovered ==
    pc = "on-fail" =>
        \A a \in {b \in AskedFor : matches_condition(cfg[b])} :
            LET m   == cfg[a].matrix
                all == {c \in [DOMAIN m -> 1..Max(ToSet(m) \cup {0})] :
                           \A i \in DOMAIN m : c[i] <= m[i]}
                ran == {u[2] : u \in {v \in DOMAIN results : v[1] = a}}
            IN  \/ /\ Cardinality(all) <= MaxCombos
                   /\ ran = all
                \/ /\ Cardinality(all) > MaxCombos \/ 0 \in ToSet(m)
                   /\ Cardinality(ran) = MaxCombos

(* Every on-fail action runs when an action of the trigger did not pass,   *)
(* whatever way it failed, and none runs otherwise.                        *)
OnFailAnswers ==
    pc = "on-fail" /\ queue = <<>> =>
        \A a \in actions_for_trigger(cfg, "on-fail") :
            <<a, <<>> >> \in DOMAIN results <=>
                \E u \in DOMAIN results :
                    cfg[u[1]].trigger = "asked" /\ results[u] \in Failures

(* A gate lets the operation through, and a run is reported as passed,     *)
(* only if every check that was asked for passed, was skipped or need not  *)
(* pass.  The exceptions: a configuration that cannot be read, hooks after *)
(* the operation, and a name on the command line that could not be run.    *)
VerdictSound ==
    verdict = "passed" /\ ~broken /\ caller # "post" =>
        \A a \in AskedFor :
            \/ caller \in Gates /\ cfg[a].cont
            \/ caller = "cli-names" /\ <<a, <<>> >> \notin DOMAIN results
            \/ \A u \in DOMAIN results : u[1] = a => results[u] \in {"passed", "skipped"}

(* Everything that was asked for runs: every action, and every combination *)
(* of its matrix, however the graph is shaped.                             *)
UnitsCovered == TypeOK /\ NoActionForgotten /\ MatrixCovered

(* A failure is not lost on the way from an attempt to the failure hooks   *)
(* and to the caller.                                                      *)
FailuresHeeded == OnFailAnswers /\ VerdictSound

(* Every run ends: a circle of dependencies does not stop the levels, and  *)
(* attempts are used up.                                                   *)
RunEnds == <>(pc = "done")

=============================================================================
