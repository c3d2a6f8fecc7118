--------------------------- MODULE MCActionRunner ---------------------------
(* An instance of ActionRunner for TLC. *)
EXTENDS ActionRunner

Native ==
    [shell |-> TRUE, dir |-> TRUE, override |-> "default", enabled |-> FALSE,
     available |-> FALSE, policy |-> "always", present |-> FALSE]

Docker(p) == [Native EXCEPT !.enabled = TRUE, !.available = TRUE, !.policy = p]

Plain ==
    [trigger |-> "asked", deps |-> <<>>, cond |-> "none", matrix |-> <<>>,
     kind |-> "builtin", run |-> Native, max |-> 1, cont |-> FALSE, fix |-> FALSE]

(* depends_on of one action: nothing, one name, two, or a name twice. *)
DepLists == {<<>>} \cup {<<i>> : i \in 1..3} \cup {<<1, 1>>, <<2, 2>>, <<1, 3>>, <<2, 3>>}

(* Every such graph over three actions; the third may have another trigger. *)
Graph(d, t) ==
    [a \in 1..3 |->
        [Plain EXCEPT !.deps = d[a], !.cont = (a = 2),
                      !.kind = IF a = 1 THEN "none" ELSE "builtin",
                      !.trigger = IF a = 3 THEN t ELSE "asked"]]

MCGraphs ==
    {Graph(d, "asked") : d \in [1..3 -> DepLists]}
    \cup {Graph(Append(d, <<>>), "manual") : d \in [1..2 -> DepLists]}

(* An action with matrix, retries, condition and fix, one that depends on  *)
(* it and one that answers failures.                                       *)
Variants ==
    {<<[Plain EXCEPT !.matrix = m, !.max = x, !.cond = c, !.cont = k, !.fix = f,
                     !.kind = "command"],
       [Plain EXCEPT !.deps = <<1>>, !.cond = "met"],
       [Plain EXCEPT !.trigger = "on-fail", !.deps = <<2>>]>> :
        m \in {<<>>, <<0>>, <<2>>, <<4, 1>>, <<3, 2>>, <<2, 0>>, <<3, 2, 0>>},
        x \in {0, 2}, c \in {"none", "met", "unmet"}, k \in BOOLEAN, f \in BOOLEAN}

(* A command that cannot begin, or begins in a container. *)
Commands ==
    {<<[Plain EXCEPT !.kind = "command", !.run = r, !.max = 2]>> :
        r \in {[Native EXCEPT !.shell = FALSE], [Native EXCEPT !.dir = FALSE],
               [Docker("always") EXCEPT !.override = "no"],
               [Docker("never") EXCEPT !.available = FALSE],
               Docker("always"), Docker("never"), Docker("if-not-present"),
               [Docker("if-not-present") EXCEPT !.present = TRUE,
                    !.enabled = FALSE, !.override = "yes"]}}

MCConfigs == MCGraphs \cup Variants \cup Commands
=============================================================================
