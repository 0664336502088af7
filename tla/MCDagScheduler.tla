--------------------------- MODULE MCDagScheduler ---------------------------
(* DagScheduler for TLC: each failure policy with a graph that exercises it. *)
EXTENDS DagScheduler

Join == <<{}, {}, {1, 2}>>
Chain == <<{}, {1}, {2}>>
Missing == <<{2}>>

Config(p, par, g, n) == [policy |-> p, parallel |-> par, graph |-> g, calls |-> n]

\* Retries in both arms of the join multiply the states: the user only executes there.
PolicyConfigs == {Config("retry", TRUE, Join, 1), Config("retry", TRUE, Chain, 2),
                  Config("continue_others", TRUE, Join, 2), Config("continue_others", TRUE, Chain, 2),
                  Config("fallback", FALSE, Chain, 2), Config("fail_fast", TRUE, Missing, 2)}
JobDeps == {{}, {1}, {2}}
===============================================================================
