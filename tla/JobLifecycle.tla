----------------------------- MODULE JobLifecycle -----------------------------
(***************************************************************************)
(* What a thread pool promises about a job: once submitted it waits, and   *)
(* then it either runs, once and to its end, or is discarded before it     *)
(* ran.  Nothing that was started is discarded, nothing runs twice.        *)
(***************************************************************************)
CONSTANT Jobs

VARIABLE status

Statuses == {"unsubmitted", "waiting", "running", "finished", "discarded"}

Init == status = [j \in Jobs |-> "unsubmitted"]

Move(js, from, to) ==
    /\ js # {} /\ \A j \in js : status[j] = from
    /\ status' = [j \in Jobs |-> IF j \in js THEN to ELSE status[j]]

Submit == \E js \in SUBSET Jobs : Move(js, "unsubmitted", "waiting")
Begin == \E j \in Jobs : Move({j}, "waiting", "running")
Finish == \E j \in Jobs : Move({j}, "running", "finished")
Discard == \E js \in SUBSET Jobs : Move(js, "waiting", "discarded")

Next == Submit \/ Begin \/ Finish \/ Discard

Spec == Init /\ [][Next]_status
===============================================================================
