------------------------------ MODULE Autoscaler ------------------------------
(* autoscaler and autoscaling_pool_policy: the monitor thread samples the pool, decides  *)
(* and scales, while callers start, stop and scale by hand.  The pool is seen through     *)
(* what the autoscaler calls: the number of running workers, the idle ones, enqueue of a    *)
(* worker and remove_workers_internal.  size_t differences wrap at SizeT.  Queue depth and  *)
(* latency are free inputs of a decision; cooldowns end at any time; statistics are left    *)
(* out.                                                                                     *)
EXTENDS Integers, FiniteSets

CONSTANTS
    AsCallers,                    \* threads that use the autoscaler
    MinWorkers, MaxWorkers,       \* policy_.min_workers, policy_.max_workers
    UpIncrement, DownIncrement,   \* policy_.scale_up_increment, scale_down_increment
    SizeT,                        \* size_t counts modulo this number
    AsMostWorkers,                \* bound: workers of the pool
    AsMaxCalls                    \* bound: calls

VARIABLES
    crew,        \* workers_.size() of the pool and how many of them are idle
    poolRuns,    \* pool_.is_running()
    scaling,     \* running_
    monitor,     \* the monitor thread: where it is and its locals
    handle,      \* monitor_thread_: none, or whether the std::thread in it is joined
    cooling,     \* the cooldowns that have not passed yet
    as,          \* per caller the call it is in, with its locals
    asCalls,
    dead         \* std::terminate was called: a joinable thread object was destroyed

asVars == <<crew, poolRuns, scaling, monitor, handle, cooling, as, asCalls, dead>>

AsOut == [at |-> "out", left |-> 0]
MonitorGone == [at |-> "none", count |-> 0, busy |-> 0, way |-> "none", left |-> 0]
LeastOf(a, b) == IF a <= b THEN a ELSE b
MostOf(a, b) == IF a <= b THEN b ELSE a

Minus(a, b) == (a - b) % SizeT

AsInit ==
    /\ crew \in {[size |-> n, idle |-> n] : n \in MinWorkers..MaxWorkers}
    /\ poolRuns = TRUE /\ scaling = FALSE /\ monitor = MonitorGone /\ handle = "none"
    /\ cooling = {} /\ as = [c \in AsCallers |-> AsOut] /\ asCalls = 0 /\ dead = FALSE

\* get_active_worker_count: the workers of a pool that does not run do not run either.
Active == IF poolRuns THEN crew.size ELSE 0

-----------------------------------------------------------------------------
(* start, stop, and set_enabled of the policy, which calls one of them.        *)

Call(c) == as[c].at = "out" /\ asCalls < AsMaxCalls /\ asCalls' = asCalls + 1 /\ ~dead

AsStart(c) ==
    /\ Call(c) /\ ~scaling /\ scaling' = TRUE
    /\ as' = [as EXCEPT ![c].at = "assign"]
    /\ UNCHANGED <<crew, poolRuns, monitor, handle, cooling, dead>>

\* The new thread replaces what monitor_thread_ holds.
AssignThread(c) ==
    /\ as[c].at = "assign" /\ ~dead
    /\ dead' = (handle = "joinable") /\ handle' = "joinable"
    /\ monitor' = [MonitorGone EXCEPT !.at = "check"]
    /\ as' = [as EXCEPT ![c].at = "out"]
    /\ UNCHANGED <<crew, poolRuns, scaling, cooling, asCalls>>

AsStop(c) ==
    /\ Call(c) /\ scaling /\ scaling' = FALSE
    /\ as' = [as EXCEPT ![c].at = "notify"]
    /\ UNCHANGED <<crew, poolRuns, monitor, handle, cooling, dead>>

AfterNotify == IF handle = "joinable" THEN "join" ELSE "reset"

\* The notification, under the mutex the monitor waits with; it only wakes.
AsNotify(c) ==
    /\ as[c].at = "notify" /\ ~dead
    /\ as' = [as EXCEPT ![c].at = AfterNotify]
    /\ UNCHANGED <<crew, poolRuns, scaling, monitor, handle, cooling, asCalls, dead>>

Joined == monitor.at = "none"

AsJoin(c) ==
    /\ as[c].at = "join" /\ ~dead /\ Joined
    /\ handle' = IF handle = "joinable" THEN "joined" ELSE handle
    /\ as' = [as EXCEPT ![c].at = "reset"]
    /\ UNCHANGED <<crew, poolRuns, scaling, monitor, cooling, asCalls, dead>>

AsReset(c) ==
    /\ as[c].at = "reset" /\ ~dead
    /\ dead' = (handle = "joinable") /\ handle' = "none"
    /\ as' = [as EXCEPT ![c].at = "out"]
    /\ UNCHANGED <<crew, poolRuns, scaling, monitor, cooling, asCalls>>

-----------------------------------------------------------------------------
(* What scaling does to the pool.                                             *)

AddOne == crew.size < AsMostWorkers /\ crew' = [size |-> crew.size + 1, idle |-> crew.idle + 1]

\* Mutant: the minimum is not kept.
RemovableAll(n) == LeastOf(n, crew.idle)

\* remove_workers_internal: only idle workers go, and never below the minimum.
Removable(n) == LeastOf(LeastOf(n, crew.size - MinWorkers), crew.idle)

RemoveSome(n) ==
    IF crew.size <= MinWorkers THEN UNCHANGED crew
    ELSE crew' = [size |-> crew.size - Removable(n), idle |-> crew.idle - Removable(n)]

Clamped(n) == MostOf(MinWorkers, LeastOf(n, MaxWorkers))

UpTarget(n) == LeastOf(n + UpIncrement, MaxWorkers)
DownTarget(n) == MostOf(IF n > DownIncrement THEN n - DownIncrement ELSE MinWorkers, MinWorkers)

\* scale_to, with the number of workers it reads; scale_up and scale_down are calls with
\* their own targets.
ScaleTo(c, n) ==
    /\ Call(c)
    /\ LET target == Clamped(n)
       IN as' = [as EXCEPT ![c] =
            CASE target > Active -> [at |-> "add", left |-> target - Active]
              [] target < Active -> [at |-> "remove", left |-> Active - target]
              [] OTHER -> AsOut]
    /\ UNCHANGED <<crew, poolRuns, scaling, monitor, handle, cooling, dead>>

\* One round of add_workers; a worker that does not start ends the call.
AsAdd(c) ==
    /\ as[c].at = "add" /\ ~dead
    /\ \/ AddOne /\ as' = [as EXCEPT ![c] = IF @.left = 1 THEN AsOut ELSE [@ EXCEPT !.left = @ - 1]]
       \/ UNCHANGED crew /\ as' = [as EXCEPT ![c] = AsOut]
    /\ UNCHANGED <<poolRuns, scaling, monitor, handle, cooling, asCalls, dead>>

AsRemove(c) ==
    /\ as[c].at = "remove" /\ ~dead
    /\ RemoveSome(as[c].left) /\ as' = [as EXCEPT ![c] = AsOut]
    /\ UNCHANGED <<poolRuns, scaling, monitor, handle, cooling, asCalls, dead>>

-----------------------------------------------------------------------------
(* monitor_loop.                                                              *)

MonitorOnly == UNCHANGED <<poolRuns, scaling, handle, as, asCalls, dead>>

\* The wait, with its timeout: then the loop ends or takes a sample if the pool runs.
MonitorWakes ==
    /\ monitor.at = "check" /\ ~dead
    /\ monitor' = CASE ~scaling -> MonitorGone
                    [] scaling /\ poolRuns -> [monitor EXCEPT !.at = "sample", !.count = Active]
                    [] OTHER -> monitor
    /\ MonitorOnly /\ UNCHANGED <<crew, cooling>>

\* collect_metrics reads the workers first and the idle ones later.
CountIdle ==
    /\ monitor.at = "sample" /\ ~dead
    /\ monitor' = [monitor EXCEPT !.at = "decide", !.busy = Minus(monitor.count, crew.idle)]
    /\ MonitorOnly /\ UNCHANGED <<crew, cooling>>

Utilized == monitor.count > 0 /\ 10 * monitor.busy > 8 * monitor.count
Unused == monitor.count = 0 \/ 10 * monitor.busy < 3 * monitor.count

\* make_decision, on one sample; pressed says that queue depth or latency exceeds its
\* threshold, slack that the queue is below its lower one.
Decision(pressed, slack) ==
    CASE Active < MaxWorkers /\ "up" \notin cooling /\ (Utilized \/ pressed) ->
            [way |-> "up", target |-> UpTarget(Active)]
      [] Active > MinWorkers /\ "down" \notin cooling /\ Unused /\ slack ->
            [way |-> "down", target |-> MostOf(Minus(Active, DownIncrement), MinWorkers)]
      [] OTHER -> [way |-> "none", target |-> 0]

Decide(pressed, slack) ==
    /\ monitor.at = "decide" /\ ~dead
    /\ LET d == Decision(pressed, slack)
       IN monitor' = IF d.way = "none" THEN [MonitorGone EXCEPT !.at = "check"]
                     ELSE [monitor EXCEPT !.at = "execute", !.way = d.way, !.left = d.target]
    /\ MonitorOnly /\ UNCHANGED <<crew, cooling>>

\* execute_scaling counts the workers again and works with the difference.
Execute ==
    /\ monitor.at = "execute" /\ ~dead
    /\ LET n == IF monitor.way = "up" THEN Minus(monitor.left, Active) ELSE Minus(Active, monitor.left)
       IN monitor' = IF n = 0 THEN [MonitorGone EXCEPT !.at = "check"]
                     ELSE [monitor EXCEPT !.at = IF monitor.way = "up" THEN "add" ELSE "remove", !.left = n]
    /\ MonitorOnly /\ UNCHANGED <<crew, cooling>>

MonitorAdd ==
    /\ monitor.at = "add" /\ ~dead
    /\ \/ /\ AddOne
          /\ monitor' = IF monitor.left = 1 THEN [MonitorGone EXCEPT !.at = "check"]
                        ELSE [monitor EXCEPT !.left = @ - 1]
          /\ cooling' = IF monitor.left = 1 THEN cooling \cup {"up"} ELSE cooling
       \/ UNCHANGED <<crew, cooling>> /\ monitor' = [MonitorGone EXCEPT !.at = "check"]
    /\ MonitorOnly

MonitorRemove ==
    /\ monitor.at = "remove" /\ ~dead
    /\ RemoveSome(monitor.left) /\ cooling' = IF crew.size <= MinWorkers THEN cooling ELSE cooling \cup {"down"}
    /\ monitor' = [MonitorGone EXCEPT !.at = "check"]
    /\ MonitorOnly

-----------------------------------------------------------------------------
(* The pool and the clock go on.                                              *)

CoolsDown(w) == w \in cooling /\ cooling' = cooling \ {w}
    /\ UNCHANGED <<crew, poolRuns, scaling, monitor, handle, as, asCalls, dead>>

WorkersBusy == \E i \in {0, crew.size} : i # crew.idle /\ crew' = [crew EXCEPT !.idle = i]
    /\ UNCHANGED <<poolRuns, scaling, monitor, handle, cooling, as, asCalls, dead>>

PoolSwitches == poolRuns' = ~poolRuns /\ asCalls < AsMaxCalls /\ asCalls' = asCalls + 1
    /\ UNCHANGED <<crew, scaling, monitor, handle, cooling, as, dead>>

AsNext ==
    \/ \E c \in AsCallers :
          \/ AsStart(c) \/ AssignThread(c) \/ AsStop(c) \/ AsNotify(c) \/ AsJoin(c) \/ AsReset(c)
          \/ (\E n \in 0..(MaxWorkers + 1) \cup {UpTarget(Active), DownTarget(Active)} : ScaleTo(c, n))
          \/ AsAdd(c) \/ AsRemove(c)
    \/ MonitorWakes \/ CountIdle \/ Execute \/ MonitorAdd \/ MonitorRemove
    \/ \E pressed, slack \in BOOLEAN : Decide(pressed, slack)
    \/ \E w \in {"up", "down"} : CoolsDown(w)
    \/ WorkersBusy \/ PoolSwitches

AsSpec == AsInit /\ [][AsNext]_asVars

-----------------------------------------------------------------------------

\* Scaling never takes the pool below min_workers, however calls and the monitor cross: the
\* pool checks the bound itself, under its lock, and the differences that wrap are clamped.
NeverBelowMinimum == crew.size >= MinWorkers

=============================================================================
