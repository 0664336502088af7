---------------------------- MODULE DagScheduler ----------------------------
(***************************************************************************)
(* dag_scheduler (src/dag/dag_scheduler.cpp): jobs with dependencies, run  *)
(* by the workers of a pool as their dependencies complete.                *)
(*                                                                         *)
(* mutex_ is never held across another lock, so a critical section is one  *)
(* step.  completion_cv_ is the set asleep of threads blocked in it; a     *)
(* thread that finds its predicate false falls asleep in the same step.    *)
(* The vectors of a job's neighbours are sets; the order in which an       *)
(* unordered_map yields ready jobs is left open.  first_error_, timestamps *)
(* and results are returned to the user and running_count_ is never read:  *)
(* they are left out.                                                      *)
(***************************************************************************)
EXTENDS Naturals, Sequences

CONSTANTS
    MaxJobs,     \* dag_jobs ever created; their ids are 1..MaxJobs in this order
    MaxWorkers,  \* threads of the pool
    Executors,   \* the detached threads of execute_all and execute, and callers of wait
    Configs,     \* failure_policy, execute_in_parallel, the graph add_job has built at the
                 \* start (the dependencies of jobs 1, 2, ...), and a bound on the calls of
                 \* the user
    NewDeps,     \* the dependencies a job may bring to add_job
    MaxRetries,
    None

ASSUME DagBounds == MaxJobs \in Nat /\ MaxWorkers \in Nat /\ None \notin 1..MaxJobs
ASSUME DagGraphs ==
    /\ \A c \in Configs : c.graph \in Seq(SUBSET (1..MaxJobs)) /\ Len(c.graph) <= MaxJobs
    /\ NewDeps \subseteq SUBSET (1..MaxJobs)

VARIABLES
    conf,                     \* config_
    created,                  \* how many jobs were given to add_job
    jobs, state,              \* jobs_ and the dag_job_state of each
    dependencies, dependents,
    retries,                  \* retry_counts_
    executing, cancelled, activeCallbacks,
    queue,                    \* wrapper jobs in the pool
    th,                       \* the threads: where, its job, its ready_jobs, where it returns
    asleep,                   \* threads blocked in completion_cv_
    dtor,                     \* the destructor: "no", "waiting", "gone"
    calls,                    \* calls the user has left
    past                      \* history: what happened that excuses a property below

edges == <<dependencies, dependents>>
graph == <<created, jobs, edges>>
flags == <<executing, cancelled>>
rest == <<conf, dtor, calls>>
vars == <<graph, state, retries, flags, activeCallbacks, queue, th, asleep, rest, past>>

Jobs == 1..MaxJobs
Workers == 1..MaxWorkers
Threads == Workers \cup Executors
Terminal == {"completed", "failed", "cancelled", "skipped"}
Idle == [at |-> "idle", job |-> None, todo |-> {}, back |-> "idle"]

\* Jobs given a dependency too late; jobs no completion makes ready; whether a token was
\* cancelled, a job removed while somebody waited, and the pool refused a job.
NoPast == [late |-> {}, excused |-> {}, token |-> FALSE, removed |-> FALSE, refused |-> FALSE]

Init ==
    /\ conf \in Configs
    /\ LET g == conf.graph IN
          /\ created = Len(g) /\ jobs = DOMAIN g
          /\ dependencies = [j \in Jobs |-> IF j \in DOMAIN g THEN g[j] ELSE {}]
          /\ dependents = [d \in Jobs |-> {j \in DOMAIN g : d \in g[j]}]
    /\ state = [j \in Jobs |-> "pending"] /\ retries = [j \in Jobs |-> 0]
    /\ executing = FALSE /\ cancelled = FALSE /\ activeCallbacks = 0 /\ queue = <<>>
    /\ th = [t \in Threads |-> Idle] /\ asleep = {}
    /\ dtor = "no" /\ calls = conf.calls /\ past = NoPast

---------------------------------------------------------------------------
(* The graph.                                                               *)

\* Vertices reached from j over the edges of g, in one step or more.
Reach(g, j) ==
    LET layer[n \in 0..MaxJobs] ==
            IF n = 0 THEN g[j] ELSE layer[n - 1] \cup UNION {g[k] : k \in layer[n - 1]}
    IN  layer[MaxJobs]

\* detect_cycle: the search starts from the jobs already in jobs_.
DetectCycle(g) == \E j \in jobs : \E k \in Reach(g, j) \cup {j} : k \in Reach(g, k)

\* topological_sort: the jobs it can place; in_degree counts every listed dependency,
\* and the dependents_ of a placed job lower it.
Placed ==
    LET done[n \in 0..MaxJobs] ==
            IF n = 0 THEN {j \in jobs : dependencies[j] = {}}
            ELSE done[n - 1] \cup {j \in jobs : \A d \in dependencies[j] :
                                       d \in done[n - 1] /\ j \in dependents[d]}
    IN  done[MaxJobs]

\* are_dependencies_satisfied, in the states s.
Satisfied(j, s) == \A d \in dependencies[j] : d \in jobs /\ s[d] = "completed"

\* get_ready_jobs: the ready ones and those nobody has marked yet.
GetReadyJobs ==
    {j \in jobs : state[j] = "ready" \/ (state[j] = "pending" /\ Satisfied(j, state))}

IsExecutionComplete == \A j \in jobs : state[j] \in Terminal

\* skip_dependents and cancel_dependents: the breadth-first walk goes on only through
\* jobs it changes.
Cascade(id) ==
    Reach([j \in Jobs |-> {d \in dependents[j] \cap jobs : state[d] \in {"pending", "ready"}}],
          id)

---------------------------------------------------------------------------
(* Calls of the user, each one critical section.                            *)

Call == dtor = "no" /\ calls > 0 /\ calls' = calls - 1 /\ UNCHANGED <<conf, dtor>>
Hopeless(d) == d \in jobs /\ state[d] \in Terminal \ {"completed"}
Excuse(S, when) == past.excused \cup (IF when THEN S ELSE {})
Late(S, when) == past.late \cup (IF when THEN S ELSE {})

\* dependents_ after add_job, which takes the new edges back when it rejects the job.
WithDependents(id, deps, rejected) ==
    [j \in Jobs |-> IF j \in deps /\ ~rejected THEN dependents[j] \cup {id} ELSE dependents[j]]

AddJob(deps) ==
    LET id == created + 1
        g == [dependencies EXCEPT ![id] = deps]
    IN  /\ Call /\ id \in Jobs
        /\ created' = id
        /\ jobs' = IF DetectCycle(g) THEN jobs ELSE jobs \cup {id}
        /\ dependencies' = IF DetectCycle(g) THEN dependencies ELSE g
        /\ dependents' = WithDependents(id, deps, DetectCycle(g))
        /\ past' = [past EXCEPT !.excused = Excuse({id}, executing),
                                !.late = Late({id}, \E d \in deps : Hopeless(d))]
        /\ UNCHANGED <<state, retries, flags, activeCallbacks, queue, th, asleep>>

\* The edge is refused when it would close a cycle.
AddDependency(j, d) ==
    LET g == [dependencies EXCEPT ![j] = @ \cup {d}]
    IN  /\ Call /\ {j, d} \subseteq jobs /\ d \notin dependencies[j] /\ ~DetectCycle(g)
        /\ dependencies' = g /\ dependents' = [dependents EXCEPT ![d] = @ \cup {j}]
        /\ past' = [past EXCEPT !.late = Late({j}, state[j] # "pending" \/ Hopeless(d)),
                                !.excused = Excuse({j}, executing)]
        /\ UNCHANGED <<created, jobs, state, retries, flags, activeCallbacks, queue, th, asleep>>

RemoveJob(id) ==
    /\ Call /\ id \in jobs /\ state[id] # "running"
    /\ jobs' = jobs \ {id} /\ state' = [state EXCEPT ![id] = "pending"]
    /\ dependencies' = [j \in Jobs |-> IF j = id THEN {} ELSE dependencies[j] \ {id}]
    /\ dependents' = [j \in Jobs |-> IF j = id THEN {} ELSE dependents[j] \ {id}]
    /\ past' = [past EXCEPT !.removed = @ \/ \E e \in Executors : th[e] # Idle,
                            !.excused = Excuse(dependents[id], TRUE)]
    /\ UNCHANGED <<created, retries, flags, activeCallbacks, queue, th, asleep>>

Cancellable == {"pending", "ready"}

CancelAllJobs ==
    /\ cancelled' = TRUE /\ asleep' = {}
    /\ state' = [j \in Jobs |-> IF j \in jobs /\ state[j] \in Cancellable
                                THEN "cancelled" ELSE state[j]]
    /\ UNCHANGED <<graph, retries, executing, activeCallbacks, queue, th, past>>

CancelAll == Call /\ CancelAllJobs

Reset ==
    /\ Call /\ ~executing /\ jobs # {}
    /\ jobs' = {} /\ state' = [j \in Jobs |-> "pending"] /\ retries' = [j \in Jobs |-> 0]
    /\ dependencies' = [j \in Jobs |-> {}] /\ dependents' = [j \in Jobs |-> {}]
    /\ cancelled' = FALSE
    /\ past' = [past EXCEPT !.removed = @ \/ \E e \in Executors : th[e] # Idle]
    /\ UNCHANGED <<created, executing, activeCallbacks, queue, th, asleep>>

\* The jobs execute(target), or execute_all without target, is after.
Needed(target) == IF target = None THEN jobs ELSE {target} \cup Reach(dependencies, target)

\* execute_all and execute(target), with the critical section their detached thread starts
\* with.  During another execution the future just gets an error.
Execute(e, target) ==
    /\ Call /\ th[e] = Idle /\ ~executing /\ target \in jobs \cup {None}
    /\ executing' = TRUE /\ cancelled' = FALSE
    /\ state' = [j \in Jobs |-> IF /\ j \in jobs \cap Needed(target)
                                   /\ state[j] = "pending" /\ Satisfied(j, state)
                                THEN "ready" ELSE state[j]]
    /\ th' = [th EXCEPT ![e].at = "gather", ![e].back = "wait"]
    /\ past' = [past EXCEPT !.excused = jobs \ Needed(target)]
    /\ UNCHANGED <<graph, retries, activeCallbacks, queue, asleep>>

CallWait(e) ==
    /\ Call /\ th[e] = Idle
    /\ th' = [th EXCEPT ![e].at = "wait"]
    /\ UNCHANGED <<graph, state, retries, flags, activeCallbacks, queue, asleep, past>>

---------------------------------------------------------------------------
(* wait(), and the end of the detached thread.                              *)

Wait(e) ==
    /\ th[e].at = "wait" /\ e \notin asleep
    /\ IF IsExecutionComplete \/ cancelled
       THEN th' = [th EXCEPT ![e].at = "finish"] /\ UNCHANGED asleep
       ELSE asleep' = asleep \cup {e} /\ UNCHANGED th
    /\ UNCHANGED <<graph, state, retries, flags, activeCallbacks, queue, rest, past>>

\* executing_ is cleared and the future gets its value; a plain wait() just returns.
Finish(e) ==
    /\ th[e].at = "finish" /\ th' = [th EXCEPT ![e] = Idle]
    /\ executing' = (executing /\ th[e].back # "wait")
    /\ UNCHANGED <<graph, state, retries, cancelled, activeCallbacks, queue, asleep, rest, past>>

---------------------------------------------------------------------------
(* schedule_ready_jobs and execute_job, called by executors and by workers. *)

\* The loop goes on with the ready jobs left, or returns to the caller.
Continue(t, left) ==
    th' = [th EXCEPT ![t].at = IF left = {} THEN th[t].back ELSE "launch",
                     ![t].todo = left, ![t].job = None]

Gather(t) ==
    /\ th[t].at = "gather"
    /\ Continue(t, IF cancelled THEN {} ELSE {j \in jobs : state[j] = "ready"})
    /\ UNCHANGED <<graph, state, retries, flags, activeCallbacks, queue, asleep, rest, past>>

LaunchBreaks(t) ==
    /\ th[t].at = "launch" /\ cancelled /\ Continue(t, {})
    /\ UNCHANGED <<graph, state, retries, flags, activeCallbacks, queue, asleep, rest, past>>

Launch(t, id) ==
    /\ th[t].at = "launch" /\ id \in th[t].todo /\ ~cancelled
    /\ th' = [th EXCEPT ![t].at = "exec", ![t].job = id, ![t].todo = @ \ {id}]
    /\ UNCHANGED <<graph, state, retries, flags, activeCallbacks, queue, asleep, rest, past>>

\* Mutant: a job another thread has started is started again.
StartableAlways(id) == id \in jobs /\ state[id] \in {"ready", "running"}

\* The compare-exchange of execute_job.
Startable(id) == id \in jobs /\ state[id] = "ready"

\* The result of pool_->enqueue is ignored: a job the pool refuses stays running.
ExecuteJob(t) ==
    /\ th[t].at = "exec"
    /\ IF conf.parallel THEN Continue(t, th[t].todo) ELSE th' = [th EXCEPT ![t].at = "await"]
    /\ IF Startable(th[t].job)
       THEN /\ state' = [state EXCEPT ![th[t].job] = "running"]
            /\ \/ queue' = Append(queue, th[t].job) /\ UNCHANGED past
               \/ past' = [past EXCEPT !.refused = TRUE] /\ UNCHANGED queue
       ELSE UNCHANGED <<state, queue, past>>
    /\ UNCHANGED <<graph, retries, flags, activeCallbacks, asleep, rest>>

\* Sequential execution: the thread, a worker too, waits for the job it has enqueued.
Await(t) ==
    /\ th[t].at = "await" /\ t \notin asleep
    /\ IF th[t].job \in jobs /\ state[th[t].job] = "running"
       THEN asleep' = asleep \cup {t} /\ UNCHANGED th
       ELSE Continue(t, th[t].todo) /\ UNCHANGED asleep
    /\ UNCHANGED <<graph, state, retries, flags, activeCallbacks, queue, rest, past>>

---------------------------------------------------------------------------
(* The wrapper job of execute_job in a worker.  The workers are alike: the  *)
(* first idle one takes the next wrapper.                                   *)

TakeWrapper(w) ==
    /\ th[w] = Idle /\ queue # <<>> /\ \A v \in 1..(w - 1) : th[v] # Idle
    /\ queue' = Tail(queue)
    /\ th' = IF Head(queue) \in jobs
             THEN [th EXCEPT ![w].at = "work", ![w].job = Head(queue)] ELSE th
    /\ UNCHANGED <<graph, state, retries, flags, activeCallbacks, asleep, rest, past>>

\* do_work returns, and on_job_completed or on_job_failed counts itself in.  A job whose
\* own token is cancelled marks itself before it fails.
DoWork(w) ==
    /\ th[w].at = "work" /\ activeCallbacks' = activeCallbacks + 1
    /\ \/ /\ \E result \in {"completed", "failed"} : th' = [th EXCEPT ![w].at = result]
          /\ UNCHANGED <<state, past>>
       \/ /\ ~past.token /\ th[w].job \in jobs
          /\ th' = [th EXCEPT ![w].at = "failed"]
          /\ state' = [state EXCEPT ![th[w].job] = "cancelled"]
          /\ past' = [past EXCEPT !.token = TRUE]
    /\ UNCHANGED <<graph, retries, flags, queue, asleep, rest>>

\* Both callbacks return at once, and leave active_callbacks_ as it is, when the job is gone.
CallbackJobGone(w) ==
    /\ th[w].at \in {"completed", "failed"} /\ th[w].job \notin jobs
    /\ th' = [th EXCEPT ![w] = Idle]
    /\ UNCHANGED <<graph, state, retries, flags, activeCallbacks, queue, asleep, rest, past>>

\* A callback leaves its critical section and schedules what has become ready.
ThenSchedule(w, back) ==
    /\ th' = [th EXCEPT ![w] = [at |-> "gather", job |-> None, todo |-> {}, back |-> back]]
    /\ UNCHANGED <<graph, flags, activeCallbacks, queue, asleep, rest>>

\* Mutant: the dependents are judged by the states before this completion.
CompletedStale(id) ==
    [j \in Jobs |-> IF j = id THEN "completed"
                    ELSE IF /\ j \in jobs \cap dependents[id]
                            /\ state[j] = "pending" /\ Satisfied(j, state)
                         THEN "ready" ELSE state[j]]

\* Mutant: a dependent is ready as soon as one dependency completes.
CompletedEager(id) ==
    [j \in Jobs |-> IF j = id THEN "completed"
                    ELSE IF j \in jobs \cap dependents[id] /\ state[j] = "pending"
                         THEN "ready" ELSE state[j]]

\* The states after the completion of id: dependents with nothing left to wait for are ready.
Completed(id) ==
    LET s == [state EXCEPT ![id] = "completed"]
    IN  [j \in Jobs |-> IF /\ j \in jobs \cap dependents[id]
                           /\ s[j] = "pending" /\ Satisfied(j, s)
                        THEN "ready" ELSE s[j]]

OnJobCompleted(w) ==
    /\ th[w].at = "completed" /\ th[w].job \in jobs
    /\ state' = Completed(th[w].job) /\ ThenSchedule(w, "notify")
    /\ UNCHANGED <<retries, past>>

MayRetry(id) == conf.policy = "retry" /\ retries[id] < MaxRetries

\* Mutant: the callback of a retry returns without scheduling.
RetryJobForgotten(w) ==
    LET id == th[w].job
    IN  /\ th[w].at = "failed" /\ id \in jobs /\ MayRetry(id)
        /\ retries' = [retries EXCEPT ![id] = @ + 1]
        /\ state' = [state EXCEPT ![id] = "ready"]
        /\ th' = [th EXCEPT ![w] = Idle]
        /\ UNCHANGED <<graph, flags, activeCallbacks, queue, asleep, rest, past>>

\* Retry: the callback sleeps, schedules and returns without notifying or counting out.
RetryJob(w) ==
    LET id == th[w].job
    IN  /\ th[w].at = "failed" /\ id \in jobs /\ MayRetry(id)
        /\ retries' = [retries EXCEPT ![id] = @ + 1]
        /\ state' = [state EXCEPT ![id] = "ready"]
        /\ ThenSchedule(w, "idle") /\ UNCHANGED past

\* The fallback succeeds: the job is complete, its dependents are not looked at.
Fallback(w) ==
    LET id == th[w].job
    IN  /\ th[w].at = "failed" /\ id \in jobs /\ conf.policy = "fallback"
        /\ state' = [state EXCEPT ![id] = "completed"]
        /\ past' = [past EXCEPT !.excused = Excuse(dependents[id], TRUE)]
        /\ ThenSchedule(w, "notify") /\ UNCHANGED retries

FailJob(w) ==
    LET id == th[w].job
        end == IF conf.policy = "continue_others" THEN "skipped" ELSE "cancelled"
    IN  /\ th[w].at = "failed" /\ id \in jobs /\ ~MayRetry(id)
        /\ state' = [j \in Jobs |-> IF j = id THEN "failed"
                                    ELSE IF j \in Cascade(id) THEN end ELSE state[j]]
        /\ ThenSchedule(w, "notify") /\ UNCHANGED <<retries, past>>

Notify(w) ==
    /\ th[w].at = "notify" /\ th' = [th EXCEPT ![w] = Idle]
    /\ asleep' = {} /\ activeCallbacks' = activeCallbacks - 1
    /\ UNCHANGED <<graph, state, retries, flags, queue, rest, past>>

---------------------------------------------------------------------------
(* The destructor, called once every future has its value.                  *)

Destroy ==
    /\ dtor = "no" /\ \A e \in Executors : th[e] = Idle
    /\ dtor' = "waiting" /\ CancelAllJobs /\ UNCHANGED <<conf, calls>>

CallbacksDone == activeCallbacks = 0

Destroyed ==
    /\ dtor = "waiting" /\ CallbacksDone /\ dtor' = "gone"
    /\ UNCHANGED <<graph, state, retries, flags, activeCallbacks, queue, th, asleep,
                   conf, calls, past>>

---------------------------------------------------------------------------

User ==
    \/ \E deps \in NewDeps : AddJob(deps)
    \/ \E j, d \in Jobs : AddDependency(j, d)
    \/ \E id \in Jobs : RemoveJob(id)
    \/ CancelAll \/ Reset \/ Destroy
    \/ \E e \in Executors : CallWait(e) \/ \E target \in Jobs \cup {None} : Execute(e, target)

Schedule(t) ==
    \/ Gather(t) \/ LaunchBreaks(t) \/ ExecuteJob(t) \/ Await(t)
    \/ \E id \in Jobs : Launch(t, id)

Executor(e) == Schedule(e) \/ Wait(e) \/ Finish(e)

Worker(w) ==
    \/ TakeWrapper(w) \/ DoWork(w) \/ CallbackJobGone(w) \/ OnJobCompleted(w)
    \/ RetryJob(w) \/ Fallback(w) \/ FailJob(w) \/ Schedule(w) \/ Notify(w)

Next ==
    \/ User \/ Destroyed
    \/ \E e \in Executors : Executor(e)
    \/ \E w \in Workers : Worker(w)

\* Threads inside a call go on; the jobs' functions return.
Spec ==
    /\ Init /\ [][Next]_vars
    /\ \A e \in Executors : WF_vars(Executor(e))
    /\ \A w \in Workers : WF_vars(Worker(w))
    /\ WF_vars(Destroyed)

---------------------------------------------------------------------------
(* Properties.                                                              *)

\* The worker has a wrapper in hand.
InHand(w) == th[w].at \in {"work", "completed", "failed"}

\* Two threads that gather the same ready job do not both run it: the compare-exchange of
\* execute_job admits one, so a job has at most one wrapper, queued or in a worker.
OneWrapper ==
    /\ \A i, k \in DOMAIN queue : queue[i] = queue[k] => i = k
    /\ \A w \in Workers : InHand(w) =>
          /\ \A i \in DOMAIN queue : queue[i] # th[w].job
          /\ \A v \in Workers : InHand(v) /\ th[v].job = th[w].job => v = w

\* A job runs only after everything it depends on has completed, unless add_dependency
\* was called on it when it was already on its way.
DependenciesFirst ==
    \A j \in jobs \ past.late : state[j] \in {"ready", "running"} => Satisfied(j, state)

\* When the last of several dependencies completes, concurrently with others, the
\* dependent job becomes ready: no pending job is left with all its dependencies completed.
ReadinessNotLost ==
    executing /\ ~past.token =>
        \A j \in GetReadyJobs \ past.excused : state[j] = "ready"

\* An execution ends: its future gets its value once every job has run, failed or been
\* skipped, whatever is retried, cancelled or fails.  Not so when a job cannot become ready
\* (a dependency missing, added or removed meanwhile, or a job the target does not need),
\* the pool refused one, or workers run jobs in sequence and wait for each other.
ExecutionEnds ==
    \A e \in Executors : th[e].at = "gather" ~>
        \/ th[e] = Idle \/ ~conf.parallel \/ Placed # jobs
        \/ past.refused \/ past.removed \/ past.excused # {} \/ past.late # {}
===============================================================================
