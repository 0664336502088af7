-------------------------- MODULE DagSchedulerProofs --------------------------
(***************************************************************************)
(* Proofs about dag_scheduler for any graph, failure policy and calls.     *)
(***************************************************************************)
EXTENDS DagScheduler, WellFoundedInduction, TLAPS

---------------------------------------------------------------------------
(* Reach: by induction over the layers, as the least layer that fails.      *)

\* The order of the naturals has no infinite descent.
LEMMA LessWellFounded == IsWellFoundedOn({p \in Nat \X Nat : p[1] < p[2]}, Nat)
BY NatLessThanWellFounded DEF OpToRel

\* A set of naturals that is not empty has a least element: induction for the search below.
LEMMA LeastElement ==
    ASSUME NEW T \in SUBSET Nat, T # {}
    PROVE  \E x \in T : \A y \in T : x <= y
<1>1. PICK x \in T : \A y \in T : ~(<<y, x>> \in {p \in Nat \X Nat : p[1] < p[2]})
  BY LessWellFounded, WFMin, Zenon
<1>2. \A y \in T : ~(y < x)
  BY <1>1, Zenon
<1> QED
  BY <1>2

\* f holds the layers of the search from j up to the m-th.
Layers(g, j, m, f) ==
    f = [n \in 0..m |-> IF n = 0 THEN g[j] ELSE f[n - 1] \cup UNION {g[k] : k \in f[n - 1]}]

\* The layers of the search along the edges of a graph exist up to any depth.
LEMMA LayersExist ==
    ASSUME NEW g, NEW j, NEW m \in Nat
    PROVE  \E f : Layers(g, j, m, f)
<1> DEFINE T == {n \in Nat : ~\E f : Layers(g, j, n, f)}
<1>1. ASSUME T # {} PROVE FALSE
  <2>1. PICK x \in T : \A y \in T : x <= y
    BY <1>1, LeastElement, Zenon
  <2>2. CASE x = 0
    <3> DEFINE f == [n \in 0..0 |-> g[j]]
    <3>1. Layers(g, j, 0, f)
      BY DEF Layers
    <3> QED
      BY <2>1, <2>2, <3>1
  <2>3. CASE x # 0
    <3>1. x - 1 \in Nat /\ x - 1 \notin T /\ x \in Nat
      BY <2>1, <2>3
    <3>2. PICK h : Layers(g, j, x - 1, h)
      BY <3>1
    <3> DEFINE f == [n \in 0..x |-> IF n < x THEN h[n] ELSE h[x - 1] \cup UNION {g[k] : k \in h[x - 1]}]
    <3>3. \A n \in 0..(x - 1) : h[n] = IF n = 0 THEN g[j] ELSE h[n - 1] \cup UNION {g[k] : k \in h[n - 1]}
      BY <3>2, Zenon DEF Layers
    <3>4. ASSUME NEW n \in 0..x
          PROVE  f[n] = IF n = 0 THEN g[j] ELSE f[n - 1] \cup UNION {g[k] : k \in f[n - 1]}
      <4>1. CASE n < x
        <5>1. n \in 0..(x - 1) /\ f[n] = h[n] /\ (n # 0 => f[n - 1] = h[n - 1])
          BY <3>1, <4>1
        <5> QED
          BY <3>3, <5>1, Zenon
      <4>2. CASE n = x
        BY <2>3, <3>1, <4>2
      <4> QED
        BY <3>1, <4>1, <4>2
    <3>5. Layers(g, j, x, f)
      BY <3>4, Zenon DEF Layers
    <3> QED
      BY <2>1, <3>5
  <2> QED
    BY <2>2, <2>3
<1> QED
  BY <1>1

\* The search stays in a set that the edges do not leave.
LEMMA ReachWithin ==
    ASSUME NEW g, NEW j, NEW S, g[j] \subseteq S, \A k \in S : g[k] \subseteq S
    PROVE  Reach(g, j) \subseteq S
<1> DEFINE layer[n \in 0..MaxJobs] ==
            IF n = 0 THEN g[j] ELSE layer[n - 1] \cup UNION {g[k] : k \in layer[n - 1]}
<1>1. Reach(g, j) = layer[MaxJobs]
  BY DEF Reach
<1>2. layer = CHOOSE f : f = [n \in 0..MaxJobs |->
                 IF n = 0 THEN g[j] ELSE f[n - 1] \cup UNION {g[k] : k \in f[n - 1]}]
  OBVIOUS
<1> HIDE DEF layer
<1>3. Layers(g, j, MaxJobs, layer)
  <2>1. layer = CHOOSE f : Layers(g, j, MaxJobs, f)
    BY <1>2, Zenon DEF Layers
  <2>2. PICK f : Layers(g, j, MaxJobs, f)
    BY LayersExist, DagBounds
  <2> QED
    BY <2>1, <2>2, Zenon
<1>4. \A n \in 0..MaxJobs : layer[n] = IF n = 0 THEN g[j] ELSE layer[n - 1] \cup UNION {g[k] : k \in layer[n - 1]}
  BY <1>3, Zenon DEF Layers
<1> DEFINE T == {n \in 0..MaxJobs : ~(layer[n] \subseteq S)}
<1>5. ASSUME T # {} PROVE FALSE
  <2>1. PICK x \in T : \A y \in T : x <= y
    <3>1. T \in SUBSET Nat
      OBVIOUS
    <3> QED
      BY <1>5, <3>1, LeastElement, Zenon
  <2>2. x # 0 /\ x \in 0..MaxJobs
    BY <1>4, <2>1, Zenon
  <2>3. x - 1 \in 0..MaxJobs /\ x - 1 \notin T
    <3>1. x - 1 \in 0..MaxJobs /\ ~(x <= x - 1)
      BY <2>2, DagBounds
    <3> QED
      BY <2>1, <3>1
  <2>4. layer[x - 1] \subseteq S
    BY <2>3
  <2>5. layer[x] = layer[x - 1] \cup UNION {g[k] : k \in layer[x - 1]}
    BY <1>4, <2>2, Zenon
  <2>6. layer[x] \subseteq S
    BY <2>4, <2>5
  <2> QED
    BY <2>1, <2>6
<1> QED
  BY <1>1, <1>5, DagBounds

---------------------------------------------------------------------------
(* The inductive invariant.                                                 *)

States == {"pending", "ready", "running"} \cup Terminal

Spots ==
    {"idle", "gather", "wait", "finish", "launch", "exec", "await", "work", "completed", "failed", "notify"}

Records ==
    {r \in [at : Spots, job : Jobs \cup {None}, todo : SUBSET Jobs, back : {"idle", "wait", "notify"}] :
        r.at \in {"exec", "work", "completed", "failed"} => r.job \in Jobs}

GraphTyped ==
    /\ created \in 0..MaxJobs /\ jobs \subseteq 1..created
    /\ dependencies \in [Jobs -> SUBSET Jobs] /\ dependents \in [Jobs -> SUBSET Jobs]
    /\ \A j, d \in Jobs : d \in dependencies[j] <=> j \in dependents[d]
    /\ \A j \in Jobs \ jobs : dependencies[j] = {}

StateTyped ==
    /\ state \in [Jobs -> States]
    /\ \A j \in Jobs \ jobs : state[j] = "pending"
    /\ past \in [late : SUBSET Jobs, excused : SUBSET Jobs, token : BOOLEAN, removed : BOOLEAN, refused : BOOLEAN]

ThreadsTyped == th \in [Threads -> Records] /\ queue \in Seq(Jobs)

InFlight(j) ==
    \/ \E i \in DOMAIN queue : queue[i] = j
    \/ \E w \in Workers : InHand(w) /\ th[w].job = j

\* A job with a wrapper is running, or marked cancelled by its own token, or no longer known.
Started ==
    \A j \in Jobs : InFlight(j) => j <= created /\ (j \in jobs => state[j] \in {"running", "cancelled"})

FlightSatisfied ==
    \A j \in jobs \ past.late : state[j] \in {"ready", "running"} \/ InFlight(j) => Satisfied(j, state)

DagInv ==
    /\ GraphTyped /\ StateTyped /\ ThreadsTyped
    /\ Started /\ OneWrapper /\ FlightSatisfied /\ ReadinessNotLost

\* What the sets of jobs and threads are.
LEMMA JobsAre == Jobs = 1..MaxJobs /\ None \notin Jobs /\ Workers \subseteq Threads
BY DagBounds DEF Jobs, Threads

\* The scheduler knows only ids it has given out.
LEMMA JobsKnown == GraphTyped => jobs \subseteq Jobs
BY JobsAre, DagBounds DEF GraphTyped

\* The record of a thread that is in no call.
LEMMA IdleTyped == Idle \in Records /\ Idle.at = "idle"
BY DEF Idle, Records, Spots

\* A new scheduler has no jobs, no wrappers and idle threads.
LEMMA InitDagInv == Init => DagInv
<1> SUFFICES ASSUME Init PROVE DagInv
  OBVIOUS
<1> DEFINE g == conf.graph
<1>1. g \in Seq(SUBSET Jobs) /\ Len(g) \in 0..MaxJobs /\ DOMAIN g = 1..Len(g)
  BY DagGraphs, DagBounds DEF Init, Jobs
<1>2. ASSUME NEW j \in DOMAIN g PROVE g[j] \subseteq Jobs /\ j \in Jobs
  <2>1. g[j] \in SUBSET Jobs
    BY <1>1
  <2> QED
    BY <1>1, <2>1, DagBounds DEF Jobs
<1>3. /\ created = Len(g) /\ jobs = 1..created
      /\ dependencies = [j \in Jobs |-> IF j \in jobs THEN g[j] ELSE {}]
      /\ dependents = [d \in Jobs |-> {j \in jobs : d \in g[j]}]
  BY <1>1 DEF Init
<1>4. jobs \subseteq Jobs /\ \A j \in jobs : g[j] \subseteq Jobs
  BY <1>1, <1>2, <1>3
<1> HIDE DEF g
<1>5. GraphTyped
  <2>1. dependencies \in [Jobs -> SUBSET Jobs] /\ dependents \in [Jobs -> SUBSET Jobs]
    BY <1>3, <1>4
  <2>2. \A j, d \in Jobs : d \in dependencies[j] <=> j \in dependents[d]
    BY <1>3, <1>4
  <2>3. (\A j \in Jobs \ jobs : dependencies[j] = {}) /\ jobs \subseteq 1..created
    BY <1>3
  <2>4. created \in 0..MaxJobs
    BY <1>1, <1>3
  <2> QED
    BY <2>1, <2>2, <2>3, <2>4 DEF GraphTyped
<1>6. StateTyped
  BY DEF Init, StateTyped, States, NoPast
<1>7. ThreadsTyped
  BY IdleTyped DEF Init, ThreadsTyped
<1>8. \A w \in Workers : ~InHand(w)
  BY IdleTyped, JobsAre DEF Init, InHand
<1>9. Started /\ OneWrapper
  BY <1>8 DEF Init, Started, InFlight, OneWrapper
<1>10. FlightSatisfied
  <2>1. \A j \in Jobs : ~InFlight(j) /\ state[j] = "pending"
    BY <1>8 DEF Init, InFlight
  <2> QED
    BY <1>3, <1>4, <2>1 DEF FlightSatisfied
<1>11. ReadinessNotLost
  BY DEF Init, ReadinessNotLost
<1> QED
  BY <1>5, <1>6, <1>7, <1>9, <1>10, <1>11 DEF DagInv

---------------------------------------------------------------------------
(* Steps of a thread that leave the graph and the states alone.             *)

\* A thread that comes to r, with no wrapper in hand there.
LEMMA FlightFrame ==
    ASSUME ThreadsTyped, OneWrapper, NEW t \in Threads, NEW r \in Records,
           th' = [th EXCEPT ![t] = r], r.at \notin {"work", "completed", "failed"}, queue' = queue
    PROVE  ThreadsTyped' /\ OneWrapper' /\ \A j \in Jobs : InFlight(j)' => InFlight(j)
<1>1. th'[t] = r /\ \A u \in Threads \ {t} : th'[u] = th[u]
  BY DEF ThreadsTyped
<1>2. \A w \in Workers : InHand(w)' => w # t /\ InHand(w) /\ th'[w] = th[w]
  BY <1>1, JobsAre DEF InHand
<1>3. ThreadsTyped'
  BY DEF ThreadsTyped
<1>4. OneWrapper'
  BY <1>2 DEF OneWrapper
<1>5. \A j \in Jobs : InFlight(j)' => InFlight(j)
  BY <1>2 DEF InFlight
<1> QED
  BY <1>3, <1>4, <1>5

\* No wrapper appears, and the graph and the states stay.
LEMMA StaysDagInv ==
    ASSUME DagInv, ThreadsTyped', OneWrapper', \A j \in Jobs : InFlight(j)' => InFlight(j),
           UNCHANGED <<created, jobs, dependencies, dependents, state, past>>, executing' => executing
    PROVE  DagInv'
<1>1. GraphTyped' /\ StateTyped'
  BY DEF DagInv, GraphTyped, StateTyped
<1>2. Started'
  BY DEF DagInv, Started
<1>3. jobs \subseteq Jobs
  BY JobsKnown DEF DagInv
<1>4. FlightSatisfied'
  BY <1>3 DEF DagInv, FlightSatisfied, Satisfied
<1>5. ReadinessNotLost'
  BY DEF DagInv, ReadinessNotLost, GetReadyJobs, Satisfied
<1> QED
  BY <1>1, <1>2, <1>4, <1>5 DEF DagInv

\* A thread goes on with no wrapper in hand; graph, states and queue stay.
LEMMA ThreadDagInv ==
    ASSUME DagInv, NEW t \in Threads, NEW r \in Records,
           th' = [th EXCEPT ![t] = r], r.at \notin {"work", "completed", "failed"}, queue' = queue,
           UNCHANGED <<created, jobs, dependencies, dependents, state, past>>, executing' => executing
    PROVE  DagInv'
<1>1. ThreadsTyped' /\ OneWrapper' /\ \A j \in Jobs : InFlight(j)' => InFlight(j)
  BY FlightFrame, Zenon DEF DagInv
<1> QED
  BY <1>1, StaysDagInv

\* Where schedule_ready_jobs goes on.
Onward(t, left) ==
    [th[t] EXCEPT !.at = IF left = {} THEN th[t].back ELSE "launch", !.todo = left, !.job = None]

\* Where schedule_ready_jobs goes on is a place of a thread, without a wrapper.
LEMMA OnwardTyped ==
    ASSUME ThreadsTyped, NEW t \in Threads, NEW left \in SUBSET Jobs, Continue(t, left)
    PROVE  /\ th' = [th EXCEPT ![t] = Onward(t, left)] /\ Onward(t, left) \in Records
           /\ Onward(t, left).at \notin {"work", "completed", "failed"}
<1>1. th[t] \in Records
  BY DEF ThreadsTyped
<1>2. th' = [th EXCEPT ![t] = Onward(t, left)]
  BY Zenon DEF Continue, Onward, ThreadsTyped
<1>3. /\ Onward(t, left) \in Records
      /\ Onward(t, left).at \in {"idle", "wait", "notify", "launch"}
  BY <1>1, Zenon DEF Onward, Records, Spots
<1> QED
  BY <1>2, <1>3

\* schedule_ready_jobs: gather the ready jobs, choose the next, wait for it if sequential.
LEMMA ScheduleDagInv ==
    ASSUME DagInv, NEW t \in Threads,
           Gather(t) \/ LaunchBreaks(t) \/ Await(t) \/ \E id \in Jobs : Launch(t, id)
    PROVE  DagInv'
<1>0. th[t] \in Records /\ th[t].todo \subseteq Jobs /\ ThreadsTyped
  BY DEF DagInv, ThreadsTyped, Records
<1>1. UNCHANGED <<created, jobs, dependencies, dependents, state, past, executing, queue>>
  BY Zenon DEF Gather, LaunchBreaks, Await, Launch, graph, edges, flags
<1>2. ASSUME NEW left \in SUBSET Jobs, Continue(t, left) PROVE DagInv'
  BY <1>0, <1>1, <1>2, OnwardTyped, ThreadDagInv
<1>3. CASE Gather(t)
  <2>1. {j \in jobs : state[j] = "ready"} \in SUBSET Jobs
    BY JobsKnown DEF DagInv
  <2> QED
    BY <1>2, <1>3, <2>1 DEF Gather
<1>4. CASE LaunchBreaks(t)
  BY <1>2, <1>4 DEF LaunchBreaks
<1>5. CASE Await(t)
  <2>1. CASE th' = th
    <3>1. ThreadsTyped' /\ OneWrapper' /\ \A j \in Jobs : InFlight(j)' => InFlight(j)
      BY <1>1, <2>1 DEF DagInv, ThreadsTyped, OneWrapper, InFlight, InHand
    <3> QED
      BY <1>1, <3>1, StaysDagInv
  <2>2. CASE Continue(t, th[t].todo)
    BY <1>0, <1>2, <2>2
  <2> QED
    BY <1>5, <2>1, <2>2 DEF Await
<1>6. ASSUME NEW id \in Jobs, Launch(t, id) PROVE DagInv'
  <2> DEFINE r == [th[t] EXCEPT !.at = "exec", !.job = id, !.todo = @ \ {id}]
  <2>1. r \in Records /\ r.at = "exec"
    BY <1>0, Zenon DEF Records, Spots
  <2>2. th' = [th EXCEPT ![t] = r]
    BY <1>6, Zenon DEF Launch, DagInv, ThreadsTyped
  <2> HIDE DEF r
  <2> QED
    BY <1>1, <2>1, <2>2, ThreadDagInv, Zenon
<1> QED
  BY <1>3, <1>4, <1>5, <1>6

\* Calls of wait, its return, the callbacks of a job that is gone, and the notification.
LEMMA PassiveDagInv ==
    ASSUME DagInv,
           \/ \E e \in Executors : CallWait(e) \/ Wait(e) \/ Finish(e)
           \/ \E w \in Workers : CallbackJobGone(w) \/ Notify(w)
    PROVE  DagInv'
<1>1. UNCHANGED <<created, jobs, dependencies, dependents, state, past, queue>> /\ (executing' => executing)
  <2>1. ASSUME NEW e \in Executors, CallWait(e) \/ Wait(e) PROVE UNCHANGED <<created, jobs, dependencies, dependents, state, past, queue>> /\ executing' = executing
    BY <2>1 DEF CallWait, Wait, graph, edges, flags
  <2>2. ASSUME NEW e \in Executors, Finish(e) PROVE UNCHANGED <<created, jobs, dependencies, dependents, state, past, queue>> /\ executing' = (executing /\ th[e].back # "wait")
    BY <2>2 DEF Finish, graph, edges
  <2>3. ASSUME NEW w \in Workers, CallbackJobGone(w) \/ Notify(w) PROVE UNCHANGED <<created, jobs, dependencies, dependents, state, past, queue>> /\ executing' = executing
    BY <2>3 DEF CallbackJobGone, Notify, graph, edges, flags
  <2> QED
    BY <2>1, <2>2, <2>3, Zenon
<1>2. ASSUME NEW t \in Threads, th' = [th EXCEPT ![t] = Idle] PROVE DagInv'
  BY <1>1, <1>2, IdleTyped, ThreadDagInv, Zenon
<1>3. ASSUME NEW t \in Threads, NEW at \in {"wait", "finish"}, th' = [th EXCEPT ![t].at = at] PROVE DagInv'
  <2> DEFINE r == [th[t] EXCEPT !.at = at]
  <2>1. r \in Records /\ r.at = at
    BY DEF DagInv, ThreadsTyped, Records, Spots
  <2>2. th' = [th EXCEPT ![t] = r]
    BY <1>3 DEF DagInv, ThreadsTyped
  <2> HIDE DEF r
  <2> QED
    BY <1>1, <2>1, <2>2, ThreadDagInv, Zenon
<1>4. CASE th' = th
  <2>1. ThreadsTyped' /\ OneWrapper' /\ \A j \in Jobs : InFlight(j)' => InFlight(j)
    BY <1>1, <1>4 DEF DagInv, ThreadsTyped, OneWrapper, InFlight, InHand
  <2> QED
    BY <1>1, <2>1, StaysDagInv
<1> QED
  BY <1>2, <1>3, <1>4 DEF CallWait, Wait, Finish, CallbackJobGone, Notify, Threads

---------------------------------------------------------------------------
(* Steps that change the states, the graph staying as it is.                *)

\* What keeps FlightSatisfied: completed jobs stay completed, and a job that is ready or
\* running now was so before, or had a wrapper, or has its dependencies completed.
LEMMA StatesSatisfied ==
    ASSUME DagInv, \A j \in Jobs : InFlight(j)' => InFlight(j) \/ state[j] = "ready",
           UNCHANGED <<jobs, dependencies>>, past'.late = past.late,
           \A j \in jobs : state[j] = "completed" => state'[j] = "completed",
           \A j \in jobs : state'[j] \in {"ready", "running"} =>
               state[j] \in {"ready", "running"} \/ InFlight(j) \/ Satisfied(j, state')
    PROVE  FlightSatisfied'
<1>1. jobs \subseteq Jobs
  BY JobsKnown DEF DagInv
<1>2. \A j \in jobs : Satisfied(j, state) => Satisfied(j, state')
  BY DEF Satisfied
<1>3. \A j \in jobs \ past.late : state'[j] \in {"ready", "running"} \/ InFlight(j)' => Satisfied(j, state')
  BY <1>1, <1>2 DEF DagInv, FlightSatisfied
<1>4. \A j \in jobs : Satisfied(j, state)' <=> Satisfied(j, state')
  BY DEF Satisfied
<1> QED
  BY <1>3, <1>4 DEF FlightSatisfied

\* What keeps ReadinessNotLost: nothing completes and nothing becomes pending.
LEMMA NoneCompletes ==
    ASSUME DagInv, UNCHANGED <<jobs, dependencies>>, executing' => executing,
           past'.token \/ past'.token = past.token, past'.excused = past.excused,
           \A j \in jobs : state'[j] = "completed" => state[j] = "completed",
           \A j \in jobs : state'[j] = "pending" => state[j] = "pending"
    PROVE  ReadinessNotLost'
<1>1. ASSUME executing', ~past'.token, NEW j \in jobs, j \notin past'.excused,
             state'[j] = "pending", Satisfied(j, state)'
      PROVE  FALSE
  <2>1. Satisfied(j, state) /\ state[j] = "pending" /\ executing /\ ~past.token
    BY <1>1 DEF Satisfied
  <2> QED
    BY <1>1, <2>1 DEF DagInv, ReadinessNotLost, GetReadyJobs
<1> QED
  BY <1>1 DEF ReadinessNotLost, GetReadyJobs

\* A callback that leaves its critical section has no wrapper any more.
LEMMA FlightEnds ==
    ASSUME DagInv, NEW w \in Workers, InHand(w), NEW back \in {"idle", "notify"},
           th' = [th EXCEPT ![w] = [at |-> "gather", job |-> None, todo |-> {}, back |-> back]], queue' = queue
    PROVE  /\ ThreadsTyped' /\ OneWrapper' /\ \A j \in Jobs : InFlight(j)' => InFlight(j)
           /\ \E id \in Jobs : id = th[w].job /\ InFlight(id) /\ ~InFlight(id)'
<1> DEFINE r == [at |-> "gather", job |-> None, todo |-> {}, back |-> back]
<1>1. r \in Records /\ r.at = "gather" /\ th' = [th EXCEPT ![w] = r]
  BY DEF Records, Spots
<1>2. th'[w].at = "gather" /\ \A u \in Threads \ {w} : th'[u] = th[u]
  BY JobsAre DEF DagInv, ThreadsTyped
<1> HIDE DEF r
<1>3. ThreadsTyped' /\ OneWrapper' /\ \A j \in Jobs : InFlight(j)' => InFlight(j)
  BY <1>1, JobsAre, FlightFrame, Zenon DEF DagInv
<1>4. PICK id \in Jobs : id = th[w].job /\ InFlight(id)
  <2>1. th[w] \in Records
    BY JobsAre DEF DagInv, ThreadsTyped
  <2> QED
    BY <2>1 DEF Records, InFlight, InHand
<1>5. ASSUME NEW v \in Workers, InHand(v)' PROVE v # w /\ InHand(v) /\ th'[v] = th[v]
  BY <1>2, <1>5, JobsAre DEF InHand
<1>6. ~InFlight(id)'
  BY <1>4, <1>5 DEF InFlight, DagInv, OneWrapper
<1> QED
  BY <1>3, <1>4, <1>6

\* on_job_failed with retries left: the job is ready again, and its wrapper gone.
LEMMA RetryDagInv ==
    ASSUME DagInv, NEW w \in Workers, RetryJob(w)
    PROVE  DagInv'
<1>1. /\ UNCHANGED <<created, jobs, dependencies, dependents, executing, past, queue>>
      /\ InHand(w) /\ th[w].job \in jobs /\ state' = [state EXCEPT ![th[w].job] = "ready"]
  BY DEF RetryJob, ThenSchedule, graph, edges, flags, InHand
<1>2. PICK id \in Jobs : /\ id = th[w].job /\ InFlight(id) /\ ~InFlight(id)'
                         /\ ThreadsTyped' /\ OneWrapper' /\ \A j \in Jobs : InFlight(j)' => InFlight(j)
  BY <1>1, FlightEnds, Zenon DEF RetryJob, ThenSchedule
<1>3. state[id] # "completed"
  BY <1>1, <1>2 DEF DagInv, Started
<1>4. state'[id] = "ready" /\ \A j \in Jobs \ {id} : state'[j] = state[j]
  BY <1>1, <1>2 DEF DagInv, StateTyped
<1>5. jobs \subseteq Jobs
  BY JobsKnown DEF DagInv
<1>6. GraphTyped' /\ StateTyped'
  BY <1>1, <1>2 DEF DagInv, GraphTyped, StateTyped, States
<1>7. Started'
  BY <1>1, <1>2, <1>4 DEF DagInv, Started
<1>8. FlightSatisfied'
  BY <1>1, <1>2, <1>3, <1>4, <1>5, StatesSatisfied
<1>9. ReadinessNotLost'
  BY <1>1, <1>2, <1>4, <1>5, NoneCompletes
<1> QED
  BY <1>2, <1>6, <1>7, <1>8, <1>9 DEF DagInv

\* The walk over the dependents only meets jobs that have not started.
LEMMA CascadeUnstarted ==
    ASSUME DagInv, NEW id \in Jobs
    PROVE  Cascade(id) \subseteq {j \in jobs : state[j] \in {"pending", "ready"}}
<1> DEFINE S == {j \in jobs : state[j] \in {"pending", "ready"}}
           g == [j \in Jobs |-> {d \in dependents[j] \cap jobs : state[d] \in {"pending", "ready"}}]
<1>1. S \subseteq Jobs
  BY JobsKnown DEF DagInv
<1>2. g[id] \subseteq S /\ \A k \in S : g[k] \subseteq S
  BY <1>1
<1>3. Cascade(id) = Reach(g, id)
  BY DEF Cascade
<1> HIDE DEF g, S
<1>4. Reach(g, id) \subseteq S
  BY <1>2, ReachWithin
<1> QED
  BY <1>3, <1>4 DEF S

\* on_job_failed without retries: the job fails, its dependents are cancelled or skipped.
LEMMA FailDagInv ==
    ASSUME DagInv, NEW w \in Workers, FailJob(w)
    PROVE  DagInv'
<1> DEFINE end == IF conf.policy = "continue_others" THEN "skipped" ELSE "cancelled"
<1>1. /\ UNCHANGED <<created, jobs, dependencies, dependents, executing, past, queue>>
      /\ InHand(w) /\ th[w].job \in jobs
      /\ state' = [j \in Jobs |-> IF j = th[w].job THEN "failed" ELSE IF j \in Cascade(th[w].job) THEN end ELSE state[j]]
  BY DEF FailJob, ThenSchedule, graph, edges, flags, InHand
<1>2. PICK id \in Jobs : /\ id = th[w].job /\ InFlight(id) /\ ~InFlight(id)'
                         /\ ThreadsTyped' /\ OneWrapper' /\ \A j \in Jobs : InFlight(j)' => InFlight(j)
  BY <1>1, FlightEnds, Zenon DEF FailJob, ThenSchedule
<1>3. state[id] # "completed"
  BY <1>1, <1>2 DEF DagInv, Started
<1>4. jobs \subseteq Jobs
  BY JobsKnown DEF DagInv
<1>5. /\ state'[id] = "failed"
      /\ \A j \in Jobs \ {id} : \/ state'[j] = state[j]
                                \/ /\ state'[j] \in {"skipped", "cancelled"} /\ j \in jobs
                                   /\ state[j] \in {"pending", "ready"}
  BY <1>1, <1>2, CascadeUnstarted
<1>6. GraphTyped' /\ StateTyped'
  <2>1. state' \in [Jobs -> States]
    BY <1>1 DEF DagInv, StateTyped, States, Terminal
  <2>2. \A j \in Jobs \ jobs : state'[j] = "pending"
    BY <1>1, <1>5 DEF DagInv, StateTyped
  <2> QED
    BY <1>1, <2>1, <2>2 DEF DagInv, GraphTyped, StateTyped
<1>7. Started'
  BY <1>1, <1>2, <1>5 DEF DagInv, Started
<1>8. FlightSatisfied'
  BY <1>1, <1>2, <1>3, <1>4, <1>5, StatesSatisfied
<1>9. ReadinessNotLost'
  BY <1>1, <1>2, <1>4, <1>5, NoneCompletes
<1> QED
  BY <1>2, <1>6, <1>7, <1>8, <1>9 DEF DagInv
\* on_job_failed with a fallback that succeeds: the job is completed.
LEMMA FallbackDagInv ==
    ASSUME DagInv, NEW w \in Workers, Fallback(w)
    PROVE  DagInv'
<1>1. /\ UNCHANGED <<created, jobs, dependencies, dependents, executing, queue>>
      /\ InHand(w) /\ th[w].job \in jobs /\ state' = [state EXCEPT ![th[w].job] = "completed"]
      /\ past' = [past EXCEPT !.excused = past.excused \cup dependents[th[w].job]]
  BY DEF Fallback, Excuse, ThenSchedule, graph, edges, flags, InHand
<1>2. PICK id \in Jobs : /\ id = th[w].job /\ InFlight(id) /\ ~InFlight(id)'
                         /\ ThreadsTyped' /\ OneWrapper' /\ \A j \in Jobs : InFlight(j)' => InFlight(j)
  BY <1>1, FlightEnds, Zenon DEF Fallback, ThenSchedule
<1>4. state'[id] = "completed" /\ \A j \in Jobs \ {id} : state'[j] = state[j]
  BY <1>1, <1>2 DEF DagInv, StateTyped
<1>5. jobs \subseteq Jobs
  BY JobsKnown DEF DagInv
<1>6. GraphTyped' /\ StateTyped'
  <2>1. past' \in [late : SUBSET Jobs, excused : SUBSET Jobs, token : BOOLEAN, removed : BOOLEAN, refused : BOOLEAN]
    BY <1>1, <1>2 DEF DagInv, StateTyped, GraphTyped
  <2> QED
    BY <1>1, <1>2, <2>1 DEF DagInv, GraphTyped, StateTyped, States, Terminal
<1>7. Started'
  BY <1>1, <1>2, <1>4 DEF DagInv, Started
<1>8. past'.late = past.late /\ past'.token = past.token /\ past'.excused = past.excused \cup dependents[id]
  BY <1>1, <1>2 DEF DagInv, StateTyped
<1>9. FlightSatisfied'
  BY <1>1, <1>2, <1>4, <1>5, <1>8, StatesSatisfied
<1>10. ReadinessNotLost'
  <2>1. ASSUME executing', ~past'.token, NEW j \in jobs, j \notin past'.excused,
               state'[j] = "pending", Satisfied(j, state)'
        PROVE  FALSE
    <3>1. state[j] = "pending" /\ executing /\ ~past.token /\ j \notin past.excused
      BY <1>1, <1>4, <1>5, <1>8, <2>1
    <3>2. id \notin dependencies[j]
      BY <1>2, <1>5, <1>8, <2>1 DEF DagInv, GraphTyped
    <3>3. dependencies[j] \subseteq Jobs
      BY <1>5, <2>1 DEF DagInv, GraphTyped
    <3>4. Satisfied(j, state)
      BY <1>1, <1>4, <2>1, <3>2, <3>3 DEF Satisfied
    <3> QED
      BY <2>1, <3>1, <3>4 DEF DagInv, ReadinessNotLost, GetReadyJobs
  <2> QED
    BY <1>1, <2>1 DEF ReadinessNotLost, GetReadyJobs
<1> QED
  BY <1>2, <1>6, <1>7, <1>9, <1>10 DEF DagInv

\* on_job_completed: the job completes, and dependents that wait for nothing else are ready.
LEMMA CompletedDagInv ==
    ASSUME DagInv, NEW w \in Workers, OnJobCompleted(w)
    PROVE  DagInv'
<1>1. /\ UNCHANGED <<created, jobs, dependencies, dependents, executing, queue, past>>
      /\ InHand(w) /\ th[w].job \in jobs /\ state' = Completed(th[w].job)
  BY DEF OnJobCompleted, ThenSchedule, graph, edges, flags, InHand
<1>2. PICK id \in Jobs : /\ id = th[w].job /\ InFlight(id) /\ ~InFlight(id)'
                         /\ ThreadsTyped' /\ OneWrapper' /\ \A j \in Jobs : InFlight(j)' => InFlight(j)
  BY <1>1, FlightEnds, Zenon DEF OnJobCompleted, ThenSchedule
<1>3. jobs \subseteq Jobs
  BY JobsKnown DEF DagInv
<1> DEFINE s == [state EXCEPT ![id] = "completed"]
           Wakes(j) == j \in jobs \cap dependents[id] /\ s[j] = "pending" /\ Satisfied(j, s)
<1>4. s[id] = "completed" /\ \A j \in Jobs \ {id} : s[j] = state[j]
  BY DEF DagInv, StateTyped
<1>5. state' = [j \in Jobs |-> IF Wakes(j) THEN "ready" ELSE s[j]]
  BY <1>1, <1>2 DEF Completed
<1> HIDE DEF s
<1>6. /\ state'[id] = "completed" /\ ~Wakes(id)
      /\ \A j \in Jobs \ {id} : IF Wakes(j) THEN state'[j] = "ready" /\ state[j] = "pending"
                                ELSE state'[j] = state[j]
  BY <1>4, <1>5
<1>7. \A j \in jobs : (s[j] = "completed") <=> (state'[j] = "completed")
  BY <1>3, <1>4, <1>6
<1>8. \A j \in jobs : Satisfied(j, s) <=> Satisfied(j, state')
  BY <1>7 DEF Satisfied
<1>9. GraphTyped' /\ StateTyped'
  <2>1. state' \in [Jobs -> States]
    BY <1>4, <1>5, <1>6 DEF DagInv, StateTyped, States, Terminal
  <2>2. \A j \in Jobs \ jobs : state'[j] = "pending"
    BY <1>1, <1>2, <1>6 DEF DagInv, StateTyped
  <2> QED
    BY <1>1, <2>1, <2>2 DEF DagInv, GraphTyped, StateTyped
<1>10. Started'
  BY <1>1, <1>2, <1>6 DEF DagInv, Started
<1>11. FlightSatisfied'
  <2>1. \A j \in jobs : state[j] = "completed" => state'[j] = "completed"
    BY <1>3, <1>6
  <2>2. \A j \in jobs : state'[j] \in {"ready", "running"} =>
               state[j] \in {"ready", "running"} \/ Satisfied(j, state')
    BY <1>3, <1>6, <1>8
  <2> QED
    BY <1>1, <1>2, <2>1, <2>2, StatesSatisfied
<1>12. ReadinessNotLost'
  <2>1. ASSUME executing', ~past'.token, NEW j \in jobs, j \notin past'.excused,
               state'[j] = "pending", Satisfied(j, state)'
        PROVE  FALSE
    <3>1. Satisfied(j, s) /\ j \in Jobs /\ j # id
      <4>1. Satisfied(j, state')
        BY <1>1, <2>1 DEF Satisfied
      <4> QED
        BY <1>3, <1>6, <1>8, <2>1, <4>1
    <3>2. s[j] = "pending" /\ state[j] = "pending" /\ ~Wakes(j)
      BY <1>4, <1>6, <2>1, <3>1
    <3>3. id \notin dependencies[j]
      BY <3>1, <3>2 DEF DagInv, GraphTyped
    <3>4. Satisfied(j, state)
      BY <1>3, <1>4, <3>1, <3>3 DEF Satisfied
    <3> QED
      BY <1>1, <2>1, <3>2, <3>4 DEF DagInv, ReadinessNotLost, GetReadyJobs
  <2> QED
    BY <1>1, <2>1 DEF ReadinessNotLost, GetReadyJobs
<1> QED
  BY <1>2, <1>9, <1>10, <1>11, <1>12 DEF DagInv
\* execute_job: the compare-exchange to running, and the wrapper enters the pool or is refused.
LEMMA ExecuteJobDagInv ==
    ASSUME DagInv, NEW t \in Threads, ExecuteJob(t)
    PROVE  DagInv'
<1>1. UNCHANGED <<created, jobs, dependencies, dependents, executing>>
  BY DEF ExecuteJob, graph, edges, flags
<1>2. jobs \subseteq Jobs
  BY JobsKnown DEF DagInv
<1>3. PICK r \in Records : th' = [th EXCEPT ![t] = r] /\ r.at \notin {"work", "completed", "failed"}
  <2>1. th[t] \in Records /\ th[t].todo \in SUBSET Jobs
    BY DEF DagInv, ThreadsTyped, Records
  <2>2. CASE Continue(t, th[t].todo)
    BY <2>1, <2>2, OnwardTyped DEF DagInv
  <2>3. CASE th' = [th EXCEPT ![t].at = "await"]
    <3> DEFINE r == [th[t] EXCEPT !.at = "await"]
    <3>1. r \in Records /\ r.at = "await"
      BY <2>1 DEF Records, Spots
    <3>2. th' = [th EXCEPT ![t] = r]
      BY <2>3 DEF DagInv, ThreadsTyped
    <3> HIDE DEF r
    <3> QED
      BY <3>1, <3>2, Zenon
  <2> QED
    BY <2>2, <2>3 DEF ExecuteJob
<1>4. CASE UNCHANGED <<state, queue, past>>
  BY <1>1, <1>3, <1>4, ThreadDagInv, Zenon
<1>5. ASSUME NEW id \in Jobs, id \in jobs, state[id] = "ready", state' = [state EXCEPT ![id] = "running"],
             \/ queue' = Append(queue, id) /\ past' = past
             \/ past' = [past EXCEPT !.refused = TRUE] /\ queue' = queue
      PROVE  DagInv'
  <2>1. ~InFlight(id)
    BY <1>5 DEF DagInv, Started
  <2>2. state'[id] = "running" /\ \A j \in Jobs \ {id} : state'[j] = state[j]
    BY <1>5 DEF DagInv, StateTyped
  <2>3. past'.late = past.late /\ past'.token = past.token /\ past'.excused = past.excused
    BY <1>5 DEF DagInv, StateTyped
  <2>4. GraphTyped' /\ StateTyped'
    <3>1. past' \in [late : SUBSET Jobs, excused : SUBSET Jobs, token : BOOLEAN, removed : BOOLEAN, refused : BOOLEAN]
      BY <1>5, Zenon DEF DagInv, StateTyped
    <3>2. state' \in [Jobs -> States] /\ \A j \in Jobs \ jobs : state'[j] = "pending"
      BY <1>5 DEF DagInv, StateTyped, States
    <3> QED
      BY <1>1, <3>1, <3>2 DEF DagInv, GraphTyped, StateTyped
  <2>5. ThreadsTyped' /\ OneWrapper' /\ \A j \in Jobs : InFlight(j)' => InFlight(j) \/ j = id
    <3>1. CASE queue' = queue
      BY <1>3, <3>1, FlightFrame, Zenon DEF DagInv
    <3>2. CASE queue' = Append(queue, id)
      <4>1. PICK n \in Nat : n = Len(queue) /\ DOMAIN queue = 1..n
        BY DEF DagInv, ThreadsTyped
      <4>2. /\ queue' \in Seq(Jobs) /\ DOMAIN queue' = 1..(n + 1)
            /\ \A i \in 1..n : queue'[i] = queue[i] /\ queue'[n + 1] = id
        BY <3>2, <4>1 DEF DagInv, ThreadsTyped
      <4>3. \A i \in 1..n : queue[i] # id
        BY <2>1, <4>1 DEF InFlight
      <4>4. ASSUME NEW w \in Workers, InHand(w)' PROVE InHand(w) /\ th'[w] = th[w] /\ th[w].job # id
        <5>1. w \in Threads /\ w # t /\ th'[w] = th[w]
          BY <1>3, <4>4, JobsAre DEF InHand, DagInv, ThreadsTyped
        <5> QED
          BY <2>1, <4>4, <5>1 DEF InFlight, InHand
      <4>5. ThreadsTyped'
        BY <1>3, <4>2 DEF DagInv, ThreadsTyped
      <4>6. ASSUME NEW i \in 1..(n + 1), NEW k \in 1..(n + 1), queue'[i] = queue'[k] PROVE i = k
        <5>1. \A x \in 1..(n + 1) : x \in 1..n \/ x = n + 1
          OBVIOUS
        <5>2. queue'[n + 1] = id
          BY <3>2, <4>1 DEF DagInv, ThreadsTyped
        <5> QED
          BY <4>1, <4>2, <4>3, <4>6, <5>1, <5>2 DEF DagInv, OneWrapper
      <4>7. ASSUME NEW j \in Jobs, NEW i \in 1..(n + 1), queue'[i] = j, j # id
            PROVE  i \in 1..n /\ queue[i] = j
        <5>1. queue'[n + 1] = id
          BY <3>2, <4>1 DEF DagInv, ThreadsTyped
        <5> QED
          BY <4>2, <4>7, <5>1
      <4>8. \A w \in Workers : InHand(w)' => th'[w].job \in Jobs
        BY <4>5, JobsAre DEF ThreadsTyped, Records, InHand
      <4>9. OneWrapper'
        <5>1. ASSUME NEW w \in Workers, InHand(w)', NEW i \in 1..(n + 1), queue'[i] = th'[w].job PROVE FALSE
          BY <4>1, <4>4, <4>7, <4>8, <5>1 DEF DagInv, OneWrapper
        <5>2. ASSUME NEW w \in Workers, InHand(w)', NEW v \in Workers, InHand(v)', th'[w].job = th'[v].job PROVE w = v
          BY <4>4, <5>2 DEF DagInv, OneWrapper
        <5> QED
          BY <4>2, <4>6, <5>1, <5>2 DEF OneWrapper
      <4>10. \A j \in Jobs : InFlight(j)' => InFlight(j) \/ j = id
        BY <4>1, <4>2, <4>4, <4>7 DEF InFlight
      <4> QED
        BY <4>5, <4>9, <4>10
    <3> QED
      BY <1>5, <3>1, <3>2
  <2>6. Started'
    BY <1>1, <1>5, <2>2, <2>5 DEF DagInv, Started, GraphTyped
  <2>7. FlightSatisfied'
    BY <1>1, <1>2, <1>5, <2>2, <2>3, <2>5, StatesSatisfied
  <2>8. ReadinessNotLost'
    BY <1>1, <1>2, <2>2, <2>3, NoneCompletes
  <2> QED
    BY <2>4, <2>5, <2>6, <2>7, <2>8 DEF DagInv
<1>6. th[t].job \in Jobs
  BY DEF ExecuteJob, DagInv, ThreadsTyped, Records
<1> QED
  BY <1>4, <1>5, <1>6 DEF ExecuteJob, Startable

\* A worker takes a wrapper out of the queue of the pool; that of a removed job does nothing.
LEMMA TakeWrapperDagInv ==
    ASSUME DagInv, NEW w \in Workers, TakeWrapper(w)
    PROVE  DagInv'
<1> DEFINE id == Head(queue)
<1>1. /\ UNCHANGED <<created, jobs, dependencies, dependents, state, past, executing>>
      /\ th[w] = Idle /\ queue # <<>> /\ queue' = Tail(queue) /\ queue \in Seq(Jobs) /\ w \in Threads
  BY JobsAre DEF TakeWrapper, graph, edges, flags, DagInv, ThreadsTyped
<1>2. PICK n \in Nat : n + 1 = Len(queue)
  <2>1. Len(queue) \in Nat /\ Len(queue) # 0
    BY <1>1
  <2>2. Len(queue) - 1 \in Nat /\ (Len(queue) - 1) + 1 = Len(queue)
    BY <2>1
  <2> QED
    BY <2>2, Zenon
<1>3. /\ DOMAIN queue = 1..(n + 1) /\ queue' \in Seq(Jobs) /\ DOMAIN queue' = 1..n
      /\ id = queue[1] /\ id \in Jobs
  BY <1>1, <1>2
<1>4. \A i \in 1..n : queue'[i] = queue[i + 1] /\ i + 1 \in 1..(n + 1) /\ i + 1 # 1
  BY <1>1, <1>2
<1>5. 1 \in 1..(n + 1)
  BY <1>2
<1>6. ASSUME NEW i \in 1..n PROVE queue'[i] # queue[1]
  BY <1>3, <1>4, <1>5 DEF DagInv, OneWrapper
<1>7. ASSUME NEW i \in 1..n, NEW k \in 1..n, queue'[i] = queue'[k] PROVE i = k
  <2>1. PICK a \in 1..(n + 1), b \in 1..(n + 1) : a = i + 1 /\ b = k + 1 /\ queue[a] = queue[b]
    BY <1>4, <1>7
  <2>2. a = b
    BY <1>3, <2>1 DEF DagInv, OneWrapper
  <2> QED
    BY <2>1, <2>2
<1>8. PICK r \in Records :
        th' = [th EXCEPT ![w] = r] /\ (r.at \in {"work", "completed", "failed"} => r.job = queue[1])
  <2>1. CASE th' = th
    BY <1>1, <2>1, IdleTyped DEF DagInv, ThreadsTyped
  <2>2. CASE th' = [th EXCEPT ![w].at = "work", ![w].job = id]
    <3> DEFINE r == [th[w] EXCEPT !.at = "work", !.job = id]
    <3>1. r \in Records /\ r.job = queue[1]
      BY <1>1, <1>3, IdleTyped, Zenon DEF Records, Spots
    <3>2. th' = [th EXCEPT ![w] = r]
      BY <1>1, <2>2, Zenon DEF DagInv, ThreadsTyped
    <3> HIDE DEF r
    <3> QED
      BY <3>1, <3>2, Zenon
  <2> QED
    BY <2>1, <2>2, Zenon DEF TakeWrapper
<1> HIDE DEF id
<1>9. ThreadsTyped'
  BY <1>3, <1>8, Zenon DEF DagInv, ThreadsTyped
<1>10. ASSUME NEW v \in Workers, InHand(v)'
       PROVE  \/ v = w /\ th'[v].job = queue[1]
              \/ v # w /\ InHand(v) /\ th'[v] = th[v]
  BY <1>8, <1>10, JobsAre DEF InHand, DagInv, ThreadsTyped
<1>11. \A v \in Workers : InHand(v) => \A i \in 1..(n + 1) : queue[i] # th[v].job
  BY <1>3 DEF DagInv, OneWrapper
<1>12. OneWrapper'
  <2>1. ASSUME NEW v \in Workers, InHand(v)', NEW i \in 1..n, queue'[i] = th'[v].job PROVE FALSE
    BY <1>4, <1>6, <1>10, <1>11, <2>1
  <2>2. ASSUME NEW v \in Workers, InHand(v)', NEW u \in Workers, InHand(u)', th'[u].job = th'[v].job PROVE u = v
    BY <1>5, <1>10, <1>11, <2>2 DEF DagInv, OneWrapper
  <2> QED
    BY <1>3, <1>7, <2>1, <2>2 DEF OneWrapper
<1>13. \A j \in Jobs : InFlight(j)' => InFlight(j)
  BY <1>3, <1>4, <1>5, <1>10, Zenon DEF InFlight
<1> QED
  BY <1>1, <1>9, <1>12, <1>13, StaysDagInv
\* The work of a job ends, perhaps by its own token, and its worker goes on to the callback.
LEMMA DoWorkDagInv ==
    ASSUME DagInv, NEW w \in Workers, DoWork(w)
    PROVE  DagInv'
<1>1. /\ UNCHANGED <<created, jobs, dependencies, dependents, executing, queue>>
      /\ th[w].at = "work" /\ w \in Threads
  BY JobsAre DEF DoWork, graph, edges, flags
<1>2. PICK at \in {"completed", "failed"} : th' = [th EXCEPT ![w].at = at]
  BY DEF DoWork
<1>3. /\ \A v \in Workers \ {w} : th'[v] = th[v]
      /\ th'[w].at = at /\ th'[w].job = th[w].job
      /\ th'[w] \in Records
  <2>1. th[w] \in Records /\ th'[w] = [th[w] EXCEPT !.at = at]
    BY <1>1, <1>2 DEF DagInv, ThreadsTyped
  <2>2. th'[w].at = at /\ th'[w].job = th[w].job /\ th'[w] \in Records
    BY <1>1, <2>1 DEF Records, Spots
  <2> QED
    BY <1>1, <1>2, <2>2, JobsAre DEF DagInv, ThreadsTyped
<1>4. ThreadsTyped'
  <2>1. th' = [th EXCEPT ![w] = th'[w]]
    BY <1>1, <1>2 DEF DagInv, ThreadsTyped
  <2> QED
    BY <1>1, <1>3, <2>1 DEF DagInv, ThreadsTyped
<1>5. \A v \in Workers : InHand(v)' <=> InHand(v)
  BY <1>1, <1>3 DEF InHand
<1>6. \A v \in Workers : th'[v].job = th[v].job
  BY <1>3
<1>7. OneWrapper' /\ \A j \in Jobs : InFlight(j)' => InFlight(j)
  BY <1>1, <1>5, <1>6, Zenon DEF DagInv, OneWrapper, InFlight
<1>8. CASE UNCHANGED <<state, past>>
  BY <1>1, <1>4, <1>7, <1>8, StaysDagInv, Zenon
<1>9. ASSUME state' = [state EXCEPT ![th[w].job] = "cancelled"], past' = [past EXCEPT !.token = TRUE],
             th[w].job \in jobs
      PROVE  DagInv'
  <2>1. PICK id \in Jobs : id = th[w].job /\ InFlight(id)
    BY <1>1 DEF DagInv, ThreadsTyped, Records, InFlight, InHand
  <2>2. state[id] # "completed"
    BY <1>9, <2>1 DEF DagInv, Started
  <2>3. state'[id] = "cancelled" /\ \A j \in Jobs \ {id} : state'[j] = state[j]
    BY <1>9, <2>1 DEF DagInv, StateTyped
  <2>4. past'.late = past.late /\ past'.token = TRUE /\ past'.excused = past.excused
    BY <1>9 DEF DagInv, StateTyped
  <2>5. jobs \subseteq Jobs
    BY JobsKnown DEF DagInv
  <2>6. GraphTyped' /\ StateTyped'
    <3>1. past' \in [late : SUBSET Jobs, excused : SUBSET Jobs, token : BOOLEAN, removed : BOOLEAN, refused : BOOLEAN]
      BY <1>9, Zenon DEF DagInv, StateTyped
    <3>2. state' \in [Jobs -> States] /\ \A j \in Jobs \ jobs : state'[j] = "pending"
      BY <1>9, <2>1, <2>3 DEF DagInv, StateTyped, States, Terminal
    <3> QED
      BY <1>1, <3>1, <3>2 DEF DagInv, GraphTyped, StateTyped
  <2>7. Started'
    BY <1>1, <1>7, <2>3 DEF DagInv, Started
  <2>8. FlightSatisfied'
    BY <1>1, <1>7, <2>2, <2>3, <2>4, <2>5, StatesSatisfied
  <2>9. ReadinessNotLost'
    BY <2>4 DEF ReadinessNotLost
  <2> QED
    BY <1>4, <1>7, <2>6, <2>7, <2>8, <2>9 DEF DagInv
<1> QED
  BY <1>8, <1>9 DEF DoWork

---------------------------------------------------------------------------
(* Calls of the user.                                                       *)

\* The threads and the pool's queue stay as they are.
LEMMA FlightStays ==
    ASSUME DagInv, UNCHANGED <<th, queue>>
    PROVE  ThreadsTyped' /\ OneWrapper' /\ \A j \in Jobs : InFlight(j)' <=> InFlight(j)
BY DEF DagInv, ThreadsTyped, OneWrapper, InFlight, InHand

\* cancel_all marks the jobs that have not started.
LEMMA CancelDagInv ==
    ASSUME DagInv, CancelAllJobs
    PROVE  DagInv'
<1>1. /\ UNCHANGED <<created, jobs, dependencies, dependents, executing, past, th, queue>>
      /\ state' = [j \in Jobs |-> IF j \in jobs /\ state[j] \in {"pending", "ready"} THEN "cancelled" ELSE state[j]]
  BY DEF CancelAllJobs, Cancellable, graph, edges
<1>2. ThreadsTyped' /\ OneWrapper' /\ \A j \in Jobs : InFlight(j)' <=> InFlight(j)
  BY <1>1, FlightStays
<1>3. jobs \subseteq Jobs
  BY JobsKnown DEF DagInv
<1>4. GraphTyped' /\ StateTyped'
  <2>1. state' \in [Jobs -> States] /\ \A j \in Jobs \ jobs : state'[j] = "pending"
    BY <1>1 DEF DagInv, StateTyped, States, Terminal
  <2> QED
    BY <1>1, <2>1 DEF DagInv, GraphTyped, StateTyped
<1>5. Started'
  BY <1>1, <1>2 DEF DagInv, Started
<1>6. FlightSatisfied'
  BY <1>1, <1>2, <1>3, StatesSatisfied
<1>7. ReadinessNotLost'
  BY <1>1, <1>3, NoneCompletes
<1> QED
  BY <1>2, <1>4, <1>5, <1>6, <1>7 DEF DagInv

\* reset forgets all jobs, but not during an execution.
LEMMA ResetDagInv ==
    ASSUME DagInv, Reset
    PROVE  DagInv'
<1>1. /\ UNCHANGED <<created, executing, th, queue>> /\ ~executing /\ jobs' = {}
      /\ state' = [j \in Jobs |-> "pending"] /\ dependencies' = [j \in Jobs |-> {}]
      /\ dependents' = [j \in Jobs |-> {}]
      /\ past' = [past EXCEPT !.removed = past.removed \/ \E e \in Executors : th[e] # Idle]
  BY DEF Reset
<1>2. ThreadsTyped' /\ OneWrapper' /\ \A j \in Jobs : InFlight(j)' <=> InFlight(j)
  BY <1>1, FlightStays
<1>3. GraphTyped'
  BY <1>1 DEF DagInv, GraphTyped
<1>4. StateTyped'
  BY <1>1, Zenon DEF DagInv, StateTyped, States
<1>5. Started' /\ FlightSatisfied' /\ ReadinessNotLost'
  BY <1>1, <1>2 DEF DagInv, Started, FlightSatisfied, ReadinessNotLost
<1> QED
  BY <1>2, <1>3, <1>4, <1>5 DEF DagInv

\* execute_all and execute begin: needed jobs whose dependencies are complete are ready.
LEMMA ExecuteDagInv ==
    ASSUME DagInv, NEW e \in Executors, NEW target \in Jobs \cup {None}, Execute(e, target)
    PROVE  DagInv'
<1> DEFINE N == Needed(target)
<1>1. /\ UNCHANGED <<created, jobs, dependencies, dependents, queue>> /\ e \in Threads
      /\ th' = [th EXCEPT ![e].at = "gather", ![e].back = "wait"]
      /\ state' = [j \in Jobs |-> IF j \in jobs \cap N /\ state[j] = "pending" /\ Satisfied(j, state)
                                  THEN "ready" ELSE state[j]]
      /\ past' = [past EXCEPT !.excused = jobs \ N]
  BY DEF Execute, graph, edges, Threads
<1> HIDE DEF N
<1>2. jobs \subseteq Jobs
  BY JobsKnown DEF DagInv
<1>3. ThreadsTyped' /\ OneWrapper' /\ \A j \in Jobs : InFlight(j)' => InFlight(j)
  <2> DEFINE r == [th[e] EXCEPT !.at = "gather", !.back = "wait"]
  <2>1. r \in Records /\ r.at = "gather"
    BY <1>1, Zenon DEF Records, Spots, DagInv, ThreadsTyped
  <2>2. th' = [th EXCEPT ![e] = r]
    BY <1>1, Zenon DEF DagInv, ThreadsTyped
  <2> HIDE DEF r
  <2> QED
    BY <1>1, <2>1, <2>2, FlightFrame, Zenon DEF DagInv
<1>4. past'.late = past.late /\ past'.token = past.token /\ past'.excused = jobs \ N
  BY <1>1 DEF DagInv, StateTyped
<1>5. \A j \in Jobs : \/ state'[j] = state[j]
                      \/ state[j] = "pending" /\ state'[j] = "ready" /\ j \in jobs /\ Satisfied(j, state)
  BY <1>1
<1>6. \A j \in jobs : Satisfied(j, state) <=> Satisfied(j, state')
  BY <1>2, <1>5 DEF Satisfied
<1>7. GraphTyped' /\ StateTyped'
  <2>1. past' \in [late : SUBSET Jobs, excused : SUBSET Jobs, token : BOOLEAN, removed : BOOLEAN, refused : BOOLEAN]
    BY <1>1, <1>2 DEF DagInv, StateTyped
  <2>2. state' \in [Jobs -> States] /\ \A j \in Jobs \ jobs : state'[j] = "pending"
    BY <1>1 DEF DagInv, StateTyped, States
  <2> QED
    BY <1>1, <2>1, <2>2 DEF DagInv, GraphTyped, StateTyped
<1>8. Started'
  BY <1>1, <1>3, <1>5 DEF DagInv, Started
<1>9. FlightSatisfied'
  BY <1>1, <1>2, <1>3, <1>4, <1>5, <1>6, StatesSatisfied
<1>10. ReadinessNotLost'
  <2>1. ASSUME NEW j \in jobs, j \notin past'.excused, state'[j] = "pending", Satisfied(j, state)'
        PROVE  FALSE
    <3>1. Satisfied(j, state')
      BY <1>1, <2>1 DEF Satisfied
    <3> QED
      BY <1>1, <1>2, <1>4, <1>6, <2>1, <3>1
  <2> QED
    BY <1>1, <2>1 DEF ReadinessNotLost, GetReadyJobs
<1> QED
  BY <1>3, <1>7, <1>8, <1>9, <1>10 DEF DagInv
\* add_dependency: an edge between two known jobs that closes no cycle.
LEMMA AddDependencyDagInv ==
    ASSUME DagInv, NEW j \in Jobs, NEW d \in Jobs, AddDependency(j, d)
    PROVE  DagInv'
<1>1. /\ UNCHANGED <<created, jobs, state, executing, th, queue>> /\ j \in jobs /\ d \in jobs
      /\ dependencies' = [dependencies EXCEPT ![j] = dependencies[j] \cup {d}]
      /\ dependents' = [dependents EXCEPT ![d] = dependents[d] \cup {j}]
      /\ past' = [past EXCEPT !.late = Late({j}, state[j] # "pending" \/ Hopeless(d)),
                              !.excused = Excuse({j}, executing)]
  BY DEF AddDependency, flags
<1>2. ThreadsTyped' /\ OneWrapper' /\ \A k \in Jobs : InFlight(k)' <=> InFlight(k)
  BY <1>1, FlightStays
<1>3. /\ past'.late = Late({j}, state[j] # "pending" \/ Hopeless(d)) /\ past'.token = past.token
      /\ past'.excused = Excuse({j}, executing)
      /\ Late({j}, state[j] # "pending" \/ Hopeless(d)) \subseteq Jobs /\ Excuse({j}, executing) \subseteq Jobs
  BY <1>1 DEF DagInv, StateTyped, Late, Excuse
<1>4. StateTyped'
  BY <1>1, <1>3, Zenon DEF DagInv, StateTyped
<1>5. /\ \A k \in Jobs \ {j} : dependencies'[k] = dependencies[k]
      /\ dependencies'[j] = dependencies[j] \cup {d}
      /\ \A k \in Jobs \ {d} : dependents'[k] = dependents[k]
      /\ dependents'[d] = dependents[d] \cup {j}
  BY <1>1 DEF DagInv, GraphTyped
<1>6. GraphTyped'
  <2>1. dependencies' \in [Jobs -> SUBSET Jobs] /\ dependents' \in [Jobs -> SUBSET Jobs]
    BY <1>1 DEF DagInv, GraphTyped
  <2>2. \A x, y \in Jobs : y \in dependencies'[x] <=> x \in dependents'[y]
    BY <1>5 DEF DagInv, GraphTyped
  <2> QED
    BY <1>1, <1>5, <2>1, <2>2 DEF DagInv, GraphTyped
<1>7. Started'
  BY <1>1, <1>2 DEF DagInv, Started
<1>8. jobs \subseteq Jobs
  BY JobsKnown DEF DagInv
<1>9. \A k \in jobs \ {j} : Satisfied(k, state)' <=> Satisfied(k, state)
  BY <1>1, <1>5, <1>8 DEF Satisfied
<1>10. FlightSatisfied'
  <2>1. ASSUME NEW k \in jobs, k \notin past'.late, state[k] \in {"ready", "running"} \/ InFlight(k)
        PROVE  k # j /\ k \notin past.late
    <3>1. k \notin past.late /\ (k = j => state[j] = "pending")
      BY <1>3, <2>1 DEF Late
    <3>2. k # j
      BY <1>1, <2>1, <3>1 DEF DagInv, Started
    <3> QED
      BY <3>1, <3>2
  <2> QED
    BY <1>1, <1>2, <1>8, <1>9, <2>1 DEF DagInv, FlightSatisfied
<1>11. ReadinessNotLost'
  <2>1. ASSUME executing, ~past.token, NEW k \in jobs, k \notin past'.excused,
               state[k] = "pending", Satisfied(k, state)'
        PROVE  FALSE
    <3>1. k # j /\ k \notin past.excused
      BY <1>3, <2>1 DEF Excuse
    <3> QED
      BY <1>9, <2>1, <3>1 DEF DagInv, ReadinessNotLost, GetReadyJobs
  <2> QED
    BY <1>1, <1>3, <2>1, Zenon DEF ReadinessNotLost, GetReadyJobs
<1> QED
  BY <1>2, <1>4, <1>6, <1>7, <1>10, <1>11 DEF DagInv

\* remove_job: the job and its edges are forgotten.
LEMMA RemoveDagInv ==
    ASSUME DagInv, NEW id \in Jobs, RemoveJob(id)
    PROVE  DagInv'
<1>1. /\ UNCHANGED <<created, executing, th, queue>> /\ id \in jobs /\ jobs' = jobs \ {id}
      /\ state' = [state EXCEPT ![id] = "pending"]
      /\ dependencies' = [j \in Jobs |-> IF j = id THEN {} ELSE dependencies[j] \ {id}]
      /\ dependents' = [j \in Jobs |-> IF j = id THEN {} ELSE dependents[j] \ {id}]
      /\ past' = [past EXCEPT !.removed = past.removed \/ \E e \in Executors : th[e] # Idle,
                              !.excused = past.excused \cup dependents[id]]
  BY DEF RemoveJob, flags, Excuse
<1>2. ThreadsTyped' /\ OneWrapper' /\ \A k \in Jobs : InFlight(k)' <=> InFlight(k)
  BY <1>1, FlightStays
<1>3. past'.late = past.late /\ past'.token = past.token /\ past'.excused = past.excused \cup dependents[id]
  BY <1>1 DEF DagInv, StateTyped
<1>4. state'[id] = "pending" /\ \A j \in Jobs \ {id} : state'[j] = state[j]
  BY <1>1 DEF DagInv, StateTyped
<1>5. StateTyped'
  <2>1. past' \in [late : SUBSET Jobs, excused : SUBSET Jobs, token : BOOLEAN, removed : BOOLEAN, refused : BOOLEAN]
    BY <1>1, Zenon DEF DagInv, StateTyped, GraphTyped
  <2>2. state' \in [Jobs -> States] /\ \A j \in Jobs \ jobs' : state'[j] = "pending"
    BY <1>1, <1>4 DEF DagInv, StateTyped, States
  <2> QED
    BY <2>1, <2>2 DEF StateTyped
<1>6. GraphTyped'
  <2>1. dependencies' \in [Jobs -> SUBSET Jobs] /\ dependents' \in [Jobs -> SUBSET Jobs]
    BY <1>1 DEF DagInv, GraphTyped
  <2>2. \A x, y \in Jobs : y \in dependencies'[x] <=> x \in dependents'[y]
    BY <1>1 DEF DagInv, GraphTyped
  <2> QED
    BY <1>1, <2>1, <2>2 DEF DagInv, GraphTyped
<1>7. jobs \subseteq Jobs
  BY JobsKnown DEF DagInv
<1>8. Started'
  BY <1>1, <1>2, <1>4, <1>7 DEF DagInv, Started
<1>9. ASSUME NEW k \in jobs' PROVE Satisfied(k, state) => Satisfied(k, state)'
  <2>1. dependencies'[k] = dependencies[k] \ {id} /\ dependencies[k] \subseteq Jobs
    BY <1>1, <1>7, <1>9 DEF DagInv, GraphTyped
  <2> QED
    BY <1>1, <1>4, <2>1 DEF Satisfied
<1>10. FlightSatisfied'
  BY <1>1, <1>2, <1>3, <1>4, <1>7, <1>9, Zenon DEF DagInv, FlightSatisfied
<1>11. ReadinessNotLost'
  <2>1. ASSUME executing, ~past.token, NEW k \in jobs', k \notin past'.excused,
               state'[k] = "pending", Satisfied(k, state)'
        PROVE  FALSE
    <3>1. k \in Jobs \ {id} /\ k \in jobs /\ state[k] = "pending" /\ k \notin past.excused /\ k \notin dependents[id]
      BY <1>1, <1>3, <1>4, <1>7, <2>1
    <3>2. dependencies'[k] = dependencies[k] /\ dependencies[k] \subseteq Jobs \ {id}
      BY <1>1, <3>1 DEF DagInv, GraphTyped
    <3>3. Satisfied(k, state)
      BY <1>1, <1>4, <2>1, <3>2 DEF Satisfied
    <3> QED
      BY <2>1, <3>1, <3>3 DEF DagInv, ReadinessNotLost, GetReadyJobs
  <2> QED
    BY <1>1, <1>3, <2>1 DEF ReadinessNotLost, GetReadyJobs
<1> QED
  BY <1>2, <1>5, <1>6, <1>8, <1>10, <1>11 DEF DagInv
\* A new job has an id nobody had before: it is not known, has no edges and no wrapper.
LEMMA AddJobDagInv ==
    ASSUME DagInv, NEW deps \in NewDeps, AddJob(deps)
    PROVE  DagInv'
<1> DEFINE g(id) == [dependencies EXCEPT ![id] = deps]
<1>1. PICK id \in Jobs :
        /\ id = created + 1 /\ created' = id
        /\ UNCHANGED <<state, executing, th, queue>>
        /\ jobs' = IF DetectCycle(g(id)) THEN jobs ELSE jobs \cup {id}
        /\ dependencies' = IF DetectCycle(g(id)) THEN dependencies ELSE g(id)
        /\ dependents' = WithDependents(id, deps, DetectCycle(g(id)))
        /\ past' = [past EXCEPT !.excused = Excuse({id}, executing),
                                !.late = Late({id}, \E d \in deps : Hopeless(d))]
  BY Zenon DEF AddJob, flags
<1>4. ~(id <= created) /\ created <= created' /\ created' \in 0..MaxJobs /\ id \in 1..created'
  BY <1>1, JobsAre, DagBounds DEF DagInv, GraphTyped
<1>5. jobs \subseteq Jobs /\ id \notin jobs /\ deps \subseteq Jobs /\ jobs \subseteq 1..created'
  BY <1>1, <1>4, JobsKnown, DagGraphs, JobsAre, DagBounds DEF DagInv, GraphTyped
<1>6. ThreadsTyped' /\ OneWrapper' /\ \A k \in Jobs : InFlight(k)' <=> InFlight(k)
  BY <1>1, FlightStays
<1>7. /\ past'.late = Late({id}, \E d \in deps : Hopeless(d)) /\ past'.token = past.token
      /\ past'.excused = Excuse({id}, executing)
      /\ Late({id}, \E d \in deps : Hopeless(d)) \subseteq Jobs /\ Excuse({id}, executing) \subseteq Jobs
  BY <1>1 DEF DagInv, StateTyped, Late, Excuse
<1>8. past.late \subseteq past'.late /\ past.excused \subseteq past'.excused /\ (executing => id \in past'.excused)
  BY <1>7 DEF Late, Excuse
<1>9. past' \in [late : SUBSET Jobs, excused : SUBSET Jobs, token : BOOLEAN, removed : BOOLEAN, refused : BOOLEAN]
  BY <1>1, <1>7, Zenon DEF DagInv, StateTyped
<1>10. /\ ~InFlight(id) /\ state[id] = "pending" /\ dependencies[id] = {}
       /\ \A d \in Jobs : id \notin dependents[d]
  BY <1>4, <1>5 DEF DagInv, Started, StateTyped, GraphTyped
<1>11. /\ jobs \subseteq jobs' /\ jobs' \subseteq jobs \cup {id}
       /\ \A k \in Jobs \ {id} : dependencies'[k] = dependencies[k]
  BY <1>1, <1>5 DEF DagInv, GraphTyped
<1>12. StateTyped'
  BY <1>1, <1>9, <1>11, Zenon DEF DagInv, StateTyped
<1>13. GraphTyped'
  <2>1. CASE DetectCycle(g(id))
    <3>1. dependents' = dependents /\ dependencies' = dependencies /\ jobs' = jobs
      BY <1>1, <2>1 DEF WithDependents, DagInv, GraphTyped
    <3> QED
      BY <1>4, <1>5, <3>1 DEF DagInv, GraphTyped
  <2>2. CASE ~DetectCycle(g(id))
    <3>1. /\ dependencies' = [dependencies EXCEPT ![id] = deps] /\ jobs' = jobs \cup {id}
          /\ dependents' = [j \in Jobs |-> IF j \in deps THEN dependents[j] \cup {id} ELSE dependents[j]]
      BY <1>1, <2>2 DEF WithDependents
    <3>2. dependencies' \in [Jobs -> SUBSET Jobs] /\ dependents' \in [Jobs -> SUBSET Jobs]
      BY <1>5, <3>1 DEF DagInv, GraphTyped
    <3>3. ASSUME NEW x \in Jobs, NEW y \in Jobs PROVE y \in dependencies'[x] <=> x \in dependents'[y]
      <4>1. CASE x = id
        BY <1>10, <3>1, <4>1 DEF DagInv, GraphTyped
      <4>2. CASE x # id
        BY <3>1, <4>2 DEF DagInv, GraphTyped
      <4> QED
        BY <4>1, <4>2
    <3>4. \A k \in Jobs \ jobs' : dependencies'[k] = {}
      BY <3>1 DEF DagInv, GraphTyped
    <3>5. jobs' \subseteq 1..created'
      BY <1>4, <1>5, <3>1, Zenon
    <3> QED
      BY <1>4, <3>2, <3>3, <3>4, <3>5 DEF GraphTyped
  <2> QED
    BY <2>1, <2>2
<1>14. Started'
  <2>1. \A k \in Jobs : k <= created => k <= created'
    BY <1>1, JobsAre, DagBounds DEF DagInv, GraphTyped
  <2> QED
    BY <1>1, <1>6, <1>10, <1>11, <2>1 DEF DagInv, Started
<1>15. ASSUME NEW k \in jobs PROVE Satisfied(k, state)' <=> Satisfied(k, state)
  <2>1. k \in Jobs \ {id} /\ dependencies'[k] = dependencies[k]
    BY <1>5, <1>11
  <2> QED
    BY <1>1, <1>10, <1>11, <2>1 DEF Satisfied
<1>16. FlightSatisfied'
  <2>1. ASSUME NEW k \in jobs', k \notin past'.late, state'[k] \in {"ready", "running"} \/ InFlight(k)'
        PROVE  Satisfied(k, state)'
    <3>1. k \in Jobs /\ (state[k] \in {"ready", "running"} \/ InFlight(k))
      BY <1>1, <1>5, <1>6, <1>11, <2>1
    <3>2. k \in jobs \ past.late
      BY <1>8, <1>10, <1>11, <2>1, <3>1
    <3>3. Satisfied(k, state)
      BY <3>1, <3>2 DEF DagInv, FlightSatisfied
    <3> QED
      BY <1>15, <3>2, <3>3
  <2> QED
    BY <2>1 DEF FlightSatisfied
<1>17. ReadinessNotLost'
  <2>1. ASSUME executing, ~past.token, NEW k \in jobs', k \notin past'.excused,
               state[k] = "pending", Satisfied(k, state)'
        PROVE  FALSE
    <3>1. k \in jobs /\ k \notin past.excused
      BY <1>8, <1>11, <2>1
    <3> QED
      BY <1>15, <2>1, <3>1 DEF DagInv, ReadinessNotLost, GetReadyJobs
  <2> QED
    BY <1>1, <1>7, <2>1, Zenon DEF ReadinessNotLost, GetReadyJobs
<1> QED
  BY <1>6, <1>12, <1>13, <1>14, <1>16, <1>17 DEF DagInv

---------------------------------------------------------------------------

\* Nothing happens, and the invariant stays.
LEMMA StutterDagInv == DagInv /\ UNCHANGED vars => DagInv'
<1> SUFFICES ASSUME DagInv, UNCHANGED vars PROVE DagInv'
  OBVIOUS
<1>1. UNCHANGED <<created, jobs, dependencies, dependents, state, past, executing, th, queue>>
  BY DEF vars, graph, edges, flags
<1> QED
  BY <1>1, FlightStays, StaysDagInv

\* Every step of the scheduler, its executors and its workers keeps the invariant.
LEMMA NextDagInv == DagInv /\ [Next]_vars => DagInv'
<1> SUFFICES ASSUME DagInv, Next PROVE DagInv'
  BY StutterDagInv
<1>1. CASE User
  <2>1. CASE \E e \in Executors : CallWait(e)
    BY <2>1, PassiveDagInv
  <2>2. CASE CancelAll \/ Destroy
    BY <2>2, CancelDagInv DEF CancelAll, Destroy
  <2> QED
    BY <1>1, <2>1, <2>2, AddJobDagInv, AddDependencyDagInv, RemoveDagInv, ResetDagInv, ExecuteDagInv DEF User
<1>2. CASE Destroyed
  <2>1. UNCHANGED <<created, jobs, dependencies, dependents, state, past, executing, th, queue>>
    BY <1>2 DEF Destroyed, graph, edges, flags
  <2> QED
    BY <2>1, FlightStays, StaysDagInv
<1>3. ASSUME NEW t \in Threads, Schedule(t) PROVE DagInv'
  BY <1>3, ScheduleDagInv, ExecuteJobDagInv DEF Schedule
<1>4. ASSUME NEW e \in Executors, Executor(e) PROVE DagInv'
  BY <1>3, <1>4, PassiveDagInv DEF Executor, Threads
<1>5. ASSUME NEW w \in Workers, Worker(w) PROVE DagInv'
  BY <1>3, <1>5, PassiveDagInv, TakeWrapperDagInv, DoWorkDagInv, CompletedDagInv, RetryDagInv,
     FallbackDagInv, FailDagInv DEF Worker, Threads
<1> QED
  BY <1>1, <1>2, <1>4, <1>5 DEF Next

\* The invariant holds in every state of every behaviour.
LEMMA DagInvariant == Spec => []DagInv
BY InitDagInv, NextDagInv, PTL DEF Spec

\* Whatever graph, policy, number of workers and calls: no job is run twice at a time.  The
\* compare-exchange of execute_job admits one of the threads that gathered it, because a job
\* with a wrapper is never ready.
THEOREM JobRunsOnceAtATime == Spec => []OneWrapper
<1>1. DagInv => OneWrapper
  BY DEF DagInv
<1> QED
  BY <1>1, DagInvariant, PTL

\* Whatever graph, policy, number of workers and calls: a job that is ready or running has
\* all its dependencies completed, unless add_dependency or add_job gave it one too late.
THEOREM JobWaitsForDependencies == Spec => []DependenciesFirst
<1>1. DagInv => DependenciesFirst
  BY DEF DagInv, FlightSatisfied, DependenciesFirst
<1> QED
  BY <1>1, DagInvariant, PTL

\* Whatever graph, policy, number of workers and calls: during an execution on_job_completed
\* leaves no pending job behind whose dependencies have all completed, except the jobs it was
\* never to look at and after a job cancelled itself.
THEOREM CompletionFindsReadyJobs == Spec => []ReadinessNotLost
<1>1. DagInv => ReadinessNotLost
  BY DEF DagInv
<1> QED
  BY <1>1, DagInvariant, PTL
==============================================================================
