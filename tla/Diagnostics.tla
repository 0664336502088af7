----------------------------- MODULE Diagnostics -----------------------------
(* thread_pool_diagnostics, in two parts that share no state.  A report (to_json:     *)
(* health_check, then detect_bottlenecks) reads the pool figure by figure, each under   *)
(* its own lock, while the pool goes on: every read is a step.  Tracing: workers record  *)
(* the events of their jobs in a bounded history and tell the listeners, while tracing   *)
(* is switched on and off.  `diagnosed` names the part.  Ratios are in percent.          *)
EXTENDS Integers, Sequences, SequencesExt

CONSTANTS
    DgThreads,       \* workers that trace their jobs
    DgMaxWorkers,    \* bound: workers of the pool
    DgDepths,        \* depths of the queue
    DgCapacity,      \* its max_size, a divisor of 100
    DgMaxChanges,    \* bound: changes of the pool during a report, switches of tracing
    DgSizes          \* history sizes that enable_tracing is called with

VARIABLES
    diagnosed,   \* "report" or "tracing"
    dgPool,      \* the pool: running, workers, active, idle, depth, bounded
    report,      \* see NoReport
    dgChanged,   \* history: what changed in the pool since the report began
    tracing,     \* tracing_enabled_; config_.event_history_size; the size that a call of
                 \* enable_tracing still has to store, or 0; whether the listener is registered
    history,     \* event_history_
    tracer,      \* per worker: see Untraced
    dgPast       \* history: events pushed, in order; those the listener heard, by number;
                 \* changes so far; the largest size so far; whether the listener left

dgVars == <<diagnosed, dgPool, report, dgChanged, tracing, history, tracer, dgPast>>

\* at: the read that comes next; total, active: figures of health_check; workers, running:
\* those of check_worker_health; bTotal, bActive, bIdle: those of detect_bottlenecks.
NoReport == [at |-> "none", total |-> 0, active |-> 0, workers |-> 0, running |-> 0, worker |-> "unknown",
             queue |-> "unknown", overall |-> "unknown", bTotal |-> 0, bActive |-> 0, bIdle |-> 0,
             type |-> "none", severity |-> 0]

\* trace: should_trace; next: the event to come; telling: the number of the event whose
\* listeners are to be called, copied: the list was copied; skipped: record_event
\* found tracing off.
Untraced == [at |-> "none", trace |-> FALSE, next |-> "dequeued", telling |-> 0, copied |-> FALSE, skipped |-> FALSE]

DgInit ==
    /\ diagnosed \in {"report", "tracing"}
    /\ \E running, bounded \in BOOLEAN, d \in DgDepths :
          dgPool = [running |-> running, workers |-> 1, active |-> IF running THEN 1 ELSE 0, idle |-> 1,
                    depth |-> d, bounded |-> bounded]
    /\ tracing \in [on : BOOLEAN, size : {2}, call : {0}, listening : {TRUE}]
    /\ diagnosed = "tracing" => dgPool.depth = 0 /\ dgPool.bounded /\ dgPool.running
    /\ diagnosed = "report" => ~tracing.on
    /\ report = NoReport /\ dgChanged = {} /\ history = <<>>
    /\ tracer = [w \in DgThreads |-> Untraced]
    /\ dgPast = [pushed |-> <<>>, heard |-> <<>>, changes |-> 0, largest |-> 2, left |-> FALSE]

-----------------------------------------------------------------------------
(* The pool, as ThreadPool has it: what a report may see change.               *)

Reporting == diagnosed = "report" /\ report.at \notin {"none", "done"} /\ dgPast.changes < DgMaxChanges

PoolChanged(what, p) ==
    /\ dgPool' = p /\ dgChanged' = dgChanged \cup {what}
    /\ dgPast' = [dgPast EXCEPT !.changes = @ + 1]
    /\ UNCHANGED <<diagnosed, report, tracing, history, tracer>>

\* A worker is added and runs, is removed, becomes idle or busy; the queue fills or drains.
PoolGrows ==
    /\ Reporting /\ dgPool.workers < DgMaxWorkers
    /\ PoolChanged("grew", [dgPool EXCEPT !.workers = @ + 1, !.active = @ + 1, !.idle = @ + 1])
PoolShrinks ==
    /\ Reporting /\ dgPool.workers > 0 /\ dgPool.idle > 0
    /\ PoolChanged("shrank", [dgPool EXCEPT !.workers = @ - 1, !.idle = @ - 1, !.active = IF dgPool.running THEN @ - 1 ELSE 0])
WorkerTurns ==
    /\ Reporting
    /\ \E i \in 0..dgPool.workers : i # dgPool.idle /\ PoolChanged("turned", [dgPool EXCEPT !.idle = i])
QueueMoves ==
    /\ Reporting
    /\ \E d \in DgDepths : d # dgPool.depth /\ PoolChanged("moved", [dgPool EXCEPT !.depth = d])
PoolStops ==
    /\ Reporting /\ dgPool.running
    /\ PoolChanged("stopped", [dgPool EXCEPT !.running = FALSE, !.active = 0])

-----------------------------------------------------------------------------
(* health_check.                                                              *)

ReportStep(from, r) ==
    /\ report.at = from /\ report' = r
    /\ UNCHANGED <<diagnosed, dgPool, dgChanged, tracing, history, tracer, dgPast>>

BeginReport == diagnosed = "report" /\ ReportStep("none", [report EXCEPT !.at = "total"])

\* The figures of health_check itself, in the order in which they are read.
FigureOrder == <<"total", "active">>

Figure(name) == IF name = "total" THEN dgPool.workers ELSE dgPool.active

ReadFigure(i) ==
    ReportStep(<<"total", "active">>[i], [report EXCEPT !.at = <<"active", "workers">>[i],
                                                        ![FigureOrder[i]] = Figure(FigureOrder[i])])

\* check_worker_health: size and active count of its own, and whether the pool runs.
WorkerHealth(total, active, running) ==
    IF ~running \/ total = 0 THEN "unhealthy" ELSE IF active = total THEN "degraded" ELSE "healthy"

CheckWorkersSize == ReportStep("workers", [report EXCEPT !.at = "running", !.workers = dgPool.workers])
CheckWorkersActive == ReportStep("running", [report EXCEPT !.at = "worker", !.running = dgPool.active])
CheckWorkerHealth ==
    ReportStep("worker", [report EXCEPT !.at = "queue", !.worker = WorkerHealth(report.workers, report.running, dgPool.running)])

\* Mutant: a queue is critical only when it is over-full.
QueueHealthLate(sat) == IF sat > 100 THEN "unhealthy" ELSE IF sat >= 80 THEN "degraded" ELSE "healthy"

\* check_queue_health; the saturation of an unbounded queue stays 0 here.
QueueHealth(sat) == IF sat >= 95 THEN "unhealthy" ELSE IF sat >= 80 THEN "degraded" ELSE "healthy"

CheckQueueHealth ==
    ReportStep("queue", [report EXCEPT !.at = "overall",
                                       !.queue = QueueHealth(IF dgPool.bounded THEN (dgPool.depth * 100) \div DgCapacity ELSE 0)])

\* check_metrics_health: the thresholds on success rate and latency.
MetricsHealth == {"healthy", "degraded", "unhealthy"}

\* calculate_overall_status.
Overall(states) ==
    IF "unhealthy" \in states THEN "unhealthy" ELSE IF states \cap {"degraded", "unknown"} # {} THEN "degraded" ELSE "healthy"

CheckMetricsHealth ==
    \E m \in MetricsHealth :
       ReportStep("overall", [report EXCEPT !.at = "bTotal", !.overall = Overall({report.worker, report.queue, m})])

-----------------------------------------------------------------------------
(* detect_bottlenecks.                                                        *)

ReadBTotal == ReportStep("bTotal", [report EXCEPT !.at = "bActive", !.bTotal = dgPool.workers])
ReadBActive == ReportStep("bActive", [report EXCEPT !.at = "bIdle", !.bActive = dgPool.active])
ReadBIdle == ReportStep("bIdle", [report EXCEPT !.at = "bDepth", !.bIdle = dgPool.idle])

\* Without a bound ten jobs a worker are full; with no workers the quotient is infinite.
Saturation(depth, workers) ==
    IF dgPool.bounded THEN (depth * 100) \div DgCapacity
    ELSE IF depth = 0 THEN 0 ELSE IF workers = 0 \/ depth >= workers * 10 THEN 100 ELSE (depth * 10) \div workers

\* wait: multiples of wait_time_threshold_ms; uneven: the variance is above a tenth; heavy:
\* the queue's memory is above its threshold.
BottleneckType(sat, util, wait, uneven, heavy, r, depth) ==
    IF sat > 95 THEN "queue_full"
    ELSE IF util > 95 /\ depth > r.bTotal * 2 THEN "worker_starvation"
    ELSE IF wait > 1 /\ util > 90 THEN "slow_consumer"
    ELSE IF uneven /\ r.bTotal > 1 THEN "uneven_distribution"
    ELSE IF wait > 2 /\ util < 50 /\ r.bActive > 0 THEN "lock_contention"
    ELSE IF heavy THEN "memory_pressure" ELSE "none"

Severity(type, sat, util) ==
    IF type = "none" THEN 0 ELSE IF sat > 95 \/ util > 98 THEN 3 ELSE IF sat > 80 \/ util > 90 THEN 2 ELSE 1

DetectBottlenecks ==
    \E util \in {40, 92, 99}, wait \in {0, 2, 3}, uneven, heavy \in BOOLEAN :
       LET sat == Saturation(dgPool.depth, report.bTotal)
           type == BottleneckType(sat, util, wait, uneven, heavy, report, dgPool.depth)
       IN ReportStep("bDepth", [report EXCEPT !.at = "done", !.type = type, !.severity = Severity(type, sat, util)])

-----------------------------------------------------------------------------
(* Tracing.                                                                   *)

\* What stays of the history with room for n events.
Kept(h, n) == IF Len(h) > n THEN SubSeq(h, Len(h) - n + 1, Len(h)) ELSE h

\* enable_tracing(on, n): the flag, the history under its mutex; the size follows.
EnableTracing(on, n) ==
    /\ diagnosed = "tracing" /\ tracing.call = 0 /\ dgPast.changes < DgMaxChanges
    /\ tracing' = [tracing EXCEPT !.on = on, !.call = n]
    /\ history' = IF on THEN Kept(history, n) ELSE history
    /\ dgPast' = [dgPast EXCEPT !.changes = @ + 1]
    /\ UNCHANGED <<diagnosed, dgPool, report, dgChanged, tracer>>

StoreSize ==
    /\ tracing.call # 0
    /\ tracing' = [tracing EXCEPT !.size = tracing.call, !.call = 0]
    /\ dgPast' = [dgPast EXCEPT !.largest = IF tracing.call > @ THEN tracing.call ELSE @]
    /\ UNCHANGED <<diagnosed, dgPool, report, dgChanged, history, tracer>>

\* add_event_listener, remove_event_listener.
Listen(on) ==
    /\ diagnosed = "tracing" /\ tracing.listening # on /\ dgPast.changes < DgMaxChanges
    /\ tracing' = [tracing EXCEPT !.listening = on]
    /\ dgPast' = [dgPast EXCEPT !.changes = @ + 1, !.left = TRUE]
    /\ UNCHANGED <<diagnosed, dgPool, report, dgChanged, history, tracer>>

\* A worker takes a job and decides, once, whether to trace it.
TakeJob(w) ==
    /\ diagnosed = "tracing" /\ tracer[w].at = "none"
    /\ tracer' = [tracer EXCEPT ![w].at = "job", ![w].trace = tracing.on]
    /\ UNCHANGED <<diagnosed, dgPool, report, dgChanged, tracing, history, dgPast>>

After(e) == IF e = "dequeued" THEN "started" ELSE IF e = "started" THEN "finished" ELSE "none"

\* Mutant: every event asks anew whether tracing is on.
ChosenAnew(w) == TRUE

Chosen(w) == tracer[w].trace

\* record_event, for a job that is traced, looks at the flag again; it stores the event
\* later, under the mutex.
CheckTracing(w) ==
    /\ tracer[w].at = "job" /\ tracer[w].telling = 0 /\ tracer[w].next # "none"
    /\ tracer' = IF Chosen(w) /\ tracing.on
                 THEN [tracer EXCEPT ![w].at = "push"]
                 ELSE [tracer EXCEPT ![w].next = After(@), ![w].skipped = @ \/ tracer[w].trace]
    /\ UNCHANGED <<diagnosed, dgPool, report, dgChanged, tracing, history, dgPast>>

RecordEvent(w) ==
    /\ tracer[w].at = "push"
    /\ LET e == [worker |-> w, type |-> tracer[w].next] IN
       /\ history' = Kept(Append(history, e), tracing.size)
       /\ dgPast' = [dgPast EXCEPT !.pushed = Append(@, e)]
       /\ tracer' = [tracer EXCEPT ![w].at = "job", ![w].telling = Len(dgPast.pushed) + 1, ![w].next = After(@)]
    /\ UNCHANGED <<diagnosed, dgPool, report, dgChanged, tracing>>

\* The list that notify_listeners copies.
ListenersCopied == tracing.listening

CopyListeners(w) ==
    /\ tracer[w].telling # 0 /\ ~tracer[w].copied
    /\ tracer' = [tracer EXCEPT ![w].telling = IF ListenersCopied THEN @ ELSE 0, ![w].copied = ListenersCopied]
    /\ UNCHANGED <<diagnosed, dgPool, report, dgChanged, tracing, history, dgPast>>

\* on_event, outside the mutexes.
CallListener(w) ==
    /\ tracer[w].copied
    /\ tracer' = [tracer EXCEPT ![w].telling = 0, ![w].copied = FALSE]
    /\ dgPast' = [dgPast EXCEPT !.heard = Append(@, tracer[w].telling)]
    /\ UNCHANGED <<diagnosed, dgPool, report, dgChanged, tracing, history>>

\* do_work throws: the job has no last event.
JobThrows(w) ==
    /\ tracer[w].at = "job" /\ tracer[w].next = "finished" /\ tracer[w].telling = 0
    /\ tracer' = [tracer EXCEPT ![w].next = "none"]
    /\ UNCHANGED <<diagnosed, dgPool, report, dgChanged, tracing, history, dgPast>>

DgNext ==
    \/ PoolGrows \/ PoolShrinks \/ WorkerTurns \/ QueueMoves \/ PoolStops
    \/ BeginReport \/ (\E i \in 1..2 : ReadFigure(i)) \/ CheckWorkersSize \/ CheckWorkersActive \/ CheckWorkerHealth
    \/ CheckQueueHealth \/ CheckMetricsHealth
    \/ ReadBTotal \/ ReadBActive \/ ReadBIdle \/ DetectBottlenecks
    \/ \E on \in BOOLEAN, n \in DgSizes : EnableTracing(on, n)
    \/ StoreSize \/ \E on \in BOOLEAN : Listen(on)
    \/ \E w \in DgThreads : TakeJob(w) \/ CheckTracing(w) \/ RecordEvent(w) \/ CopyListeners(w) \/ CallListener(w) \/ JobThrows(w)

-----------------------------------------------------------------------------
(* Properties.                                                                *)

Reported == report.at = "done"

\* The two halves of one report agree: where detect_bottlenecks calls a bounded queue full,
\* health_check has called the pool unhealthy and the severity is critical, unless the
\* queue changed between the two looks.
ReportsAgree ==
    Reported /\ report.type = "queue_full" =>
       report.severity = 3 /\ (dgPool.bounded /\ "moved" \notin dgChanged => report.overall = "unhealthy")

\* A job is traced from its beginning: who sees it finish has seen it dequeued and started,
\* unless tracing was off for an event in between; switching it on in the middle of a
\* job does not produce half a trace.
TracedFromTheStart ==
    \A i \in DOMAIN dgPast.pushed :
       LET e == dgPast.pushed[i] IN
       ~tracer[e.worker].skipped =>
          \A earlier \in {"dequeued", "started"} :
             (e.type = "finished" \/ (e.type = "started" /\ earlier = "dequeued")) =>
                \E k \in 1..(i - 1) : dgPast.pushed[k] = [e EXCEPT !.type = earlier]

\* The history holds the newest events, without a hole, and no more than the largest size
\* it was ever given, although enable_tracing trims it before it stores the new size.
HistoryIsNewest ==
    LET n == Len(history) IN
    /\ n <= dgPast.largest
    /\ history = SubSeq(dgPast.pushed, Len(dgPast.pushed) - n + 1, Len(dgPast.pushed))

\* A listener that stays registered hears every recorded event once, in whatever order the
\* workers come to call it, also when tracing is switched off meanwhile.
ListenerHearsEvents ==
    /\ IsInjective(dgPast.heard)
    /\ ~dgPast.left => \A i \in DOMAIN dgPast.pushed :
          i \in ToSet(dgPast.heard) \/ \E w \in DgThreads : tracer[w].telling = i

\* What tracing tells of a job is whole, in the history and to a listener, although
\* enable_tracing, the listeners and several workers meet without one lock for all of it.
TraceIsWhole == TracedFromTheStart /\ HistoryIsNewest /\ ListenerHearsEvents

=============================================================================
