------------------------------ MODULE ThreadBase ------------------------------
(***************************************************************************)
(* thread_base (src/core/thread_base.cpp) with its lifecycle_controller:   *)
(* one object, the thread it owns, and the callers of start() and stop().  *)
(*                                                                         *)
(* The derived class is the environment: should_continue_work() is the     *)
(* variable more, do_work() returns or throws.  The thread holds cv_mutex_ *)
(* from the evaluation of its wait predicate to the end of the iteration,  *)
(* do_work() included, except while it sleeps on condition_.               *)
(***************************************************************************)
EXTENDS Integers

CONSTANTS
    Callers,                   \* threads calling start() and stop()
    Builds,                    \* values of jthread: USE_STD_JTHREAD defined or not
    max_consecutive_failures,  \* 10 in thread_base.h
    MaxStarts,                 \* bound: threads spawned
    Spawns,                    \* outcomes of creating a thread
    HasInterval,               \* a wake interval is set
    MayThrow                   \* do_work() may throw a std::exception

ASSUME BuildsAreBoolean == Builds \subseteq BOOLEAN
ASSUME FailureLimit == max_consecutive_failures \in Nat \ {0}
ASSUME StartBound == MaxStarts \in Nat
ASSUME SpawnOutcomes == Spawns \subseteq {"ok", "bad_alloc", "system_error"}
ASSUME FlagsAreBoolean == HasInterval \in BOOLEAN /\ MayThrow \in BOOLEAN

VARIABLES
    jthread,               \* the build
    state_,                \* lifecycle_controller::state_
    stop_source_,          \* stop_source_.has_value() (jthread build only)
    stop_requested_,       \* the stop request of the source, or the atomic flag
    consecutive_failures_, \* member of the object: it survives a restart
    thread,                \* where the thread is; "none": worker_thread_ is null
    caller,                \* where each caller is
    restarting,            \* history of a caller: its stop() is the one inside start()
    more,                  \* should_continue_work()
    starts                 \* threads spawned so far

tbVars == <<jthread, state_, stop_source_, stop_requested_, consecutive_failures_, thread,
          caller, restarting, more, starts>>

threadVars == <<state_, consecutive_failures_, thread>>
callerVars == <<caller, restarting, starts>>
sourceVars == <<stop_source_, stop_requested_>>

ThreadStates == {"Created", "Waiting", "Working", "Stopping", "Stopped"}
ThreadPlaces == {"none", "top", "predicate", "falling", "asleep", "check", "work", "done"}
CallerPlaces == {"idle", "notify", "join", "launch"}

TbTypeOK ==
    /\ jthread \in Builds
    /\ state_ \in ThreadStates
    /\ stop_source_ \in BOOLEAN /\ stop_requested_ \in BOOLEAN
    /\ consecutive_failures_ \in Nat
    /\ thread \in ThreadPlaces
    /\ caller \in [Callers -> CallerPlaces]
    /\ restarting \in [Callers -> BOOLEAN]
    /\ more \in BOOLEAN
    /\ starts \in 0..MaxStarts

TbInit ==
    /\ jthread \in Builds
    /\ state_ = "Created"
    /\ stop_source_ = FALSE /\ stop_requested_ = FALSE
    /\ consecutive_failures_ = 0
    /\ thread = "none"
    /\ caller = [c \in Callers |-> "idle"]
    /\ restarting = [c \in Callers |-> FALSE]
    /\ more \in BOOLEAN
    /\ starts = 0

---------------------------------------------------------------------------
(* lifecycle_controller.                                                    *)

is_running == state_ \in {"Working", "Waiting"}

has_active_source == IF jthread THEN stop_source_ ELSE is_running

is_stop_requested == (jthread => stop_source_) => stop_requested_

\* The predicate of wait() and wait_for().
WaitPredicate == ((jthread => stop_source_) /\ stop_requested_) \/ more

\* cv_mutex_ is held by the thread.
MutexHeld == thread \in {"falling", "check", "work"}

---------------------------------------------------------------------------
(* The thread: the loop of start().                                         *)

LoopTest ==
    /\ thread = "top"
    /\ IF ~is_stop_requested \/ more
       THEN thread' = "predicate" /\ state_' = "Waiting"
       ELSE thread' = "done" /\ state_' = state_
    /\ UNCHANGED <<jthread, sourceVars, callerVars, consecutive_failures_, more>>

\* acquire_lock and the first, or a repeated, evaluation of the predicate.
EvaluatePredicate ==
    /\ thread = "predicate"
    /\ thread' = IF WaitPredicate THEN "check" ELSE "falling"
    /\ UNCHANGED <<jthread, sourceVars, callerVars, state_, consecutive_failures_, more>>

\* condition_.wait releases cv_mutex_ and sleeps in one step.
FallAsleep ==
    /\ thread = "falling"
    /\ thread' = "asleep"
    /\ UNCHANGED <<jthread, sourceVars, callerVars, state_, consecutive_failures_, more>>

SpuriousWakeup ==
    /\ thread = "asleep"
    /\ thread' = "predicate"
    /\ UNCHANGED <<jthread, sourceVars, callerVars, state_, consecutive_failures_, more>>

\* wait_for gives up after the wake interval, whatever the predicate says.
IntervalElapses ==
    /\ HasInterval
    /\ thread = "asleep"
    /\ thread' = "check"
    /\ UNCHANGED <<jthread, sourceVars, callerVars, state_, consecutive_failures_, more>>

CheckAfterWait ==
    /\ thread = "check"
    /\ IF is_stop_requested /\ ~more
       THEN thread' = "done" /\ state_' = "Stopping"
       ELSE thread' = "work" /\ state_' = "Working"
    /\ UNCHANGED <<jthread, sourceVars, callerVars, consecutive_failures_, more>>

WorkReturns ==
    /\ thread = "work"
    /\ thread' = "top"
    /\ consecutive_failures_' = 0
    /\ UNCHANGED <<jthread, sourceVars, callerVars, state_, more>>

\* do_work() threw: give up after too many failures, else back off and go on.
WorkThrows ==
    /\ MayThrow
    /\ thread = "work"
    /\ consecutive_failures_' = consecutive_failures_ + 1
    /\ thread' = IF consecutive_failures_ + 1 >= max_consecutive_failures THEN "done" ELSE "top"
    /\ UNCHANGED <<jthread, sourceVars, callerVars, state_, more>>

---------------------------------------------------------------------------
(* The callers.                                                             *)

RequestStop(c, insideStart) ==
    /\ stop_requested_' = IF jthread THEN stop_source_ \/ stop_requested_ ELSE TRUE
    /\ caller' = [caller EXCEPT ![c] = "notify"]
    /\ restarting' = [restarting EXCEPT ![c] = insideStart]
    /\ UNCHANGED <<jthread, stop_source_, threadVars, more, starts>>

\* start() returns an error, and changes nothing, when has_active_source.
Start(c) ==
    /\ caller[c] = "idle" /\ starts < MaxStarts
    /\ ~has_active_source
    /\ IF thread # "none"
       THEN RequestStop(c, TRUE)
       ELSE /\ caller' = [caller EXCEPT ![c] = "launch"]
            /\ UNCHANGED <<jthread, sourceVars, threadVars, restarting, more, starts>>

\* initialize_for_start and the creation of the thread.
Launch(c) ==
    /\ caller[c] = "launch" /\ starts < MaxStarts
    /\ caller' = [caller EXCEPT ![c] = "idle"]
    /\ starts' = starts + 1
    /\ state_' = "Created"
    /\ stop_requested_' = FALSE
    /\ \E outcome \in Spawns :
          /\ thread' = IF outcome = "ok" THEN "top" ELSE "none"
          /\ stop_source_' = (jthread /\ outcome # "bad_alloc")
    /\ UNCHANGED <<jthread, consecutive_failures_, restarting, more>>

\* Mutant: notify_all does not take cv_mutex_.
NotifyAllUnlocked(c) ==
    /\ caller[c] = "notify"
    /\ thread' = IF thread = "asleep" THEN "predicate" ELSE thread
    /\ caller' = [caller EXCEPT ![c] = "join"]
    /\ UNCHANGED <<jthread, sourceVars, state_, consecutive_failures_, restarting, more, starts>>

\* on_stop_requested(), then lifecycle_.notify_all(), which takes cv_mutex_.
NotifyAll(c) ==
    /\ caller[c] = "notify"
    /\ ~MutexHeld
    /\ thread' = IF thread = "asleep" THEN "predicate" ELSE thread
    /\ caller' = [caller EXCEPT ![c] = "join"]
    /\ UNCHANGED <<jthread, sourceVars, state_, consecutive_failures_, restarting, more, starts>>

\* join() returns; reset_stop_source, worker_thread_.reset, set_stopped.
Join(c) ==
    /\ caller[c] = "join"
    /\ thread = "done"
    /\ thread' = "none" /\ stop_source_' = FALSE /\ state_' = "Stopped"
    /\ caller' = [caller EXCEPT ![c] = IF restarting[c] THEN "launch" ELSE "idle"]
    /\ UNCHANGED <<jthread, stop_requested_, consecutive_failures_, restarting, more, starts>>

\* stop() returns an error, and changes nothing, when there is no thread.
Stop(c) ==
    /\ caller[c] = "idle"
    /\ thread # "none"
    /\ RequestStop(c, FALSE)

\* The derived class changes its mind about should_continue_work().
ChangeMore ==
    /\ more' = ~more
    /\ UNCHANGED <<jthread, sourceVars, threadVars, callerVars>>

---------------------------------------------------------------------------

ThreadStep ==
    \/ LoopTest \/ EvaluatePredicate \/ FallAsleep \/ CheckAfterWait
    \/ WorkReturns \/ WorkThrows

CallerStep(c) == Launch(c) \/ NotifyAll(c) \/ Join(c)

TbNext ==
    \/ ThreadStep \/ SpuriousWakeup \/ IntervalElapses \/ ChangeMore
    \/ \E c \in Callers : Start(c) \/ Stop(c) \/ CallerStep(c)

TbSpec == TbInit /\ [][TbNext]_tbVars

---------------------------------------------------------------------------
(* Properties.                                                              *)

\* The wake-up of stop() is never lost: when stop() has gone on to join(), the
\* thread does not sleep on condition_ with nobody left to wake it.
StopNotLost == \A c \in Callers : caller[c] = "join" => thread # "asleep"

\* join() and the other calls on worker_thread_ find it set.
JoinTargetExists == \A c \in Callers : caller[c] \in {"notify", "join"} => thread # "none"

\* No thread is ever started beside an old one: a spawn happens only when the
\* previous thread was joined.
NoSecondThread == [][starts' > starts => thread = "none"]_tbVars
===============================================================================
