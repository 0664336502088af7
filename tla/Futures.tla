------------------------------- MODULE Futures -------------------------------
(* The jobs that answer somebody: future_job behind submit, the jobs of job_builder with  *)
(* their callbacks, and those who wait for answers: cancellable_future::get and get_for,    *)
(* submit_wait_all and when_all (one future after the other), submit_wait_any and when_any  *)
(* (one detached thread per future).  The pool takes a job or refuses it, runs it or drops  *)
(* it with its queue; what the work does is free: a value, an error result or an exception. *)
(* Those who wait never change an answer, so all of them wait for the same futures here,    *)
(* although a std::future has one reader.  The token of a job is the one its                *)
(* cancellable_future was made with.                                                        *)
EXTENDS Integers, Sequences, FiniteSets

CONSTANTS
    FtJobs,      \* jobs of submit; their numbers are the order of the futures
    FtBuilt      \* jobs of job_builder, with callbacks and without a future

VARIABLES
    fjob,        \* per job where it is
    answer,      \* per job what its promise holds
    token,       \* jobs whose cancellation token is cancelled
    calls,       \* history: per job the callbacks called
    watch,       \* per job the thread of when_any that waits for its future
    completed,   \* completed, the flag these threads race for
    any,         \* what result_promise holds: the future it comes from and its answer
    anySets,     \* history: how often result_promise was set
    all,         \* when_all: the future it is at and the answer it gives
    getter,      \* cancellable_future::get on the first future
    badSet       \* history: a promise that held an answer already was given another one

ftVars == <<fjob, answer, token, calls, watch, completed, any, anySets, all, getter, badSet>>

AllJobs == FtJobs \cup FtBuilt
NFut == Cardinality(FtJobs)
NoAnswer == [from |-> 0, what |-> "none"]

FtInit ==
    /\ fjob = [j \in AllJobs |-> "new"] /\ answer = [j \in FtJobs |-> "none"] /\ token = {}
    /\ calls = [j \in FtBuilt |-> <<>>]
    /\ watch = [j \in FtJobs |-> "get"] /\ completed = FALSE /\ any = NoAnswer /\ anySets = 0
    /\ all = [at |-> 1, what |-> "none"] /\ getter = "out" /\ badSet = FALSE

Waiting == <<watch, completed, any, anySets, all, getter>>

\* set_value and set_exception throw when the promise holds an answer.
Answered(j, a) ==
    IF j \in FtBuilt THEN UNCHANGED <<answer, badSet>>
    ELSE /\ answer' = IF answer[j] = "none" THEN [answer EXCEPT ![j] = a] ELSE answer
         /\ badSet' = (badSet \/ answer[j] # "none")

\* invoke_callbacks: on_error first, for errors, then on_complete.
InvokeCallbacks(r) == IF r = "value" THEN <<"complete">> ELSE <<"error", "complete">>

Called(j, r) == calls' = IF j \in FtBuilt THEN [calls EXCEPT ![j] = InvokeCallbacks(r)] ELSE calls

-----------------------------------------------------------------------------
(* The life of a job.                                                         *)

\* Mutant: the caller keeps the future of the refused job.
RefusalUntold(j) == UNCHANGED <<answer, badSet>>

Refusal(j) == Answered(j, "error")

\* submit: a refused job leaves a future that already holds the error.
Submit(j) ==
    /\ fjob[j] = "new"
    /\ \/ fjob' = [fjob EXCEPT ![j] = "queued"] /\ UNCHANGED <<answer, badSet>>
       \/ fjob' = [fjob EXCEPT ![j] = "refused"] /\ Refusal(j)
    /\ UNCHANGED <<token, calls>> /\ UNCHANGED Waiting

\* The queue is cleared: the job and its promise are destroyed.
Drop(j) ==
    /\ fjob[j] = "queued" /\ fjob' = [fjob EXCEPT ![j] = "gone"] /\ Answered(j, "broken")
    /\ UNCHANGED <<token, calls>> /\ UNCHANGED Waiting

RefusesToWork(j) == j \in token

AfterCancelled(j) == "gone"

\* do_work asks the token once, before the work.
StartCancelled(j) ==
    /\ fjob[j] = "queued" /\ RefusesToWork(j)
    /\ fjob' = [fjob EXCEPT ![j] = AfterCancelled(j)] /\ Answered(j, "error")
    /\ Called(j, "error")
    /\ UNCHANGED token /\ UNCHANGED Waiting

StartWork(j) ==
    /\ fjob[j] = "queued" /\ ~RefusesToWork(j)
    /\ fjob' = [fjob EXCEPT ![j] = "working"]
    /\ UNCHANGED <<answer, token, calls, badSet>> /\ UNCHANGED Waiting

\* The work returns a result, or throws: then the promise holds the exception and the
\* callbacks of a built job are not called.
EndWork(j, r) ==
    /\ fjob[j] = "working" /\ fjob' = [fjob EXCEPT ![j] = "gone"] /\ (r = "error" => j \in FtBuilt)
    /\ Answered(j, IF r = "value" THEN "value" ELSE "error")
    /\ IF r = "thrown" THEN UNCHANGED calls ELSE Called(j, r)
    /\ UNCHANGED token /\ UNCHANGED Waiting

CancelFuture(j) ==
    /\ j \notin token /\ token' = token \cup {j}
    /\ UNCHANGED <<fjob, answer, calls, badSet>> /\ UNCHANGED Waiting

-----------------------------------------------------------------------------
(* Those who wait.                                                            *)

NoJobStep == UNCHANGED <<fjob, answer, token, calls, badSet>>

\* compare_exchange of completed.
TryComplete(j) == watch' = [watch EXCEPT ![j] = IF completed THEN "done" ELSE "won"] /\ completed' = TRUE

WatcherGets(j) ==
    /\ watch[j] = "get" /\ answer[j] # "none" /\ TryComplete(j)
    /\ NoJobStep /\ UNCHANGED <<any, anySets, all, getter>>

WatcherSets(j) ==
    /\ watch[j] = "won" /\ watch' = [watch EXCEPT ![j] = "done"]
    /\ any' = [from |-> j, what |-> answer[j]] /\ anySets' = anySets + 1 /\ completed' = TRUE
    /\ NoJobStep /\ UNCHANGED <<all, getter>>

AllContinues(a) == a = "value"

AllAtEnd == all.at = NFut

\* get_all_impl and collect_all: in order, and an exception ends them.
AllGets ==
    /\ all.what = "none" /\ all.at \in FtJobs /\ answer[all.at] # "none"
    /\ all' = CASE ~AllContinues(answer[all.at]) -> [all EXCEPT !.what = "error"]
                [] AllAtEnd -> [all EXCEPT !.what = "value"]
                [] OTHER -> [all EXCEPT !.at = @ + 1]
    /\ NoJobStep /\ UNCHANGED <<watch, completed, any, anySets, getter>>

\* get asks the token before it waits and not again.
GetCalled ==
    /\ getter = "out" /\ getter' = IF 1 \in token THEN "cancelled" ELSE "waits"
    /\ NoJobStep /\ UNCHANGED <<watch, completed, any, anySets, all>>

GetReturns ==
    /\ getter = "waits" /\ answer[1] # "none"
    /\ getter' = IF answer[1] = "value" THEN "value" ELSE "error"
    /\ NoJobStep /\ UNCHANGED <<watch, completed, any, anySets, all>>

\* get_for gives up.
GetTimesOut ==
    /\ getter = "waits" /\ getter' = "out"
    /\ NoJobStep /\ UNCHANGED <<watch, completed, any, anySets, all>>

FtNext ==
    \/ \E j \in AllJobs :
          \/ Submit(j) \/ Drop(j) \/ StartCancelled(j) \/ StartWork(j) \/ CancelFuture(j)
          \/ (\E r \in {"value", "error", "thrown"} : EndWork(j, r))
    \/ \E j \in FtJobs : WatcherGets(j) \/ WatcherSets(j)
    \/ AllGets \/ GetCalled \/ GetReturns \/ GetTimesOut

FtSpec == FtInit /\ [][FtNext]_ftVars

-----------------------------------------------------------------------------

\* Nobody waits for a job that is gone: a future without an answer belongs to a job that is
\* still to run, also after refusals, cancellations, exceptions and dropped queues; and
\* when_any answers, once, as soon as the thread of an answered future is done.  No promise
\* is answered twice, which would throw out of the worker, and on_complete ends the
\* callbacks of a built job, after errors and cancellation too.
EveryFutureAnswered ==
    /\ ~badSet
    /\ \A j \in FtBuilt : calls[j] # <<>> => fjob[j] = "gone" /\ calls[j][Len(calls[j])] = "complete"
    /\ \A j \in FtJobs : answer[j] = "none" => fjob[j] \in {"new", "queued", "working"}
    /\ anySets <= 1
    /\ (\E j \in FtJobs : watch[j] = "done") => anySets = 1 \/ \E j \in FtJobs : watch[j] = "won"

=============================================================================
