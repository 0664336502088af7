---------------------------- MODULE EnhancedToken ----------------------------
(* enhanced_cancellation_token: token 1, with or without a deadline, and token 2     *)
(* linked to it by create_linked or create_linked_with_timeout.  A critical section   *)
(* of a token's mutex is one step; the notification and each callback run after it.   *)
(* The order in which a caller runs the callbacks it took is left open.  A deadline    *)
(* belongs to a timer thread that holds the token's state and sleeps on its condition  *)
(* variable.  A cancel with an exception counts as requested; messages are left out.   *)
EXTENDS Integers, FiniteSets

CONSTANTS
    EtThreads,       \* threads that use the tokens
    EtMaxCallbacks,  \* bound: callbacks the users register
    EtMaxClock       \* bound: the clock

VARIABLES
    tok,     \* per token: see Unmade
    timer,   \* per token its timer thread: "none", "starting", "waiting", "firing", "done"
    run,     \* per thread and timer: callbacks to run, tokens to notify
    asleep,  \* per thread the token it waits for, 0 if it does not
    cbs,     \* per callback of a user: its token, its fate, how often it ran
    clock    \* steady_clock

etVars == <<tok, timer, run, asleep, cbs, clock>>

Toks == {1, 2}
EtCallbacks == 1..EtMaxCallbacks
Runners == EtThreads \cup Toks    \* a token stands for its timer thread

\* What a token hands out besides the callbacks of users: the link to token 2, and what
\* create_linked_with_timeout does after it registered the link.
Link2 == 0
StartTimer2 == -1

\* users: somebody holds the token; first: the deadline the timer was started with.
Unmade == [users |-> FALSE, cancelled |-> FALSE, reason |-> "none", callbacks |-> {}, timed |-> FALSE,
           deadline |-> 0, first |-> 0, stop |-> FALSE]
AtEase == [todo |-> {}, notify |-> {}]

EtInit ==
    /\ \E timed \in BOOLEAN :
          /\ tok = <<[Unmade EXCEPT !.users = TRUE, !.timed = timed, !.deadline = 1, !.first = 1], Unmade>>
          /\ timer = <<IF timed THEN "starting" ELSE "none", "none">>
    /\ run = [x \in Runners |-> AtEase] /\ asleep = [t \in EtThreads |-> 0]
    /\ cbs = [j \in EtCallbacks |-> [token |-> 0, fate |-> "new", ran |-> 0]]
    /\ clock = 0

Free(t) == run[t] = AtEase /\ asleep[t] = 0

\* Somebody has a shared_ptr to the state: a user, the timer thread, or a callback that runs.
Alive(k) == tok[k].users \/ timer[k] \in {"waiting", "firing"}
            \/ (k = 2 /\ \E x \in Runners : 2 \in run[x].notify)

-----------------------------------------------------------------------------
(* do_cancel, also in the link callbacks and the timer.                       *)

FirstToCancel(k) == ~tok[k].cancelled

\* Mutant: callbacks are handed out and stay registered.
TakenOutNone(k) == tok[k].callbacks

\* What is left of the callbacks after they were moved out.
TakenOut(k) == {}

Cancelled(k, why) ==
    [tok[k] EXCEPT !.cancelled = TRUE, !.reason = why, !.callbacks = TakenOut(k),
                   !.stop = @ \/ why = "requested" \/ (why = "parent" /\ tok[k].timed)]

\* The critical section; x then notifies and runs the callbacks, besides those in keep.
CancelBy(x, k, why, keep) ==
    IF FirstToCancel(k)
    THEN /\ tok' = [tok EXCEPT ![k] = Cancelled(k, why)]
         /\ run' = [run EXCEPT ![x].todo = keep \cup tok[k].callbacks, ![x].notify = {k}]
    ELSE UNCHANGED tok /\ run' = [run EXCEPT ![x].todo = keep, ![x].notify = {k}]

EtCancel(t, k) ==
    /\ Free(t) /\ tok[k].users
    /\ CancelBy(t, k, "requested", {})
    /\ UNCHANGED <<timer, asleep, cbs, clock>>

\* notify_all; a waiter finds the token cancelled and returns.
Woken(k) == [t \in EtThreads |-> IF asleep[t] = k /\ tok[k].cancelled THEN 0 ELSE asleep[t]]

EtNotify(x) ==
    /\ \E k \in run[x].notify : asleep' = Woken(k)
    /\ run' = [run EXCEPT ![x].notify = {}]
    /\ UNCHANGED <<tok, timer, cbs, clock>>

Invoke(x, j) ==
    /\ j \in run[x].todo \cap EtCallbacks /\ run[x].notify = {}
    /\ cbs' = [cbs EXCEPT ![j].ran = @ + 1]
    /\ run' = [run EXCEPT ![x].todo = @ \ {j}]
    /\ UNCHANGED <<tok, timer, asleep, clock>>

\* The callback on token 1 cancels token 2 if it still exists.
InvokeLink(x) ==
    /\ Link2 \in run[x].todo /\ run[x].notify = {}
    /\ IF Alive(2) THEN CancelBy(x, 2, "parent", run[x].todo \ {Link2})
       ELSE run' = [run EXCEPT ![x].todo = @ \ {Link2}] /\ UNCHANGED tok
    /\ UNCHANGED <<timer, asleep, cbs, clock>>

-----------------------------------------------------------------------------
(* Creation, the timer and the end of a token.                                *)

\* create_linked and create_linked_with_timeout: the link is registered on token 1, or run
\* at once; the timer is started after that.
CreateLinked(t, timed) ==
    /\ Free(t) /\ tok[1].users /\ tok[2] = Unmade
    /\ tok' = [tok EXCEPT ![2] = [Unmade EXCEPT !.users = TRUE, !.timed = timed, !.deadline = clock + 1, !.first = clock + 1],
                          ![1].callbacks = IF tok[1].cancelled THEN @ ELSE @ \cup {Link2}]
    /\ run' = [run EXCEPT ![t].todo = (IF tok[1].cancelled THEN {Link2} ELSE {}) \cup (IF timed THEN {StartTimer2} ELSE {})]
    /\ UNCHANGED <<timer, asleep, cbs, clock>>

StartTimeoutTimer(t) ==
    /\ run[t] = [todo |-> {StartTimer2}, notify |-> {}]
    /\ run' = [run EXCEPT ![t] = AtEase]
    /\ timer' = [timer EXCEPT ![2] = "starting"]
    /\ UNCHANGED <<tok, asleep, cbs, clock>>

\* The timer thread gets hold of the state, or finds it gone.
TimerStarts(k) ==
    /\ timer[k] = "starting"
    /\ timer' = [timer EXCEPT ![k] = IF Alive(k) THEN "waiting" ELSE "done"]
    /\ UNCHANGED <<tok, run, asleep, cbs, clock>>

\* wait_until has reached the deadline it was given.
DeadlinePassed(k) == clock >= tok[k].first

TimerFires(k) ==
    /\ timer[k] = "waiting" /\ DeadlinePassed(k) /\ ~tok[k].cancelled /\ ~tok[k].stop
    /\ timer' = [timer EXCEPT ![k] = "firing"]
    /\ CancelBy(k, k, "timeout", {})
    /\ UNCHANGED <<asleep, cbs, clock>>

\* Woken because the token was cancelled or dropped, or done with the callbacks.
TimerEnds(k) ==
    /\ \/ timer[k] = "waiting" /\ (tok[k].cancelled \/ tok[k].stop)
       \/ timer[k] = "firing" /\ run[k] = AtEase
    /\ timer' = [timer EXCEPT ![k] = "done"]
    /\ UNCHANGED <<tok, run, asleep, cbs, clock>>

\* The destructor of the last token; the timer's share counts as well.
DropOwner(t, k) ==
    /\ Free(t) /\ tok[k].users /\ \A u \in EtThreads : asleep[u] # k
    /\ tok' = [tok EXCEPT ![k].users = FALSE, ![k].stop = @ \/ timer[k] \notin {"waiting", "firing"}]
    /\ UNCHANGED <<timer, run, asleep, cbs, clock>>

ExtendTimeout(t, k) ==
    /\ Free(t) /\ tok[k].users /\ tok[k].timed /\ tok[k].deadline <= EtMaxClock
    /\ tok' = [tok EXCEPT ![k].deadline = @ + 1]
    /\ UNCHANGED <<timer, run, asleep, cbs, clock>>

EtTick == clock < EtMaxClock /\ clock' = clock + 1 /\ UNCHANGED <<tok, timer, run, asleep, cbs>>

-----------------------------------------------------------------------------
(* Callbacks and waiting.                                                     *)

RegisterCallback(t, j, k) ==
    /\ Free(t) /\ tok[k].users /\ cbs[j].fate = "new" /\ \A i \in 1..(j - 1) : cbs[i].fate # "new"
    /\ cbs' = [cbs EXCEPT ![j].token = k, ![j].fate = "registered"]
    /\ IF tok[k].cancelled THEN run' = [run EXCEPT ![t].todo = {j}] /\ UNCHANGED tok
       ELSE tok' = [tok EXCEPT ![k].callbacks = @ \cup {j}] /\ UNCHANGED run
    /\ UNCHANGED <<timer, asleep, clock>>

Erased(k, j) == tok[k].callbacks \ {j}

\* unregister_callback, also from a cancellation_callback_guard.
UnregisterCallback(t, j) ==
    /\ Free(t) /\ cbs[j].fate = "registered" /\ tok[cbs[j].token].users
    /\ LET k == cbs[j].token IN
       /\ cbs' = [cbs EXCEPT ![j].fate = IF j \in tok[k].callbacks THEN "withdrawn" ELSE "late"]
       /\ tok' = [tok EXCEPT ![k].callbacks = Erased(k, j)]
    /\ UNCHANGED <<timer, run, asleep, clock>>

\* wait, wait_for and wait_until.
EtWait(t, k) ==
    /\ Free(t) /\ tok[k].users /\ ~tok[k].cancelled
    /\ asleep' = [asleep EXCEPT ![t] = k]
    /\ UNCHANGED <<tok, timer, run, cbs, clock>>

EtWaitExpires(t) ==
    /\ asleep[t] # 0 /\ ~tok[asleep[t]].cancelled
    /\ asleep' = [asleep EXCEPT ![t] = 0]
    /\ UNCHANGED <<tok, timer, run, cbs, clock>>

EtNext ==
    \/ \E t \in EtThreads :
          \/ \E k \in Toks : EtCancel(t, k) \/ DropOwner(t, k) \/ ExtendTimeout(t, k) \/ EtWait(t, k)
          \/ \E timed \in BOOLEAN : CreateLinked(t, timed)
          \/ StartTimeoutTimer(t) \/ EtWaitExpires(t)
          \/ \E j \in EtCallbacks : UnregisterCallback(t, j) \/ \E k \in Toks : RegisterCallback(t, j, k)
    \/ \E x \in Runners : EtNotify(x) \/ InvokeLink(x) \/ \E j \in EtCallbacks : Invoke(x, j)
    \/ \E k \in Toks : TimerStarts(k) \/ TimerFires(k) \/ TimerEnds(k)
    \/ EtTick

EtSpec == EtInit /\ [][EtNext]_etVars

-----------------------------------------------------------------------------

\* Once everybody is done, a cancellation has reached all it concerns: the callbacks of the
\* token have run, nobody sleeps in its wait, and a token linked to it that still exists is
\* cancelled as well.
CancelReachesAll ==
    (\A x \in Runners : run[x] = AtEase) =>
        /\ \A k \in Toks : tok[k].cancelled => tok[k].callbacks = {} /\ \A t \in EtThreads : asleep[t] # k
        /\ \A j \in EtCallbacks : cbs[j].fate = "registered" /\ tok[cbs[j].token].cancelled => cbs[j].ran = 1
        /\ tok[1].cancelled /\ Alive(2) => tok[2].cancelled

=============================================================================
