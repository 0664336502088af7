---------------------------- MODULE Configuration ----------------------------
(* configuration_manager and the event_bus it publishes to, for one path: set()      *)
(* validates, stores, calls the listeners and publishes in four steps, each under its  *)
(* own lock or none.  The bus hands the handlers of the moment and the event to a pool  *)
(* of two workers, whose submit may be refused.  Listeners and the handlers of           *)
(* publish_sync run under the lock of their map and so within one step; ones that call   *)
(* back into it would lock it twice and are left out.  An event is the number of its     *)
(* publication.                                                                          *)
EXTENDS Integers, Sequences, FiniteSets, Functions

CONSTANTS
    CmThreads,     \* threads that use the manager
    CmValues,      \* values of the path; 0 stands for none
    Listeners,     \* callbacks of on_change
    Subscribers,   \* handlers subscribed to config_changed_event
    CmMaxSets,     \* bound: calls of set
    CmMaxChanges   \* bound: calls that change listeners, subscriptions and validators

VARIABLES
    config,        \* config_[path]
    valid,         \* what the validator of the path accepts
    listening,     \* callbacks_[path]
    handlers,      \* handlers_[config_changed_event]
    pending,       \* jobs of the pool: an event and the handlers copied for it
    working,       \* per worker of the pool the job it runs
    cm,            \* per thread: the step of set() it is at and its locals
    sets, changes,
    told,          \* history: per listener the last value it was called with
    events,        \* history: the events published, each with old, new and its subscribers
    got,           \* history: per handler the events it ran for, in order
    cmPast         \* history: two calls of set overlapped; the path was removed, or a listener
                   \* added, since the last set

cmVars == <<config, valid, listening, handlers, pending, working, cm, sets, changes, told, events, got, cmPast>>

Outside == [at |-> "out", value |-> 0, old |-> 0]
NoJob == [event |-> 0, todo |-> {}]
Workers2 == {1, 2}

CmInit ==
    /\ config = 0 /\ valid = CmValues /\ listening = {} /\ handlers = {} /\ pending = <<>>
    /\ working = [w \in Workers2 |-> NoJob]
    /\ cm = [t \in CmThreads |-> Outside] /\ sets = 0 /\ changes = 0
    /\ told = [l \in Listeners |-> 0] /\ events = <<>> /\ got = [h \in Subscribers |-> <<>>]
    /\ cmPast = [overlap |-> FALSE, unsaid |-> FALSE]

CmGo(t, l) == cm' = [cm EXCEPT ![t].at = l]
SetsRunning == {t \in CmThreads : cm[t].at # "out"}

-----------------------------------------------------------------------------
(* set.                                                                       *)

Accepts(v) == v \in valid

\* The validator is asked without the lock.
Validate(t, v) ==
    /\ cm[t].at = "out" /\ sets < CmMaxSets /\ sets' = sets + 1
    /\ cm' = IF Accepts(v) THEN [cm EXCEPT ![t] = [Outside EXCEPT !.at = "store", !.value = v]] ELSE cm
    /\ cmPast' = [cmPast EXCEPT !.overlap = @ \/ (Accepts(v) /\ SetsRunning # {})]
    /\ UNCHANGED <<config, valid, listening, handlers, pending, working, changes, told, events, got>>

Store(t) ==
    /\ cm[t].at = "store"
    /\ config' = cm[t].value
    /\ cm' = [cm EXCEPT ![t].at = "notify", ![t].old = config]
    /\ cmPast' = [cmPast EXCEPT !.unsaid = FALSE]
    /\ UNCHANGED <<valid, listening, handlers, pending, working, sets, changes, told, events, got>>

\* Mutant: the listeners are told the value that was there before.
ToldNowOld(t) == cm[t].old

ToldNow(t) == cm[t].value

\* had_value and values_equal.
Changed(t) == cm[t].old = 0 \/ cm[t].old # cm[t].value

\* notify_change: the listeners of the path, under callbacks_mutex_.
NotifyChange(t) ==
    /\ cm[t].at = "notify"
    /\ told' = [l \in Listeners |-> IF l \in listening THEN ToldNow(t) ELSE told[l]]
    /\ IF Changed(t) THEN CmGo(t, "publish") ELSE cm' = [cm EXCEPT ![t] = Outside]
    /\ UNCHANGED <<config, valid, listening, handlers, pending, working, sets, changes, events, got, cmPast>>

\* publish copies the handlers and submits one job for all of them; what submit answers is
\* ignored.
Publish(t) ==
    /\ cm[t].at = "publish"
    /\ events' = Append(events, [old |-> cm[t].old, new |-> cm[t].value, for |-> handlers])
    /\ \/ handlers # {} /\ pending' = Append(pending, [event |-> Len(events) + 1, todo |-> handlers])
       \/ UNCHANGED pending
    /\ cm' = [cm EXCEPT ![t] = Outside]
    /\ UNCHANGED <<config, valid, listening, handlers, working, sets, changes, told, got, cmPast>>

-----------------------------------------------------------------------------
(* The other operations; each is one critical section.                        *)

More == changes < CmMaxChanges /\ changes' = changes + 1

RemovePath ==
    /\ More /\ config # 0 /\ config' = 0
    /\ cmPast' = [cmPast EXCEPT !.unsaid = TRUE]
    /\ UNCHANGED <<valid, listening, handlers, pending, working, cm, sets, told, events, got>>

OnChange(l) ==
    /\ More /\ l \notin listening /\ listening' = listening \cup {l}
    /\ cmPast' = [cmPast EXCEPT !.unsaid = TRUE]
    /\ UNCHANGED <<config, valid, handlers, pending, working, cm, sets, told, events, got>>

RemoveCallback(l) ==
    /\ More /\ l \in listening /\ listening' = listening \ {l}
    /\ UNCHANGED <<config, valid, handlers, pending, working, cm, sets, told, events, got, cmPast>>

AddValidator(S) ==
    /\ More /\ valid' = S
    /\ UNCHANGED <<config, listening, handlers, pending, working, cm, sets, told, events, got, cmPast>>

Subscribe(h) ==
    /\ More /\ h \notin handlers /\ handlers' = handlers \cup {h}
    /\ UNCHANGED <<config, valid, listening, pending, working, cm, sets, told, events, got, cmPast>>

Unsubscribe(h) ==
    /\ More /\ h \in handlers /\ handlers' = handlers \ {h}
    /\ UNCHANGED <<config, valid, listening, pending, working, cm, sets, told, events, got, cmPast>>

\* publish_sync, for an event of somebody else.
PublishSync ==
    /\ More /\ handlers # {}
    /\ events' = Append(events, [old |-> 0, new |-> 0, for |-> handlers])
    /\ got' = [h \in Subscribers |-> IF h \in handlers THEN Append(got[h], Len(events) + 1) ELSE got[h]]
    /\ UNCHANGED <<config, valid, listening, handlers, pending, working, cm, sets, told, cmPast>>

-----------------------------------------------------------------------------
(* The pool of the bus.                                                       *)

BusTake(w) ==
    /\ pending # <<>> /\ working[w] = NoJob
    /\ working' = [working EXCEPT ![w] = Head(pending)] /\ pending' = Tail(pending)
    /\ UNCHANGED <<config, valid, listening, handlers, cm, sets, changes, told, events, got, cmPast>>

Handled(w, h) == working[w].todo \ {h}

BusRun(w, h) ==
    /\ h \in working[w].todo
    /\ got' = [got EXCEPT ![h] = Append(@, working[w].event)]
    /\ working' = [working EXCEPT ![w] = IF Handled(w, h) = {} THEN NoJob ELSE [@ EXCEPT !.todo = Handled(w, h)]]
    /\ UNCHANGED <<config, valid, listening, handlers, pending, cm, sets, changes, told, events, cmPast>>

CmNext ==
    \/ \E t \in CmThreads : (\E v \in CmValues : Validate(t, v)) \/ Store(t) \/ NotifyChange(t) \/ Publish(t)
    \/ RemovePath \/ PublishSync \/ \E S \in SUBSET CmValues : AddValidator(S)
    \/ \E l \in Listeners : OnChange(l) \/ RemoveCallback(l)
    \/ \E h \in Subscribers : Subscribe(h) \/ Unsubscribe(h) \/ \E w \in Workers2 : BusRun(w, h)
    \/ \E w \in Workers2 : BusTake(w)

CmSpec == CmInit /\ [][CmNext]_cmVars

-----------------------------------------------------------------------------

\* Calls of set that do not overlap tell both audiences the history of the path: a listener
\* was told the last value, unless the path was removed or the listener came later, and each
\* event starts from the value the one before it ended with, or from none.  Overlapping or
\* not, a handler runs at most once for an event, and only if it was subscribed when the
\* event was published.
HistoryIsTold ==
    /\ ~cmPast.overlap =>
          /\ SetsRunning = {} /\ ~cmPast.unsaid => \A l \in listening : told[l] = config
          /\ LET of == SelectSeq(events, LAMBDA e : e.new # 0)
             IN \A i \in 2..Len(of) : of[i].old \in {0, of[i - 1].new}
    /\ \A h \in Subscribers :
          IsInjective(got[h]) /\ \A i \in DOMAIN got[h] : h \in events[got[h][i]].for

=============================================================================
