---------------------------- MODULE LockfreeSync ----------------------------
(* lockfree_sync_policy: the list of Michael and Scott without any protection of *)
(* its nodes.  dequeue moves the job out of the node before the exchange that     *)
(* decides whose it is, and deletes the old head right after it.  Every access to *)
(* shared memory is a step; once a thread has touched a deleted node the program   *)
(* is undefined and the model stops.                                               *)
EXTENDS Integers, Sequences, FiniteSets

CONSTANTS
    LsProducers, LsConsumers,
    LsMaxJobs,      \* bound: jobs enqueued
    LsMaxCalls      \* bound: calls of dequeue

VARIABLES
    lsHead, lsTail,   \* head_, tail_
    cell,             \* per node: next and data; node 1 is the first dummy, job j is in node j + 1
    lsShutdown,       \* shutdown_
    ls,               \* per thread: where it is, its locals head, tail, next, the job in hand
    deleted,          \* nodes deleted
    lsJobs, lsCalls,
    lsOut,            \* history: jobs returned by dequeue, in order
    lsPast            \* history: two producers or two consumers were in a call at once; a
                      \* weak exchange of head_ failed for no reason; a deleted node was touched

lsVars == <<lsHead, lsTail, cell, lsShutdown, ls, deleted, lsJobs, lsCalls, lsOut, lsPast>>

Cells == 1..LsMaxJobs + 1
LsThreads == LsProducers \cup LsConsumers
Inactive == [at |-> "out", h |-> 0, t |-> 0, n |-> 0, job |-> 0]

LsInit ==
    /\ lsHead = 1 /\ lsTail = 1 /\ lsShutdown = FALSE
    /\ cell = [c \in Cells |-> [next |-> 0, data |-> c - 1]]
    /\ ls = [t \in LsThreads |-> Inactive]
    /\ deleted = {} /\ lsJobs = 0 /\ lsCalls = 0 /\ lsOut = <<>>
    /\ lsPast = [crowded |-> FALSE, spurious |-> FALSE, touched |-> FALSE]

LsGo(t, l) == ls' = [ls EXCEPT ![t].at = l]
Crowd(S) == \E u \in S : ls[u].at # "out"
Touch(c) == lsPast' = [lsPast EXCEPT !.touched = @ \/ c \in deleted]

-----------------------------------------------------------------------------
(* enqueue.                                                                   *)

LsEnqueue(p) ==
    /\ ls[p].at = "out" /\ lsJobs < LsMaxJobs /\ ~lsShutdown
    /\ lsJobs' = lsJobs + 1
    /\ ls' = [ls EXCEPT ![p].at = "tail", ![p].job = lsJobs + 1]
    /\ lsPast' = [lsPast EXCEPT !.crowded = @ \/ Crowd(LsProducers)]
    /\ UNCHANGED <<lsHead, lsTail, cell, lsShutdown, deleted, lsCalls, lsOut>>

LsLoadTail(p) ==
    /\ ls[p].at = "tail"
    /\ ls' = [ls EXCEPT ![p].at = "tailNext", ![p].t = lsTail]
    /\ UNCHANGED <<lsHead, lsTail, cell, lsShutdown, deleted, lsJobs, lsCalls, lsOut, lsPast>>

LsTailNext(p) ==
    /\ ls[p].at = "tailNext" /\ Touch(ls[p].t)
    /\ ls' = [ls EXCEPT ![p].at = "tailCheck", ![p].n = cell[ls[p].t].next]
    /\ UNCHANGED <<lsHead, lsTail, cell, lsShutdown, deleted, lsJobs, lsCalls, lsOut>>

LsTailCheck(p) ==
    /\ ls[p].at = "tailCheck"
    /\ LsGo(p, IF lsTail # ls[p].t THEN "tail" ELSE IF ls[p].n = 0 THEN "link" ELSE "help")
    /\ UNCHANGED <<lsHead, lsTail, cell, lsShutdown, deleted, lsJobs, lsCalls, lsOut, lsPast>>

LsLink(p) ==
    /\ ls[p].at = "link" /\ Touch(ls[p].t)
    /\ \/ cell[ls[p].t].next = 0 /\ cell' = [cell EXCEPT ![ls[p].t].next = ls[p].job + 1] /\ LsGo(p, "swing")
       \/ LsGo(p, "tail") /\ UNCHANGED cell
    /\ UNCHANGED <<lsHead, lsTail, lsShutdown, deleted, lsJobs, lsCalls, lsOut>>

LsSwing(p) ==
    /\ ls[p].at = "swing"
    /\ lsTail' = IF lsTail = ls[p].t THEN ls[p].job + 1 ELSE lsTail
    /\ ls' = [ls EXCEPT ![p] = Inactive]
    /\ UNCHANGED <<lsHead, cell, lsShutdown, deleted, lsJobs, lsCalls, lsOut, lsPast>>

\* The tail lags behind.
LsHelp(t) ==
    /\ ls[t].at = "help"
    /\ lsTail' = IF lsTail = ls[t].t THEN ls[t].n ELSE lsTail
    /\ LsGo(t, IF t \in LsProducers THEN "tail" ELSE "head")
    /\ UNCHANGED <<lsHead, cell, lsShutdown, deleted, lsJobs, lsCalls, lsOut, lsPast>>

-----------------------------------------------------------------------------
(* dequeue, also as try_dequeue and in the loop of clear.                     *)

LsDequeue(c) ==
    /\ ls[c].at = "out" /\ lsCalls < LsMaxCalls
    /\ lsCalls' = lsCalls + 1 /\ LsGo(c, "head")
    /\ lsPast' = [lsPast EXCEPT !.crowded = @ \/ Crowd(LsConsumers)]
    /\ UNCHANGED <<lsHead, lsTail, cell, lsShutdown, deleted, lsJobs, lsOut>>

LsLoadHead(c) ==
    /\ ls[c].at = "head"
    /\ ls' = [ls EXCEPT ![c].at = "headTail", ![c].h = lsHead]
    /\ UNCHANGED <<lsHead, lsTail, cell, lsShutdown, deleted, lsJobs, lsCalls, lsOut, lsPast>>

LsHeadTail(c) ==
    /\ ls[c].at = "headTail"
    /\ ls' = [ls EXCEPT ![c].at = "headNext", ![c].t = lsTail]
    /\ UNCHANGED <<lsHead, lsTail, cell, lsShutdown, deleted, lsJobs, lsCalls, lsOut, lsPast>>

LsHeadNext(c) ==
    /\ ls[c].at = "headNext" /\ Touch(ls[c].h)
    /\ ls' = [ls EXCEPT ![c].at = "headCheck", ![c].n = cell[ls[c].h].next]
    /\ UNCHANGED <<lsHead, lsTail, cell, lsShutdown, deleted, lsJobs, lsCalls, lsOut>>

AtTail(c) == ls[c].h = ls[c].t

LsHeadCheck(c) ==
    /\ ls[c].at = "headCheck"
    /\ IF lsHead # ls[c].h THEN LsGo(c, "head")
       ELSE IF AtTail(c) THEN IF ls[c].n = 0 THEN ls' = [ls EXCEPT ![c] = Inactive] ELSE LsGo(c, "help")
       ELSE LsGo(c, IF ls[c].n = 0 THEN "head" ELSE "move")
    /\ UNCHANGED <<lsHead, lsTail, cell, lsShutdown, deleted, lsJobs, lsCalls, lsOut, lsPast>>

\* Mutant: the job is copied.
LeftInNodeJob(c) == cell[ls[c].n].data

\* What the move leaves behind.
LeftInNode(c) == 0

\* auto value = std::move(next->data), before the exchange.
LsMove(c) ==
    /\ ls[c].at = "move" /\ Touch(ls[c].n)
    /\ ls' = [ls EXCEPT ![c].at = "cas", ![c].job = cell[ls[c].n].data]
    /\ cell' = [cell EXCEPT ![ls[c].n].data = LeftInNode(c)]
    /\ UNCHANGED <<lsHead, lsTail, lsShutdown, deleted, lsJobs, lsCalls, lsOut>>

DeletedHead(c) == ls[c].h

\* A failed exchange drops the job that was moved out; a weak one may fail for no reason.
LsCas(c) ==
    /\ ls[c].at = "cas"
    /\ \/ /\ lsHead = ls[c].h /\ lsHead' = ls[c].n
          /\ deleted' = deleted \cup {DeletedHead(c)} /\ lsOut' = Append(lsOut, ls[c].job)
          /\ ls' = [ls EXCEPT ![c] = Inactive] /\ UNCHANGED lsPast
       \/ /\ ls' = [ls EXCEPT ![c].at = "head", ![c].job = 0]
          /\ lsPast' = [lsPast EXCEPT !.spurious = @ \/ lsHead = ls[c].h]
          /\ UNCHANGED <<lsHead, deleted, lsOut>>
    /\ UNCHANGED <<lsTail, cell, lsShutdown, lsJobs, lsCalls>>

LsStop ==
    /\ ~lsShutdown /\ lsShutdown' = TRUE
    /\ UNCHANGED <<lsHead, lsTail, cell, ls, deleted, lsJobs, lsCalls, lsOut, lsPast>>

LsNext ==
    /\ ~lsPast.touched
    /\ \/ \E p \in LsProducers : LsEnqueue(p) \/ LsLoadTail(p) \/ LsTailNext(p) \/ LsTailCheck(p) \/ LsLink(p) \/ LsSwing(p)
       \/ \E t \in LsThreads : LsHelp(t)
       \/ \E c \in LsConsumers : LsDequeue(c) \/ LsLoadHead(c) \/ LsHeadTail(c) \/ LsHeadNext(c) \/ LsHeadCheck(c)
                                 \/ LsMove(c) \/ LsCas(c)
       \/ LsStop

LsSpec == LsInit /\ [][LsNext]_lsVars

-----------------------------------------------------------------------------
RECURSIVE LsChain(_)
LsChain(c) == IF c = 0 THEN {} ELSE {c} \cup LsChain(cell[c].next)

\* One producer and one consumer at a time lose or double no job, on processors whose weak exchange fails only when
\* the value differs: each is on its way in, in a node behind the head,
\* moved out by the consumer, or returned, and returned jobs keep their order.
LsJobsOnce ==
    ~lsPast.crowded /\ ~lsPast.spurious =>
        /\ \A i, k \in DOMAIN lsOut : i < k => lsOut[i] < lsOut[k]
        /\ \A j \in 1..lsJobs :
             Cardinality({c \in LsChain(lsHead) \ {lsHead} : cell[c].data = j})
               + Cardinality({p \in LsProducers : ls[p].job = j /\ ls[p].at # "swing"})
               + Cardinality({c \in LsConsumers : ls[c].job = j})
               + Cardinality({i \in DOMAIN lsOut : lsOut[i] = j}) = 1
=============================================================================
