---------------------------- MODULE LockfreeQueue ----------------------------
(* lockfree_job_queue: the queue of Michael and Scott over nodes that are        *)
(* protected by safe_hazard_guard, retired to safe_hazard_pointer_domain and     *)
(* recycled through node_pool, a stack linked by the same next pointers.  Every   *)
(* load and exchange of shared memory is a step (a hazard is published in one     *)
(* step with the test that follows it); memory is sequentially consistent, and a  *)
(* weak exchange may fail for no reason where that starts the loop again.  The     *)
(* domain serves the whole process, so a collection may come at any time.          *)
EXTENDS Integers, FiniteSets, Sequences

CONSTANTS
    LfThreads,        \* threads that use the queue
    LfCalls,          \* which of "enqueue", "dequeue", "empty" they call
    MaxPushed,        \* bound: jobs handed to enqueue
    MaxPops,          \* bound: calls of dequeue and empty
    MaxNodes,         \* bound: nodes made with new
    MaxRetries        \* MAX_RETRIES, MAX_OUTER_RETRIES

ASSUME LfAssumption == {MaxPushed, MaxPops, MaxNodes, MaxRetries} \subseteq Nat

VARIABLES
    head,      \* head_
    tail,      \* tail_
    freeList,  \* free_list_ of the pool
    node,      \* per node: next, data; 0 is nullptr
    made,      \* nodes allocated so far
    lf,        \* per thread: see AtRest
    retired,   \* retired_list_
    collector, \* the collection under way: whether there is one, the hazards it found
    approx,    \* approximate_size_
    offered,   \* jobs handed to enqueue
    pops,      \* calls of dequeue and empty
    lfPast     \* history: jobs delivered; jobs answered busy; a node of the pool was
               \* taken with a next that had changed since it was read

lfVars == <<head, tail, freeList, node, made, lf, retired, collector, approx, offered, pops, lfPast>>

Nodes == 1..MaxNodes

\* hp1, hp2: the hazard pointers of the call's guards; own: the node of enqueue; h, t, n:
\* locals head, tail and next; job: the job in hand.
AtRest == [at |-> "out", op |-> "none", hp1 |-> 0, hp2 |-> 0, own |-> 0, h |-> 0, t |-> 0, n |-> 0,
           job |-> 0, tries |-> 0]

LfInit ==
    /\ head = 1 /\ tail = 1 /\ freeList = 0
    /\ node = [x \in Nodes |-> [next |-> 0, data |-> 0]] /\ made = 1
    /\ lf = [u \in LfThreads |-> AtRest]
    /\ retired = <<>> /\ collector = [on |-> FALSE, hazards |-> {}] /\ approx = 0 /\ offered = 0 /\ pops = 0
    /\ lfPast = [delivered |-> <<>>, busy |-> {}, recycled |-> FALSE]

Set(u, rec) == lf' = [lf EXCEPT ![u] = rec]
Go(u, l) == Set(u, [lf[u] EXCEPT !.at = l])
Retry(u, l) == Set(u, [lf[u] EXCEPT !.at = l, !.tries = @ + 1])
Restart(u) == IF lf[u].tries + 1 < MaxRetries THEN Retry(u, "load") ELSE Retry(u, "giveUp")

\* The nodes from x along next, in order; a chain that does not end is cut.
RECURSIVE ChainUpTo(_, _)
ChainUpTo(x, k) == IF x = 0 \/ k = 0 THEN <<>> ELSE <<x>> \o ChainUpTo(node[x].next, k - 1)
Chain(x) == ChainUpTo(x, MaxNodes)

-----------------------------------------------------------------------------
(* node_pool.                                                                 *)

Filled(x, j) == [node EXCEPT ![x] = [next |-> 0, data |-> j]]

\* acquire: an empty pool allocates; otherwise its first node and that node's next are read.
AcquireLoad(u) ==
    /\ lf[u].at = "acquire"
    /\ \/ /\ freeList = 0 /\ made < MaxNodes
          /\ made' = made + 1 /\ node' = Filled(made + 1, lf[u].job)
          /\ Set(u, [lf[u] EXCEPT !.at = "load", !.own = made + 1])
       \/ /\ freeList # 0
          /\ Set(u, [lf[u] EXCEPT !.at = "acquireCas", !.h = freeList, !.n = node[freeList].next])
          /\ UNCHANGED <<made, node>>
    /\ UNCHANGED <<head, tail, freeList, retired, collector, approx, offered, pops, lfPast>>

AcquireCas(u) ==
    /\ lf[u].at = "acquireCas"
    /\ IF freeList = lf[u].h
       THEN /\ freeList' = lf[u].n
            /\ node' = Filled(lf[u].h, lf[u].job)
            /\ lfPast' = [lfPast EXCEPT !.recycled = @ \/ node[lf[u].h].next # lf[u].n]
            /\ Set(u, [lf[u] EXCEPT !.at = "load", !.own = lf[u].h])
       ELSE Go(u, "acquire") /\ UNCHANGED <<freeList, node, lfPast>>
    /\ UNCHANGED <<head, tail, made, retired, collector, approx, offered, pops>>

\* The stack and the nodes after release() of the nodes of s, one after the other.
Released(s) ==
    LET below(i) == IF i = 1 THEN freeList ELSE s[i - 1]
        place(x) == {i \in DOMAIN s : s[i] = x}
    IN /\ freeList' = below(Len(s) + 1)
       /\ node' = [x \in Nodes |-> IF place(x) = {} THEN node[x]
                                  ELSE [next |-> below(CHOOSE i \in place(x) : TRUE), data |-> 0]]

-----------------------------------------------------------------------------
(* enqueue.                                                                   *)

LfBegin(u, op) ==
    /\ lf[u].at = "out" /\ op \in LfCalls
    /\ \/ /\ op = "enqueue" /\ offered < MaxPushed
          /\ offered' = offered + 1 /\ UNCHANGED pops
          /\ Set(u, [AtRest EXCEPT !.at = "acquire", !.op = op, !.job = offered + 1])
       \/ /\ op # "enqueue" /\ pops < MaxPops
          /\ pops' = pops + 1 /\ UNCHANGED offered
          /\ Set(u, [AtRest EXCEPT !.at = "load", !.op = op])
    /\ UNCHANGED <<head, tail, freeList, node, made, retired, collector, approx, lfPast>>

Load(u) ==
    /\ lf[u].at = "load"
    /\ Set(u, [lf[u] EXCEPT !.at = "protect", !.h = head, !.t = tail])
    /\ UNCHANGED <<head, tail, freeList, node, made, retired, collector, approx, offered, pops, lfPast>>

StillThere(u) == IF lf[u].op = "enqueue" THEN tail = lf[u].t ELSE head = lf[u].h

\* protect() and the second load of tail_ (enqueue) or head_ (dequeue, empty).
Protect(u) ==
    /\ lf[u].at = "protect"
    /\ LET hp == IF lf[u].op = "enqueue" THEN lf[u].t ELSE lf[u].h IN
       IF StillThere(u)
       THEN Set(u, [lf[u] EXCEPT !.hp1 = hp, !.at = CASE lf[u].op = "enqueue" -> "tailNext"
                                                      [] lf[u].op = "dequeue" -> "loadTail"
                                                      [] lf[u].op = "empty" -> "look"])
       ELSE Restart(u)
    /\ UNCHANGED <<head, tail, freeList, node, made, retired, collector, approx, offered, pops, lfPast>>

TailNext(u) ==
    /\ lf[u].at = "tailNext"
    /\ Set(u, [lf[u] EXCEPT !.at = "tailCheck", !.n = node[lf[u].t].next])
    /\ UNCHANGED <<head, tail, freeList, node, made, retired, collector, approx, offered, pops, lfPast>>

TailCheck(u) ==
    /\ lf[u].at = "tailCheck"
    /\ IF tail # lf[u].t THEN Restart(u) ELSE Go(u, IF lf[u].n = 0 THEN "link" ELSE "help")
    /\ UNCHANGED <<head, tail, freeList, node, made, retired, collector, approx, offered, pops, lfPast>>

\* Mutant: next is stored whatever it is.
LinkableAlways(u) == lf[u].at = "link"

Linkable(u) == node[lf[u].t].next = 0

Linked(u) == [node EXCEPT ![lf[u].t].next = lf[u].own]

Link(u) ==
    /\ lf[u].at = "link"
    /\ \/ /\ Linkable(u)
          /\ node' = Linked(u)
          /\ Go(u, "swing")
       \/ Restart(u) /\ UNCHANGED node
    /\ UNCHANGED <<head, tail, freeList, made, retired, collector, approx, offered, pops, lfPast>>

\* The exchange of tail_ to the new node may fail; then the next caller helps.
Swing(u) ==
    /\ lf[u].at = "swing"
    /\ tail' \in (IF tail = lf[u].t THEN {tail, lf[u].own} ELSE {tail})
    /\ approx' = approx + 1
    /\ Set(u, AtRest)
    /\ UNCHANGED <<head, freeList, node, made, retired, collector, offered, pops, lfPast>>

\* The tail lags behind: swing it, then start again.
Help(u) ==
    /\ lf[u].at = "help"
    /\ tail' = IF tail = lf[u].t THEN lf[u].n ELSE tail
    /\ Restart(u)
    /\ UNCHANGED <<head, freeList, node, made, retired, collector, approx, offered, pops, lfPast>>

\* Too many retries: enqueue gives its node back and answers queue_busy, dequeue answers
\* queue_empty, and empty() reads once more without looking back.
GiveUp(u) ==
    /\ lf[u].at = "giveUp"
    /\ \/ /\ lf[u].op = "enqueue" /\ Released(<<lf[u].own>>)
          /\ lfPast' = [lfPast EXCEPT !.busy = @ \cup {lf[u].job}] /\ Set(u, AtRest)
       \/ /\ lf[u].op = "dequeue" /\ Set(u, AtRest) /\ UNCHANGED <<freeList, node, lfPast>>
       \/ /\ lf[u].op = "empty" /\ Set(u, [lf[u] EXCEPT !.h = head, !.at = "lookBlind"])
          /\ UNCHANGED <<freeList, node, lfPast>>
    /\ UNCHANGED <<head, tail, made, retired, collector, approx, offered, pops>>

-----------------------------------------------------------------------------
(* dequeue and empty.                                                         *)

LoadTail(u) ==
    /\ lf[u].at = "loadTail"
    /\ Set(u, [lf[u] EXCEPT !.at = "loadNext", !.t = tail])
    /\ UNCHANGED <<head, tail, freeList, node, made, retired, collector, approx, offered, pops, lfPast>>

LoadNext(u) ==
    /\ lf[u].at = "loadNext"
    /\ LET n == node[lf[u].h].next IN
       Set(u, [lf[u] EXCEPT !.n = n, !.at = IF n = 0 THEN "decide" ELSE "protectNext"])
    /\ UNCHANGED <<head, tail, freeList, node, made, retired, collector, approx, offered, pops, lfPast>>

ProtectNext(u) ==
    /\ lf[u].at = "protectNext"
    /\ Set(u, [lf[u] EXCEPT !.hp2 = lf[u].n, !.at = IF node[lf[u].h].next = lf[u].n THEN "decide" ELSE "loadNext"])
    /\ UNCHANGED <<head, tail, freeList, node, made, retired, collector, approx, offered, pops, lfPast>>

\* head == tail: the queue is empty, or the tail has to be helped first.
TailLags(u) == lf[u].h = lf[u].t

Decide(u) ==
    /\ lf[u].at = "decide"
    /\ IF head # lf[u].h THEN Restart(u)
       ELSE IF TailLags(u) THEN IF lf[u].n = 0 THEN Set(u, AtRest) ELSE Go(u, "help")
       ELSE IF lf[u].n = 0 THEN Restart(u) ELSE Go(u, "advance")
    /\ UNCHANGED <<head, tail, freeList, node, made, retired, collector, approx, offered, pops, lfPast>>

Advance(u) ==
    /\ lf[u].at = "advance"
    /\ \/ head = lf[u].h /\ head' = lf[u].n /\ Go(u, "move")
       \/ Restart(u) /\ UNCHANGED head
    /\ UNCHANGED <<tail, freeList, node, made, retired, collector, approx, offered, pops, lfPast>>

\* The job is moved out of the node that is the dummy from now on.
Move(u) ==
    /\ lf[u].at = "move"
    /\ lfPast' = [lfPast EXCEPT !.delivered = Append(@, node[lf[u].n].data)]
    /\ node' = [node EXCEPT ![lf[u].n].data = 0]
    /\ Go(u, "retire")
    /\ UNCHANGED <<head, tail, freeList, made, retired, collector, approx, offered, pops>>

SizeAfterRetire == approx - 1

\* retire: a node that is in the list already is entered once.
Retire(u) ==
    /\ lf[u].at = "retire" /\ ~collector.on
    /\ retired' = Append(SelectSeq(retired, LAMBDA x : x # lf[u].h), lf[u].h)
    /\ approx' = SizeAfterRetire
    /\ Set(u, AtRest)
    /\ UNCHANGED <<head, tail, freeList, node, made, collector, offered, pops, lfPast>>

\* collect_internal: first every record is read, then what nobody protects is reclaimed.
Collect ==
    /\ ~collector.on /\ retired # <<>>
    /\ collector' = [on |-> TRUE, hazards |-> UNION {{lf[v].hp1, lf[v].hp2} : v \in LfThreads}]
    /\ UNCHANGED <<head, tail, freeList, node, made, lf, retired, approx, offered, pops, lfPast>>

Pinned(x) == x \in collector.hazards

Reclaim ==
    /\ collector.on
    /\ Released(SelectSeq(retired, LAMBDA x : ~Pinned(x)))
    /\ retired' = SelectSeq(retired, Pinned)
    /\ collector' = [on |-> FALSE, hazards |-> {}]
    /\ UNCHANGED <<head, tail, made, lf, approx, offered, pops, lfPast>>

\* empty() reads the next pointer of the head and returns.
Look(u) ==
    /\ lf[u].at \in {"look", "lookBlind"}
    /\ Set(u, AtRest)
    /\ UNCHANGED <<head, tail, freeList, node, made, retired, collector, approx, offered, pops, lfPast>>

LfNext ==
    \/ Collect \/ Reclaim
    \/ \E u \in LfThreads :
        \/ \E op \in LfCalls : LfBegin(u, op)
        \/ AcquireLoad(u) \/ AcquireCas(u) \/ Load(u) \/ Protect(u) \/ TailNext(u) \/ TailCheck(u)
        \/ Link(u) \/ Swing(u) \/ Help(u) \/ GiveUp(u)
        \/ LoadTail(u) \/ LoadNext(u) \/ ProtectNext(u) \/ Decide(u) \/ Advance(u) \/ Move(u)
        \/ Retire(u) \/ Look(u)

LfSpec == LfInit /\ [][LfNext]_lfVars

-----------------------------------------------------------------------------
\* The nodes after the dummy: what is in the queue, in order.
Queued == Tail(Chain(head))
Waiting(j) == {i \in DOMAIN Queued : node[Queued[i]].data = j}
InHand(j) == {u \in LfThreads : \/ lf[u].op = "enqueue" /\ lf[u].job = j /\ lf[u].at # "swing"
                                \/ lf[u].at = "move" /\ node[lf[u].n].data = j}
Delivered(j) == {i \in DOMAIN lfPast.delivered : lfPast.delivered[i] = j}

\* Every job given to enqueue is in one place: with its caller, in the queue, taken by a
\* dequeue that has yet to move it out, delivered, or answered busy.
JobsOnce ==
    \A j \in 1..offered :
        Cardinality(Waiting(j)) + Cardinality(InHand(j)) + Cardinality(Delivered(j))
            + (IF j \in lfPast.busy THEN 1 ELSE 0) = 1

\* enqueue and dequeue neither lose nor repeat a job, whatever compare-exchanges meet and
\* whoever collects, unless node_pool::acquire met a node that was taken and given back
\* between its load and its exchange.
JobsOnceUnlessRecycled == ~lfPast.recycled => JobsOnce

=============================================================================
