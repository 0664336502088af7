---------------------------- MODULE HazardRecords ----------------------------
(* safe_hazard_pointer_domain: records of two hazard slots in a list that only grows,  *)
(* taken and given back by guards; nodes that were unlinked are retired under a mutex  *)
(* and freed by a scan of all slots.  The users are those of lockfree_job_queue: they  *)
(* load a shared pointer, protect what they found and load it again.  Memory is        *)
(* sequentially consistent.  Records are numbered in the order of their pushes, so that *)
(* the successor of record r is r - 1 and the head is the last one.                     *)
EXTENDS Integers, Sequences, FiniteSets

CONSTANTS
    HrThreads,     \* users
    HrNodes,       \* bound: nodes, published in this order
    HrSlots,       \* slots that guards are made for
    HrMaxGuards,   \* bound: guards made
    HrBase,        \* BASE_THRESHOLD
    HrPerThread,   \* PER_THREAD_THRESHOLD
    HrMax          \* MAX_THRESHOLD

ASSUME HrNames == "nobody" \notin HrThreads /\ HrSlots \subseteq {1, 2}

VARIABLES
    record,        \* the list: active and the two slots of each record
    activeCount,   \* active_count_
    hrShared,      \* the node that the users' shared pointer holds, 0 for none
    hrUser,        \* per thread: see HrIdle
    retiredList,   \* the addresses in retired_list_, each there once
    hrCollector,   \* who holds retire_mutex_ for a scan, next record and slot, hazards found
    hrPast         \* history: nodes freed; guards made; nodes published

hrVars == <<record, activeCount, hrShared, hrUser, retiredList, hrCollector, hrPast>>

\* rec, slot: the guard's; node: what it protects or has unlinked.
HrIdle == [pc |-> "idle", rec |-> 0, slot |-> 1, node |-> 0]
NoScan == [by |-> "nobody", rec |-> 0, hazards |-> {}]

HrInit ==
    /\ record = <<>> /\ activeCount = 0 /\ hrShared = 1
    /\ hrUser = [t \in HrThreads |-> HrIdle]
    /\ retiredList = {} /\ hrCollector = NoScan
    /\ hrPast = [freed |-> {}, guards |-> 0, published |-> 1]

-----------------------------------------------------------------------------
(* acquire: the list is walked for a record that nobody uses.                 *)

Goes(t, pc) == [hrUser EXCEPT ![t].pc = pc]

MakeGuard(t, slot) ==
    /\ hrUser[t].pc = "idle" /\ hrPast.guards < HrMaxGuards
    /\ hrUser' = [hrUser EXCEPT ![t].pc = "walk", ![t].rec = Len(record), ![t].slot = slot]
    /\ hrPast' = [hrPast EXCEPT !.guards = @ + 1]
    /\ UNCHANGED <<record, activeCount, hrShared, retiredList, hrCollector>>

\* The compare_exchange on active succeeds.
MayTake(r) == ~record[r].active

TakeRecord(t) ==
    /\ hrUser[t].pc = "walk" /\ hrUser[t].rec # 0
    /\ LET r == hrUser[t].rec IN
       IF MayTake(r)
       THEN record' = [record EXCEPT ![r].active = TRUE] /\ hrUser' = Goes(t, "clear1")
       ELSE hrUser' = [hrUser EXCEPT ![t].rec = r - 1] /\ UNCHANGED record
    /\ UNCHANGED <<activeCount, hrShared, retiredList, hrCollector, hrPast>>

\* clear of one of the slots of the record in hand.
ClearSlot(t, s) == record' = [record EXCEPT ![hrUser[t].rec].slot[s] = 0]

\* A record that was taken is cleared slot by slot.
ClearTaken(t) ==
    /\ \/ hrUser[t].pc = "clear1" /\ ClearSlot(t, 1) /\ hrUser' = Goes(t, "clear2")
       \/ hrUser[t].pc = "clear2" /\ ClearSlot(t, 2) /\ hrUser' = Goes(t, "count")
    /\ UNCHANGED <<activeCount, hrShared, retiredList, hrCollector, hrPast>>

\* None is free: a new record is pushed; the loop ends when its head is still the head.
PushRecord(t) ==
    /\ hrUser[t].pc = "walk" /\ hrUser[t].rec = 0
    /\ record' = Append(record, [active |-> TRUE, slot |-> [s \in {1, 2} |-> 0]])
    /\ hrUser' = [hrUser EXCEPT ![t].pc = "count", ![t].rec = Len(record) + 1]
    /\ UNCHANGED <<activeCount, hrShared, retiredList, hrCollector, hrPast>>

CountTaken(t) ==
    /\ hrUser[t].pc = "count"
    /\ activeCount' = activeCount + 1
    /\ hrUser' = Goes(t, "held")
    /\ UNCHANGED <<record, hrShared, retiredList, hrCollector, hrPast>>

DropGuard(t) ==
    /\ hrUser[t].pc \in {"held", "using"}
    /\ hrUser' = Goes(t, "slot1")
    /\ UNCHANGED <<record, activeCount, hrShared, retiredList, hrCollector, hrPast>>

\* release: both slots, then the record, then the counter.
ReleaseStep(t) ==
    /\ \/ hrUser[t].pc = "slot1" /\ ClearSlot(t, 1) /\ hrUser' = Goes(t, "slot2") /\ UNCHANGED activeCount
       \/ hrUser[t].pc = "slot2" /\ ClearSlot(t, 2) /\ hrUser' = Goes(t, "give") /\ UNCHANGED activeCount
       \/ /\ hrUser[t].pc = "give" /\ record' = [record EXCEPT ![hrUser[t].rec].active = FALSE]
          /\ hrUser' = Goes(t, "uncount") /\ UNCHANGED activeCount
       \/ /\ hrUser[t].pc = "uncount" /\ activeCount' = activeCount - 1
          /\ hrUser' = [hrUser EXCEPT ![t] = HrIdle] /\ UNCHANGED record
    /\ UNCHANGED <<hrShared, retiredList, hrCollector, hrPast>>

-----------------------------------------------------------------------------
(* Use of a guard, and the unlinking of nodes.                                *)

LoadShared(t) ==
    /\ hrUser[t].pc = "held" /\ hrShared # 0
    /\ hrUser' = [hrUser EXCEPT ![t].pc = "protect", ![t].node = hrShared]
    /\ UNCHANGED <<record, activeCount, hrShared, retiredList, hrCollector, hrPast>>

GuardProtect(t) ==
    /\ hrUser[t].pc = "protect"
    /\ record' = [record EXCEPT ![hrUser[t].rec].slot[hrUser[t].slot] = hrUser[t].node]
    /\ hrUser' = Goes(t, "verify")
    /\ UNCHANGED <<activeCount, hrShared, retiredList, hrCollector, hrPast>>

VerifyShared(t) ==
    /\ hrUser[t].pc = "verify"
    /\ hrUser' = Goes(t, IF hrShared = hrUser[t].node THEN "using" ELSE "held")
    /\ UNCHANGED <<record, activeCount, hrShared, retiredList, hrCollector, hrPast>>

\* A thread puts the next node, or none, in the place of the shared one.
Unlink(t) ==
    /\ hrUser[t].pc = "idle" /\ hrShared # 0
    /\ hrUser' = [hrUser EXCEPT ![t].pc = "retire", ![t].node = hrShared]
    /\ LET more == hrPast.published < HrNodes IN
       /\ hrShared' = IF more THEN hrPast.published + 1 ELSE 0
       /\ hrPast' = IF more THEN [hrPast EXCEPT !.published = @ + 1] ELSE hrPast
    /\ UNCHANGED <<record, activeCount, retiredList, hrCollector>>

-----------------------------------------------------------------------------
(* retire and collect, under retire_mutex_.                                   *)

\* get_adaptive_threshold.
HrThreshold == LET n == HrBase + activeCount * HrPerThread IN IF n < HrMax THEN n ELSE HrMax

\* retire: an entry of the same address gives way; whether to collect is decided here.
HrRetire(t) ==
    /\ hrUser[t].pc = "retire" /\ hrCollector = NoScan
    /\ retiredList' = retiredList \cup {hrUser[t].node}
    /\ hrUser' = IF Cardinality(retiredList') >= HrThreshold THEN Goes(t, "collect") ELSE [hrUser EXCEPT ![t] = HrIdle]
    /\ UNCHANGED <<record, activeCount, hrShared, hrCollector, hrPast>>

\* collect takes the mutex again and starts at the head it finds.
HrCollect(t) ==
    /\ hrUser[t].pc = "collect" /\ hrCollector = NoScan
    /\ IF retiredList = {}
       THEN hrUser' = [hrUser EXCEPT ![t] = HrIdle] /\ UNCHANGED hrCollector
       ELSE hrCollector' = [by |-> t, rec |-> Len(record), hazards |-> {}] /\ hrUser' = Goes(t, "slots1")
    /\ UNCHANGED <<record, activeCount, hrShared, retiredList, hrPast>>

\* Mutant: a scan leaves out the last slot of a record.
SlotsScannedShort == {1}

\* The slots that a scan looks at.
SlotsScanned == {1, 2}

ScanRecordSlot(t) ==
    /\ hrUser[t].pc \in {"slots1", "slots2"} /\ hrCollector.rec # 0
    /\ LET s == IF hrUser[t].pc = "slots1" THEN 1 ELSE 2   r == hrCollector.rec IN
       /\ hrCollector' = [hrCollector EXCEPT !.rec = IF s = 2 THEN r - 1 ELSE r,
                             !.hazards = IF s \in SlotsScanned THEN @ \cup ({record[r].slot[s]} \ {0}) ELSE @]
       /\ hrUser' = Goes(t, IF s = 1 THEN "slots2" ELSE "slots1")
    /\ UNCHANGED <<record, activeCount, hrShared, retiredList, hrPast>>

\* The entries that stay: those that some slot holds.
Remaining(hazards) == retiredList \cap hazards

FreeRetired(t) ==
    /\ hrUser[t].pc = "slots1" /\ hrCollector.rec = 0
    /\ hrPast' = [hrPast EXCEPT !.freed = @ \cup (retiredList \ hrCollector.hazards)]
    /\ retiredList' = Remaining(hrCollector.hazards)
    /\ hrCollector' = NoScan /\ hrUser' = [hrUser EXCEPT ![t] = HrIdle]
    /\ UNCHANGED <<record, activeCount, hrShared>>

HrNext ==
    \E t \in HrThreads :
       \/ \E s \in HrSlots : MakeGuard(t, s)
       \/ TakeRecord(t) \/ ClearTaken(t) \/ PushRecord(t) \/ CountTaken(t) \/ DropGuard(t) \/ ReleaseStep(t)
       \/ LoadShared(t) \/ GuardProtect(t) \/ VerifyShared(t) \/ Unlink(t)
       \/ HrRetire(t) \/ HrCollect(t) \/ ScanRecordSlot(t) \/ FreeRetired(t)

HrSpec == HrInit /\ [][HrNext]_hrVars

-----------------------------------------------------------------------------
(* Properties.                                                                *)

\* A node that a guard protects and found still linked afterwards is not freed while the
\* guard lasts, whoever retires it and whenever the scan passes the record.
UsedNodeNotFreed == \A t \in HrThreads : hrUser[t].pc = "using" => hrUser[t].node \notin hrPast.freed

=============================================================================
