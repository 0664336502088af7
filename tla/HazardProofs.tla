----------------------------- MODULE HazardProofs -----------------------------
(***************************************************************************)
(* Proofs about hazard pointers, for any number of threads, nodes and      *)
(* records: a node is kept for as long as it is used.                      *)
(***************************************************************************)
EXTENDS HazardRecords, HazardDomain, TLAPS

---------------------------------------------------------------------------
(* The records of hazard pointers.                                        *)

\* A thread has a record of its own from the compare_exchange to the end of release.
Owning == {"clear1", "clear2", "count", "held", "protect", "verify", "using", "slot1", "slot2", "give"}
HrPlaces == Owning \cup {"idle", "walk", "uncount", "retire", "collect", "slots1", "slots2"}

HrRecords == [active : BOOLEAN, slot : [{1, 2} -> Nat]]
HrPasts == [freed : SUBSET Nat, guards : Nat, published : Nat]
HrUsers == [pc : HrPlaces, rec : Nat, slot : {1, 2}, node : Nat]

HrTyped ==
    /\ record \in Seq(HrRecords)
    /\ hrShared \in Nat
    /\ hrUser \in [HrThreads -> HrUsers]
    /\ retiredList \in SUBSET Nat
    /\ hrCollector \in [by : HrThreads \cup {"nobody"}, rec : Nat, hazards : SUBSET Nat]
    /\ hrPast \in HrPasts

\* The records in use are those of their owners, one each.
RecordsOwned ==
    /\ \A t \in HrThreads : hrUser[t].pc \in Owning =>
          hrUser[t].rec \in 1..Len(record) /\ record[hrUser[t].rec].active
    /\ \A t, u \in HrThreads :
          hrUser[t].pc \in Owning /\ hrUser[u].pc \in Owning /\ t # u => hrUser[t].rec # hrUser[u].rec
    /\ \A t \in HrThreads : hrUser[t].pc = "walk" => hrUser[t].rec <= Len(record)

\* The slot of a guard that protects holds the node.
SlotsHold ==
    \A t \in HrThreads :
        /\ hrUser[t].pc = "protect" => hrUser[t].node # 0
        /\ hrUser[t].pc \in {"verify", "using"} =>
              hrUser[t].node # 0 /\ record[hrUser[t].rec].slot[hrUser[t].slot] = hrUser[t].node

\* The shared node is not on its way out.
SharedIsLinked ==
    /\ hrShared <= hrPast.published
    /\ \A n \in retiredList \cup hrPast.freed : n \notin {0, hrShared} /\ n <= hrPast.published
    /\ \A t \in HrThreads : hrUser[t].pc = "retire" =>
          hrUser[t].node \notin {0, hrShared} /\ hrUser[t].node <= hrPast.published

\* One thread scans, and is where the collector's record says.
OneCollector ==
    /\ \A t \in HrThreads : hrUser[t].pc \in {"slots1", "slots2"} <=> hrCollector.by = t
    /\ hrCollector.rec <= Len(record)
    /\ hrCollector.by = "nobody" => hrCollector = NoScan
    /\ \A t \in HrThreads : hrUser[t].pc = "slots2" => hrCollector.rec # 0

\* A retired node in use is found by the scan, or the scan has yet to come to its slot.
ScanFinds ==
    \A t, u \in HrThreads :
        hrUser[t].pc = "using" /\ hrUser[t].node \in retiredList /\ hrCollector.by = u =>
            \/ hrUser[t].node \in hrCollector.hazards
            \/ hrUser[t].rec < hrCollector.rec
            \/ hrUser[t].rec = hrCollector.rec /\ (hrUser[t].slot = 2 \/ hrUser[u].pc = "slots1")

HrInv == HrTyped /\ RecordsOwned /\ SlotsHold /\ SharedIsLinked /\ OneCollector /\ ScanFinds /\ UsedNodeNotFreed

\* A step in the life of a guard: the thread's own place and its own record change.
LEMMA GuardStep ==
    ASSUME HrInv, NEW t \in HrThreads, NEW r \in HrUsers, hrUser' = [hrUser EXCEPT ![t] = r],
           UNCHANGED <<hrShared, retiredList, hrCollector>>,
           hrPast' \in HrPasts, hrPast'.freed = hrPast.freed, hrPast'.published = hrPast.published,
           record' \in Seq(HrRecords), Len(record') >= Len(record),
           \A u \in HrThreads \ {t} : hrUser[u].pc \in Owning => record'[hrUser[u].rec] = record[hrUser[u].rec],
           hrUser[t].pc \notin {"slots1", "slots2"}, r.pc \notin {"retire", "slots1", "slots2"},
           r.pc \in Owning => /\ r.rec \in 1..Len(record') /\ record'[r.rec].active
                              /\ \A u \in HrThreads \ {t} : hrUser[u].pc \in Owning => hrUser[u].rec # r.rec,
           r.pc = "walk" => r.rec <= Len(record'),
           r.pc \in {"protect", "verify", "using"} => r.node # 0,
           r.pc \in {"verify", "using"} => record'[r.rec].slot[r.slot] = r.node,
           r.pc = "using" => r.node = hrShared
    PROVE  HrInv'
<1> USE DEF HrInv
<1>1. hrUser'[t] = r /\ \A u \in HrThreads \ {t} : hrUser'[u] = hrUser[u]
  BY DEF HrTyped
<1>2. Len(record) \in Nat /\ Len(record') \in Nat /\ \A u \in HrThreads : hrUser[u] \in HrUsers
  BY DEF HrTyped
<1>3. HrTyped'
  BY DEF HrTyped
<1>4. RecordsOwned'
  <2>1. ASSUME NEW u \in HrThreads, hrUser'[u].pc \in Owning
        PROVE  hrUser'[u].rec \in 1..Len(record') /\ record'[hrUser'[u].rec].active
    BY <1>1, <1>2, <2>1 DEF RecordsOwned, HrUsers
  <2>2. ASSUME NEW u \in HrThreads, NEW w \in HrThreads, u # w,
               hrUser'[u].pc \in Owning, hrUser'[w].pc \in Owning
        PROVE  hrUser'[u].rec # hrUser'[w].rec
    BY <1>1, <2>2 DEF RecordsOwned
  <2>3. ASSUME NEW u \in HrThreads, hrUser'[u].pc = "walk" PROVE hrUser'[u].rec <= Len(record')
    BY <1>1, <1>2, <2>3 DEF RecordsOwned, HrUsers
  <2> QED
    BY <2>1, <2>2, <2>3 DEF RecordsOwned
<1>5. SlotsHold'
  BY <1>1 DEF SlotsHold, Owning
<1>6. SharedIsLinked'
  BY <1>1 DEF SharedIsLinked
<1>7. OneCollector'
  <2>1. hrCollector.rec \in Nat
    BY DEF HrTyped
  <2> QED
    BY <1>1, <1>2, <2>1 DEF OneCollector
<1>8. ScanFinds'
  <2> SUFFICES ASSUME NEW u \in HrThreads, NEW w \in HrThreads,
                      hrUser'[u].pc = "using", hrUser'[u].node \in retiredList, hrCollector.by = w
               PROVE  \/ hrUser'[u].node \in hrCollector.hazards
                      \/ hrUser'[u].rec < hrCollector.rec
                      \/ hrUser'[u].rec = hrCollector.rec /\ (hrUser'[u].slot = 2 \/ hrUser'[w].pc = "slots1")
    BY DEF ScanFinds
  <2>1. u # t
    BY <1>1, Zenon DEF SharedIsLinked
  <2>2. w # t
    BY DEF OneCollector
  <2> QED
    BY <1>1, <2>1, <2>2 DEF ScanFinds
<1>9. UsedNodeNotFreed'
  BY <1>1 DEF UsedNodeNotFreed, SharedIsLinked
<1> QED
  BY <1>3, <1>4, <1>5, <1>6, <1>7, <1>8, <1>9

\* The owner of a record writes to it, or leaves it alone, and keeps it.
LEMMA OwnerStep ==
    ASSUME HrInv, NEW t \in HrThreads, NEW r \in HrUsers, NEW q \in HrRecords,
           hrUser[t].pc \in Owning, r.pc \in Owning, r.rec = hrUser[t].rec,
           hrUser' = [hrUser EXCEPT ![t] = r],
           record' = [record EXCEPT ![hrUser[t].rec] = q],
           UNCHANGED <<hrShared, retiredList, hrCollector, hrPast>>,
           q.active,
           r.pc \in {"protect", "verify", "using"} => r.node # 0,
           r.pc \in {"verify", "using"} => q.slot[r.slot] = r.node,
           r.pc = "using" => r.node = hrShared
    PROVE  HrInv'
<1>1. hrUser[t].rec \in 1..Len(record) /\ record \in Seq(HrRecords)
  BY Zenon DEF HrInv, RecordsOwned, HrTyped
<1>2. record' \in Seq(HrRecords) /\ Len(record') = Len(record) /\ record'[r.rec] = q
  BY <1>1
<1>3. \A u \in HrThreads \ {t} : hrUser[u].pc \in Owning =>
          hrUser[u].rec # r.rec /\ hrUser[u].rec \in 1..Len(record)
  BY DEF HrInv, RecordsOwned
<1>4. \A u \in HrThreads \ {t} : hrUser[u].pc \in Owning => record'[hrUser[u].rec] = record[hrUser[u].rec]
  BY <1>1, <1>3
<1>5. Len(record') >= Len(record)
  BY <1>1, <1>2
<1>6. hrUser[t].pc \notin {"slots1", "slots2"} /\ r.pc \notin {"walk", "retire", "slots1", "slots2"}
  BY DEF Owning
<1>7. r.rec \in 1..Len(record') /\ record'[r.rec].active
  BY <1>1, <1>2
<1>8. hrPast' \in HrPasts
  BY DEF HrInv, HrTyped
<1> QED
  BY <1>2, <1>3, <1>4, <1>5, <1>6, <1>7, <1>8, GuardStep, Zenon

\* The life of a guard, from acquire to release: it touches its own record only.
LEMMA GuardsKeep ==
    ASSUME HrInv, NEW t \in HrThreads,
           \/ \E s \in HrSlots : MakeGuard(t, s)
           \/ TakeRecord(t) \/ ClearTaken(t) \/ PushRecord(t) \/ CountTaken(t) \/ DropGuard(t) \/ ReleaseStep(t)
           \/ LoadShared(t) \/ GuardProtect(t) \/ VerifyShared(t)
    PROVE  HrInv'
<1> DEFINE me == hrUser[t]
<1>0. me \in HrUsers /\ hrUser = [hrUser EXCEPT ![t] = me] /\ record \in Seq(HrRecords)
  BY DEF HrInv, HrTyped
<1>r. ASSUME me.pc \in Owning
      PROVE  /\ record[me.rec] \in HrRecords /\ record[me.rec].active
             /\ record = [record EXCEPT ![me.rec] = record[me.rec]]
  BY <1>r, <1>0 DEF HrInv, RecordsOwned
<1>e. ASSUME me.rec \in 1..Len(record) PROVE record[me.rec] \in HrRecords
  BY <1>e, <1>0
<1> USE DEF HrUsers, HrPlaces, Owning, HrRecords
<1>1. ASSUME NEW s \in HrSlots, MakeGuard(t, s) PROVE HrInv'
  <2> DEFINE r == [me EXCEPT !.pc = "walk", !.rec = Len(record), !.slot = s]
  <2>1. /\ hrUser' = [hrUser EXCEPT ![t] = r] /\ UNCHANGED <<record, hrShared, retiredList, hrCollector>>
        /\ hrPast' = [hrPast EXCEPT !.guards = @ + 1] /\ me.pc = "idle"
    BY <1>1, Zenon DEF MakeGuard
  <2>2. hrPast' \in HrPasts /\ hrPast'.freed = hrPast.freed /\ hrPast'.published = hrPast.published
    <3>1. hrPast \in HrPasts /\ hrPast.guards \in Nat
      BY DEF HrInv, HrTyped, HrPasts
    <3> QED
      BY <2>1, <3>1 DEF HrPasts
  <2>3. s \in {1, 2} /\ Len(record) \in Nat
    BY <1>0, HrNames
  <2>4. r \in HrUsers /\ r.pc = "walk" /\ r.rec = Len(record)
    BY <1>0, <2>3, Zenon
  <2> HIDE DEF r
  <2>5. record' = record /\ Len(record') >= Len(record)
    BY <2>1, <2>3
  <2> QED
    BY <1>0, <2>1, <2>2, <2>3, <2>4, <2>5, GuardStep, Zenon
<1>2. ASSUME TakeRecord(t) PROVE HrInv'
  <2>1. /\ me.pc = "walk" /\ me.rec # 0 /\ me.rec \in 1..Len(record)
        /\ UNCHANGED <<hrShared, retiredList, hrCollector, hrPast>> /\ hrPast' \in HrPasts
    BY <1>0, <1>2 DEF TakeRecord, HrInv, RecordsOwned, HrTyped
  <2>2. CASE ~record[me.rec].active
    <3> DEFINE r == [me EXCEPT !.pc = "clear1"]
               q == [record[me.rec] EXCEPT !.active = TRUE]
    <3>1. hrUser' = [hrUser EXCEPT ![t] = r] /\ record' = [record EXCEPT ![me.rec] = q]
      BY <1>2, <2>2 DEF TakeRecord, MayTake, Goes
    <3>2. r \in HrUsers /\ r.pc = "clear1" /\ r.rec = me.rec
      BY <1>0
    <3>3. q \in HrRecords /\ q.active
      <4>1. record[me.rec] \in HrRecords
        BY <1>e, <2>1, Zenon
      <4> QED
        BY <4>1, Zenon
    <3> HIDE DEF r, q
    <3>4. record' \in Seq(HrRecords) /\ Len(record') = Len(record) /\ record'[me.rec] = q
      BY <1>0, <2>1, <3>1, <3>3
    <3>5. \A u \in HrThreads \ {t} : hrUser[u].pc \in Owning =>
              hrUser[u].rec # me.rec /\ hrUser[u].rec \in 1..Len(record)
      BY <2>2, Zenon DEF HrInv, RecordsOwned
    <3>6. \A u \in HrThreads \ {t} : hrUser[u].pc \in Owning => record'[hrUser[u].rec] = record[hrUser[u].rec]
      BY <1>0, <3>1, <3>5
    <3>7. Len(record') >= Len(record)
      BY <1>0, <3>4
    <3>8. r.rec \in 1..Len(record') /\ record'[r.rec].active
      BY <2>1, <3>2, <3>3, <3>4, Zenon
    <3>9. \A u \in HrThreads \ {t} : hrUser[u].pc \in Owning => hrUser[u].rec # r.rec
      BY <3>2, <3>5, Zenon
    <3> QED
      BY <2>1, <3>1, <3>2, <3>4, <3>6, <3>7, <3>8, <3>9, GuardStep, Zenon
  <2>3. CASE record[me.rec].active
    <3> DEFINE r == [me EXCEPT !.rec = @ - 1]
    <3>1. hrUser' = [hrUser EXCEPT ![t] = r] /\ record' = record
      BY <1>2, <2>3 DEF TakeRecord, MayTake
    <3>2. r \in HrUsers /\ r.pc = "walk" /\ r.rec <= Len(record) /\ Len(record') >= Len(record)
      <4>1. Len(record) \in Nat /\ me.rec - 1 \in Nat /\ me.rec - 1 <= Len(record)
        BY <1>0, <2>1
      <4>2. Len(record') >= Len(record)
        BY <3>1, <4>1
      <4>3. r.pc = "walk" /\ r.rec = me.rec - 1 /\ r.slot = me.slot /\ r.node = me.node
        BY <1>0, <2>1
      <4>4. r \in HrUsers
        BY <1>0, <4>1, Zenon
      <4> HIDE DEF r
      <4> QED
        BY <4>1, <4>2, <4>3, <4>4, Zenon
    <3> HIDE DEF r
    <3> QED
      BY <1>0, <2>1, <3>1, <3>2, GuardStep, Zenon
  <2> QED
    BY <2>2, <2>3
<1>3. ASSUME ClearTaken(t) PROVE HrInv'
  <2>1. PICK s \in {1, 2}, p \in {"clear2", "count"} :
            /\ hrUser[t].pc \in {"clear1", "clear2"} /\ ClearSlot(t, s) /\ hrUser' = Goes(t, p)
            /\ UNCHANGED <<hrShared, retiredList, hrCollector, hrPast>>
    BY <1>3, Zenon DEF ClearTaken
  <2> DEFINE r == [me EXCEPT !.pc = p]
             q == [record[me.rec] EXCEPT !.slot[s] = 0]
  <2>2. hrUser' = [hrUser EXCEPT ![t] = r] /\ record' = [record EXCEPT ![me.rec] = q]
    BY <2>1 DEF Goes, ClearSlot
  <2>3. r \in HrUsers /\ r.pc = p /\ r.rec = me.rec
    BY <1>0
  <2>4. q \in HrRecords /\ q.active
    BY <2>1, <1>r
  <2> HIDE DEF r, q
  <2> QED
    BY <2>1, <2>2, <2>3, <2>4, OwnerStep, Zenon
<1>4. ASSUME PushRecord(t) PROVE HrInv'
  <2> DEFINE r == [me EXCEPT !.pc = "count", !.rec = Len(record) + 1]
             q == [active |-> TRUE, slot |-> [s \in {1, 2} |-> 0]]
  <2>1. /\ hrUser' = [hrUser EXCEPT ![t] = r] /\ record' = Append(record, q) /\ me.pc = "walk"
        /\ UNCHANGED <<hrShared, retiredList, hrCollector, hrPast>> /\ hrPast' \in HrPasts
    BY <1>4, Zenon DEF PushRecord, HrInv, HrTyped
  <2>2. Len(record) \in Nat /\ Len(record) + 1 \in Nat
    BY <1>0
  <2>3. r \in HrUsers /\ r.pc = "count" /\ r.rec = Len(record) + 1
    BY <1>0, <2>2, Zenon
  <2>4. q \in HrRecords /\ q.active
    OBVIOUS
  <2> HIDE DEF r, q
  <2>5. /\ record' \in Seq(HrRecords) /\ Len(record') = Len(record) + 1
        /\ record'[Len(record) + 1] = q /\ \A i \in 1..Len(record) : record'[i] = record[i]
    BY <1>0, <2>1, <2>4
  <2>6. \A u \in HrThreads \ {t} : hrUser[u].pc \in Owning => hrUser[u].rec \in 1..Len(record)
    BY Zenon DEF HrInv, RecordsOwned
  <2>7. \A u \in HrThreads \ {t} : hrUser[u].pc \in Owning => hrUser[u].rec # r.rec
    BY <2>2, <2>3, <2>6
  <2>8. r.rec \in 1..Len(record') /\ record'[r.rec].active /\ Len(record') >= Len(record)
    BY <2>2, <2>3, <2>4, <2>5
  <2>9. \A u \in HrThreads \ {t} : hrUser[u].pc \in Owning => record'[hrUser[u].rec] = record[hrUser[u].rec]
    BY <2>5, <2>6, Zenon
  <2> QED
    BY <2>1, <2>3, <2>5, <2>7, <2>8, <2>9, GuardStep, Zenon
<1>5. ASSUME CountTaken(t) \/ DropGuard(t) PROVE HrInv'
  <2> DEFINE r == [me EXCEPT !.pc = IF me.pc = "count" THEN "held" ELSE "slot1"]
             q == record[me.rec]
  <2>1. /\ hrUser' = [hrUser EXCEPT ![t] = r] /\ UNCHANGED <<record, hrShared, retiredList, hrCollector, hrPast>>
        /\ me.pc \in {"count", "held", "using"}
    BY <1>5 DEF CountTaken, DropGuard, Goes
  <2>2. r \in HrUsers /\ r.pc \in {"held", "slot1"} /\ r.rec = me.rec
    BY <1>0
  <2>3. q \in HrRecords /\ q.active /\ record' = [record EXCEPT ![me.rec] = q]
    BY <2>1, <1>r
  <2> HIDE DEF r, q
  <2> QED
    BY <2>1, <2>2, <2>3, OwnerStep, Zenon
<1>6. ASSUME ReleaseStep(t) PROVE HrInv'
  <2>1. CASE me.pc \in {"slot1", "slot2"}
    <3>1. PICK s \in {1, 2}, p \in {"slot2", "give"} : ClearSlot(t, s) /\ hrUser' = Goes(t, p)
      BY <1>6, <2>1 DEF ReleaseStep
    <3> DEFINE r == [me EXCEPT !.pc = p]
               q == [record[me.rec] EXCEPT !.slot[s] = 0]
    <3>2. hrUser' = [hrUser EXCEPT ![t] = r] /\ record' = [record EXCEPT ![me.rec] = q]
      BY <3>1 DEF Goes, ClearSlot
    <3>3. r \in HrUsers /\ r.pc = p /\ r.rec = me.rec
      BY <1>0
    <3>4. q \in HrRecords /\ q.active
      BY <2>1, <1>r
    <3>5. UNCHANGED <<hrShared, retiredList, hrCollector, hrPast>>
      BY <1>6 DEF ReleaseStep
    <3> HIDE DEF r, q
    <3> QED
      BY <2>1, <3>2, <3>3, <3>4, <3>5, OwnerStep, Zenon
  <2>2. CASE me.pc = "give"
    <3> DEFINE r == [me EXCEPT !.pc = "uncount"]
               q == [record[me.rec] EXCEPT !.active = FALSE]
    <3>1. /\ hrUser' = [hrUser EXCEPT ![t] = r] /\ record' = [record EXCEPT ![me.rec] = q]
          /\ UNCHANGED <<hrShared, retiredList, hrCollector, hrPast>> /\ hrPast' \in HrPasts
      BY <1>6, <2>2 DEF ReleaseStep, Goes, HrInv, HrTyped
    <3>2. r \in HrUsers /\ r.pc = "uncount"
      BY <1>0
    <3>3. q \in HrRecords /\ me.rec \in 1..Len(record)
      BY <1>r, <2>2, Zenon DEF HrInv, RecordsOwned
    <3> HIDE DEF r, q
    <3>4. record' \in Seq(HrRecords) /\ Len(record') = Len(record)
      BY <1>0, <3>1, <3>3
    <3>5. \A u \in HrThreads \ {t} : hrUser[u].pc \in Owning =>
              hrUser[u].rec # me.rec /\ hrUser[u].rec \in 1..Len(record)
      BY <2>2, Zenon DEF HrInv, RecordsOwned
    <3>6. \A u \in HrThreads \ {t} : hrUser[u].pc \in Owning => record'[hrUser[u].rec] = record[hrUser[u].rec]
      BY <1>0, <3>1, <3>5
    <3>7. Len(record') >= Len(record)
      BY <1>0, <3>4
    <3> QED
      BY <2>2, <3>1, <3>2, <3>4, <3>6, <3>7, GuardStep, Zenon
  <2>3. CASE me.pc = "uncount"
    <3>1. /\ hrUser' = [hrUser EXCEPT ![t] = HrIdle] /\ record' = record
          /\ UNCHANGED <<hrShared, retiredList, hrCollector, hrPast>> /\ hrPast' \in HrPasts
      BY <1>6, <2>3 DEF ReleaseStep, HrInv, HrTyped
    <3>2. HrIdle \in HrUsers /\ HrIdle.pc = "idle"
      BY DEF HrIdle
    <3>3. Len(record') >= Len(record)
      BY <1>0, <3>1
    <3> QED
      BY <1>0, <2>3, <3>1, <3>2, <3>3, GuardStep, Zenon
  <2> QED
    BY <1>6, <2>1, <2>2, <2>3 DEF ReleaseStep
<1>7. ASSUME LoadShared(t) PROVE HrInv'
  <2> DEFINE r == [me EXCEPT !.pc = "protect", !.node = hrShared]
             q == record[me.rec]
  <2>1. /\ hrUser' = [hrUser EXCEPT ![t] = r] /\ UNCHANGED <<record, hrShared, retiredList, hrCollector, hrPast>>
        /\ me.pc = "held" /\ hrShared # 0
    BY <1>7, Zenon DEF LoadShared
  <2>2. r \in HrUsers /\ r.pc = "protect" /\ r.rec = me.rec /\ r.node = hrShared
    BY <1>0, Zenon DEF HrInv, HrTyped
  <2>3. q \in HrRecords /\ q.active /\ record' = [record EXCEPT ![me.rec] = q]
    BY <2>1, <1>r
  <2> HIDE DEF r, q
  <2> QED
    BY <2>1, <2>2, <2>3, OwnerStep, Zenon
<1>8. ASSUME GuardProtect(t) PROVE HrInv'
  <2> DEFINE r == [me EXCEPT !.pc = "verify"]
             q == [record[me.rec] EXCEPT !.slot[me.slot] = me.node]
  <2>1. /\ hrUser' = [hrUser EXCEPT ![t] = r] /\ record' = [record EXCEPT ![me.rec] = q]
        /\ UNCHANGED <<hrShared, retiredList, hrCollector, hrPast>> /\ me.pc = "protect"
    BY <1>8 DEF GuardProtect, Goes
  <2>2. r \in HrUsers /\ r.pc = "verify" /\ r.rec = me.rec /\ r.node = me.node /\ r.slot = me.slot
    BY <1>0
  <2>3. q \in HrRecords /\ q.active /\ q.slot[me.slot] = me.node
    BY <2>1, <1>r, <1>0, Zenon
  <2>4. me.node # 0
    BY <2>1 DEF HrInv, SlotsHold
  <2> HIDE DEF r, q
  <2> QED
    BY <2>1, <2>2, <2>3, <2>4, OwnerStep, Zenon
<1>9. ASSUME VerifyShared(t) PROVE HrInv'
  <2> DEFINE r == [me EXCEPT !.pc = IF hrShared = me.node THEN "using" ELSE "held"]
             q == record[me.rec]
  <2>1. /\ hrUser' = [hrUser EXCEPT ![t] = r] /\ UNCHANGED <<record, hrShared, retiredList, hrCollector, hrPast>>
        /\ me.pc = "verify"
    BY <1>9 DEF VerifyShared, Goes
  <2>2. /\ r \in HrUsers /\ r.pc \in {"using", "held"} /\ r.rec = me.rec /\ r.node = me.node /\ r.slot = me.slot
        /\ r.pc = "using" => me.node = hrShared
    BY <1>0
  <2>3. q \in HrRecords /\ q.active /\ record' = [record EXCEPT ![me.rec] = q]
    BY <2>1, <1>r
  <2>4. me.node # 0 /\ q.slot[me.slot] = me.node
    BY <2>1 DEF HrInv, SlotsHold
  <2> HIDE DEF r, q
  <2> QED
    BY <2>1, <2>2, <2>3, <2>4, OwnerStep, Zenon
<1> QED
  BY <1>1, <1>2, <1>3, <1>4, <1>5, <1>6, <1>7, <1>8, <1>9

-----------------------------------------------------------------------------
(* Steps that leave the records alone.                                        *)

\* A thread without a guard moves on, the records stay as they are.
LEMMA OutsideStep ==
    ASSUME HrInv, NEW t \in HrThreads, NEW r \in HrUsers, hrUser' = [hrUser EXCEPT ![t] = r],
           UNCHANGED record, r.pc \notin Owning \cup {"walk"}
    PROVE  /\ hrUser'[t] = r /\ \A u \in HrThreads \ {t} : hrUser'[u] = hrUser[u]
           /\ RecordsOwned' /\ SlotsHold'
<1>1. hrUser'[t] = r /\ \A u \in HrThreads \ {t} : hrUser'[u] = hrUser[u]
  BY DEF HrInv, HrTyped
<1>2. RecordsOwned'
  BY <1>1 DEF HrInv, RecordsOwned
<1>3. SlotsHold'
  BY <1>1 DEF HrInv, SlotsHold, Owning
<1> QED
  BY <1>1, <1>2, <1>3

\* A node is taken out of the structure before it is retired.
LEMMA UnlinkKeeps == ASSUME HrInv, NEW t \in HrThreads, Unlink(t) PROVE HrInv'
<1> USE DEF HrInv
<1> DEFINE r == [hrUser[t] EXCEPT !.pc = "retire", !.node = hrShared]
           p == hrPast'.published
<1>1. /\ hrUser' = [hrUser EXCEPT ![t] = r] /\ UNCHANGED <<record, retiredList, hrCollector>>
      /\ hrUser[t].pc = "idle" /\ hrShared # 0
  BY Zenon DEF Unlink
<1>2. r \in HrUsers /\ r.pc = "retire" /\ r.node = hrShared
  BY Zenon DEF HrTyped, HrUsers, HrPlaces
<1> HIDE DEF r
<1>3. hrPast.published \in Nat /\ hrPast \in HrPasts /\ hrShared \in Nat /\ hrShared <= hrPast.published
  BY DEF HrTyped, HrPasts, SharedIsLinked
<1>4. /\ hrPast' \in HrPasts /\ hrPast'.freed = hrPast.freed /\ p \in Nat /\ p >= hrPast.published
      /\ hrShared' \in Nat /\ (hrShared' = 0 \/ hrShared' > hrPast.published) /\ hrShared' <= p
  <2>1. CASE hrPast.published < HrNodes
    BY <1>3, <2>1 DEF Unlink, HrPasts
  <2>2. CASE ~(hrPast.published < HrNodes)
    BY <1>3, <2>2 DEF Unlink, HrPasts
  <2> QED
    BY <2>1, <2>2
<1>5. /\ hrUser'[t] = r /\ \A u \in HrThreads \ {t} : hrUser'[u] = hrUser[u]
      /\ RecordsOwned' /\ SlotsHold'
  BY <1>1, <1>2, OutsideStep, Zenon DEF Owning
<1>6. HrTyped'
  BY <1>1, <1>2, <1>4 DEF HrTyped
<1>7. SharedIsLinked'
  <2>1. \A n \in retiredList \cup hrPast.freed : n \in Nat /\ n # 0 /\ n <= hrPast.published
    BY DEF HrTyped, HrPasts, SharedIsLinked
  <2>2. \A n \in (retiredList \cup hrPast.freed)' : n \notin {0, hrShared'} /\ n <= p
    BY <1>1, <1>3, <1>4, <2>1
  <2>3. ASSUME NEW u \in HrThreads, hrUser'[u].pc = "retire"
        PROVE  hrUser'[u].node \notin {0, hrShared'} /\ hrUser'[u].node <= p
    <3>1. CASE u = t
      BY <1>1, <1>2, <1>3, <1>4, <1>5, <3>1
    <3>2. CASE u # t
      <4>1. hrUser'[u] = hrUser[u] /\ hrUser[u].node \in Nat
        BY <1>5, <3>2 DEF HrTyped, HrUsers
      <4>2. hrUser[u].node # 0 /\ hrUser[u].node <= hrPast.published
        BY <2>3, <4>1 DEF SharedIsLinked
      <4> QED
        BY <1>3, <1>4, <4>1, <4>2
    <3> QED
      BY <3>1, <3>2
  <2> QED
    BY <1>4, <2>2, <2>3 DEF SharedIsLinked
<1>8. OneCollector'
  BY <1>1, <1>2, <1>5 DEF OneCollector
<1>9. ScanFinds'
  BY <1>1, <1>2, <1>5 DEF ScanFinds, OneCollector
<1>10. UsedNodeNotFreed'
  BY <1>1, <1>2, <1>4, <1>5, Zenon DEF UsedNodeNotFreed
<1> QED
  BY <1>5, <1>6, <1>7, <1>8, <1>9, <1>10

\* retire: the node joins the list of the retired.
LEMMA RetireKeeps == ASSUME HrInv, NEW t \in HrThreads, HrRetire(t) PROVE HrInv'
<1> USE DEF HrInv
<1>1. PICK r \in {[hrUser[t] EXCEPT !.pc = "collect"], HrIdle} : hrUser' = [hrUser EXCEPT ![t] = r]
  BY DEF HrRetire, Goes
<1>2. r \in HrUsers /\ r.pc \in {"collect", "idle"}
  <2>1. HrIdle \in HrUsers /\ HrIdle.pc = "idle"
    BY DEF HrIdle, HrUsers, HrPlaces
  <2>2. [hrUser[t] EXCEPT !.pc = "collect"] \in HrUsers /\ [hrUser[t] EXCEPT !.pc = "collect"].pc = "collect"
    BY DEF HrTyped, HrUsers, HrPlaces
  <2> QED
    BY <2>1, <2>2, Zenon
<1>3. /\ UNCHANGED <<record, hrShared, hrCollector, hrPast>> /\ hrUser[t].pc = "retire"
      /\ hrCollector = NoScan /\ retiredList' = retiredList \cup {hrUser[t].node}
  BY DEF HrRetire
<1>4. /\ hrUser'[t] = r /\ \A u \in HrThreads \ {t} : hrUser'[u] = hrUser[u]
      /\ RecordsOwned' /\ SlotsHold'
  BY <1>1, <1>2, <1>3, OutsideStep, Zenon DEF Owning
<1>5. HrTyped'
  BY <1>1, <1>2, <1>3 DEF HrTyped, HrUsers
<1>6. SharedIsLinked'
  BY <1>2, <1>3, <1>4 DEF SharedIsLinked
<1>7. OneCollector'
  BY <1>2, <1>3, <1>4 DEF OneCollector
<1>8. ScanFinds'
  BY <1>3, HrNames DEF ScanFinds, NoScan
<1>9. UsedNodeNotFreed'
  BY <1>2, <1>3, <1>4 DEF UsedNodeNotFreed
<1> QED
  BY <1>4, <1>5, <1>6, <1>7, <1>8, <1>9

\* A collection begins when there is no other.
LEMMA CollectKeeps == ASSUME HrInv, NEW t \in HrThreads, HrCollect(t) PROVE HrInv'
<1> USE DEF HrInv
<1>1. /\ UNCHANGED <<record, hrShared, retiredList, hrPast>> /\ hrUser[t].pc = "collect" /\ hrCollector = NoScan
  BY DEF HrCollect
<1>2. CASE retiredList = {}
  <2>1. hrUser' = [hrUser EXCEPT ![t] = HrIdle] /\ UNCHANGED hrCollector
    BY <1>2 DEF HrCollect
  <2>2. HrIdle \in HrUsers /\ HrIdle.pc = "idle"
    BY DEF HrIdle, HrUsers, HrPlaces
  <2>3. /\ hrUser'[t] = HrIdle /\ \A u \in HrThreads \ {t} : hrUser'[u] = hrUser[u]
        /\ RecordsOwned' /\ SlotsHold'
    BY <1>1, <2>1, <2>2, OutsideStep, Zenon DEF Owning
  <2>4. HrTyped'
    BY <1>1, <2>1, <2>2 DEF HrTyped
  <2>5. SharedIsLinked' /\ OneCollector' /\ UsedNodeNotFreed'
    BY <1>1, <2>1, <2>2, <2>3 DEF SharedIsLinked, OneCollector, UsedNodeNotFreed
  <2>6. ScanFinds'
    BY <1>1, <1>2, Zenon DEF ScanFinds
  <2> QED
    BY <2>3, <2>4, <2>5, <2>6
<1>3. CASE retiredList # {}
  <2> DEFINE r == [hrUser[t] EXCEPT !.pc = "slots1"]
  <2>1. hrUser' = [hrUser EXCEPT ![t] = r] /\ hrCollector' = [by |-> t, rec |-> Len(record), hazards |-> {}]
    BY <1>3 DEF HrCollect, Goes
  <2>2. r \in HrUsers /\ r.pc = "slots1"
    BY Zenon DEF HrTyped, HrUsers, HrPlaces
  <2> HIDE DEF r
  <2>3. /\ hrUser'[t] = r /\ \A u \in HrThreads \ {t} : hrUser'[u] = hrUser[u]
        /\ RecordsOwned' /\ SlotsHold'
    BY <1>1, <2>1, <2>2, OutsideStep, Zenon DEF Owning
  <2>4. Len(record) \in Nat /\ Len(record') = Len(record)
    BY <1>1 DEF HrTyped
  <2>5. HrTyped'
    BY <1>1, <2>1, <2>2, <2>4 DEF HrTyped
  <2>6. SharedIsLinked' /\ UsedNodeNotFreed'
    BY <1>1, <2>2, <2>3 DEF SharedIsLinked, UsedNodeNotFreed
  <2>7. OneCollector'
    <3>1. \A u \in HrThreads : hrUser[u].pc \notin {"slots1", "slots2"}
      BY <1>1, HrNames, Zenon DEF OneCollector, NoScan
    <3> QED
      BY <2>1, <2>2, <2>3, <2>4, <3>1, HrNames DEF OneCollector
  <2>8. ScanFinds'
    <3> SUFFICES ASSUME NEW u \in HrThreads, hrUser'[u].pc = "using"
                 PROVE  hrUser'[u].rec <= Len(record)
      BY <2>1, <2>2, <2>3, <2>4, <2>5 DEF ScanFinds, HrTyped, HrUsers
    <3> QED
      BY <2>3, <2>4 DEF RecordsOwned, Owning
  <2> QED
    BY <2>3, <2>5, <2>6, <2>7, <2>8
<1> QED
  BY <1>2, <1>3

\* The scan reads one slot: what it passes by has no guard of a node that waits to be freed.
LEMMA ScanKeeps == ASSUME HrInv, NEW t \in HrThreads, ScanRecordSlot(t) PROVE HrInv'
<1> USE DEF HrInv
<1> DEFINE s == IF hrUser[t].pc = "slots1" THEN 1 ELSE 2
           c == hrCollector.rec
           d == IF s = 2 THEN c - 1 ELSE c
           r == [hrUser[t] EXCEPT !.pc = IF s = 1 THEN "slots2" ELSE "slots1"]
           H == hrCollector.hazards \cup ({record[c].slot[s]} \ {0})
<1>1. /\ hrUser' = [hrUser EXCEPT ![t] = r] /\ UNCHANGED <<record, hrShared, retiredList, hrPast>>
      /\ hrCollector' = [hrCollector EXCEPT !.rec = d, !.hazards = H]
  BY DEF ScanRecordSlot, Goes, SlotsScanned
<1>2. /\ hrUser[t].pc \in {"slots1", "slots2"} /\ hrCollector.by = t
      /\ c \in 1..Len(record) /\ Len(record) \in Nat /\ s \in {1, 2}
  BY DEF ScanRecordSlot, OneCollector, HrTyped
<1>3. r \in HrUsers /\ r.pc = (IF s = 1 THEN "slots2" ELSE "slots1")
  BY Zenon DEF HrTyped, HrUsers, HrPlaces
<1>4. record[c].slot[s] \in Nat
  <2>1. record[c] \in HrRecords
    BY <1>2 DEF HrTyped
  <2> QED
    BY <1>2, <2>1, Zenon DEF HrRecords
<1>5. d \in 0..c /\ H \in SUBSET Nat
  <2>1. hrCollector.hazards \in SUBSET Nat
    BY DEF HrTyped
  <2> QED
    BY <1>2, <1>4, <2>1
<1> HIDE DEF H, r
<1>6. /\ hrCollector' \in [by : HrThreads \cup {"nobody"}, rec : Nat, hazards : SUBSET Nat]
      /\ hrCollector'.by = t /\ hrCollector'.rec = d /\ hrCollector'.hazards = H
  <2>1. hrCollector \in [by : HrThreads \cup {"nobody"}, rec : Nat, hazards : SUBSET Nat] /\ d \in Nat
    BY <1>2, <1>5 DEF HrTyped
  <2> HIDE DEF d
  <2> QED
    BY <1>1, <1>2, <1>5, <2>1, Zenon
<1>7. /\ hrUser'[t] = r /\ \A u \in HrThreads \ {t} : hrUser'[u] = hrUser[u]
      /\ RecordsOwned' /\ SlotsHold'
  BY <1>1, <1>3, OutsideStep, Zenon DEF Owning
<1>8. HrTyped'
  BY <1>1, <1>3, <1>6 DEF HrTyped
<1>9. SharedIsLinked' /\ UsedNodeNotFreed'
  BY <1>1, <1>3, <1>7 DEF SharedIsLinked, UsedNodeNotFreed
<1>10. OneCollector'
  <2>1. \A u \in HrThreads \ {t} : hrUser'[u].pc \notin {"slots1", "slots2"}
    BY <1>2, <1>7 DEF OneCollector
  <2> QED
    <3>1. hrCollector'.rec <= Len(record') /\ hrCollector'.by = t /\ t # "nobody"
      BY <1>1, <1>2, <1>5, <1>6, HrNames
    <3>2. hrUser'[t].pc \in {"slots1", "slots2"} /\ (hrUser'[t].pc = "slots2" => hrCollector'.rec # 0)
      BY <1>2, <1>3, <1>6, <1>7
    <3> QED
      BY <2>1, <3>1, <3>2 DEF OneCollector
<1>11. ScanFinds'
  <2> SUFFICES ASSUME NEW u \in HrThreads, hrUser'[u].pc = "using", hrUser'[u].node \in retiredList
               PROVE  \/ hrUser'[u].node \in H
                      \/ hrUser'[u].rec < d
                      \/ hrUser'[u].rec = d /\ (hrUser'[u].slot = 2 \/ hrUser'[t].pc = "slots1")
    <3> HIDE DEF d
    <3> QED
      BY <1>1, <1>6 DEF ScanFinds
  <2>1. u # t /\ hrUser'[u] = hrUser[u] /\ hrUser[u].rec \in Nat /\ hrUser[u].slot \in {1, 2}
    BY <1>3, <1>7 DEF HrTyped, HrUsers
  <2>2. hrUser[u].node # 0 /\ record[hrUser[u].rec].slot[hrUser[u].slot] = hrUser[u].node
    BY <2>1 DEF SlotsHold
  <2>3. \/ hrUser[u].node \in hrCollector.hazards
        \/ hrUser[u].rec < c
        \/ hrUser[u].rec = c /\ (hrUser[u].slot = 2 \/ s = 1)
    BY <1>2, <2>1 DEF ScanFinds
  <2>4. CASE hrUser[u].rec = c /\ hrUser[u].slot = s
    BY <2>1, <2>2, <2>4, Zenon DEF H
  <2>5. CASE hrUser[u].node \in hrCollector.hazards
    BY <2>1, <2>5, Zenon DEF H
  <2>6. CASE hrUser[u].rec < c \/ (hrUser[u].rec = c /\ hrUser[u].slot = 2 /\ s = 1)
    BY <1>2, <1>3, <1>7, <2>1, <2>6
  <2> QED
    BY <1>2, <2>1, <2>3, <2>4, <2>5, <2>6, Zenon
<1> QED
  BY <1>7, <1>8, <1>9, <1>10, <1>11

\* The end of a collection: the retired nodes that the scan did not find are freed.
LEMMA FreeKeeps == ASSUME HrInv, NEW t \in HrThreads, FreeRetired(t) PROVE HrInv'
<1> USE DEF HrInv
<1> DEFINE F == retiredList \ hrCollector.hazards
<1>1. /\ hrUser' = [hrUser EXCEPT ![t] = HrIdle] /\ UNCHANGED <<record, hrShared>>
      /\ retiredList' = retiredList \cap hrCollector.hazards /\ hrCollector' = NoScan
      /\ hrUser[t].pc = "slots1" /\ hrCollector.rec = 0 /\ hrCollector.by = t
      /\ hrPast' = [hrPast EXCEPT !.freed = @ \cup F]
  BY DEF FreeRetired, Remaining, OneCollector
<1>2. HrIdle \in HrUsers /\ HrIdle.pc = "idle"
  BY DEF HrIdle, HrUsers, HrPlaces
<1>3. /\ hrUser'[t] = HrIdle /\ \A u \in HrThreads \ {t} : hrUser'[u] = hrUser[u]
      /\ RecordsOwned' /\ SlotsHold'
  BY <1>1, <1>2, OutsideStep, Zenon DEF Owning
<1>4. hrPast' \in HrPasts /\ hrPast'.freed = hrPast.freed \cup F /\ hrPast'.published = hrPast.published
  BY <1>1 DEF HrTyped, HrPasts
<1>5. HrTyped'
  BY <1>1, <1>2, <1>4 DEF HrTyped, NoScan
<1>6. SharedIsLinked'
  BY <1>1, <1>2, <1>3, <1>4 DEF SharedIsLinked
<1>7. OneCollector'
  <2>1. \A u \in HrThreads : hrUser'[u].pc \notin {"slots1", "slots2"}
    BY <1>1, <1>2, <1>3 DEF OneCollector
  <2>2. Len(record') \in Nat
    BY <1>5 DEF HrTyped
  <2> QED
    BY <1>1, <2>1, <2>2, HrNames DEF OneCollector, NoScan
<1>8. ScanFinds'
  BY <1>1, HrNames DEF ScanFinds, NoScan
<1>9. UsedNodeNotFreed'
  <2> SUFFICES ASSUME NEW u \in HrThreads, hrUser'[u].pc = "using" PROVE hrUser'[u].node \notin hrPast.freed \cup F
    BY <1>4 DEF UsedNodeNotFreed
  <2>1. u # t /\ hrUser'[u] = hrUser[u]
    BY <1>2, <1>3
  <2>2. hrUser[u].rec \in 1..Len(record)
    BY <2>1 DEF RecordsOwned, Owning
  <2>3. hrUser[u].node \in retiredList => hrUser[u].node \in hrCollector.hazards
    BY <1>1, <2>1, <2>2 DEF ScanFinds
  <2> QED
    BY <2>1, <2>3 DEF UsedNodeNotFreed
<1> QED
  BY <1>3, <1>5, <1>6, <1>7, <1>8, <1>9

\* safe_hazard_guard, for any number of threads, nodes and records and any thresholds: a node
\* that a guard protects, and that its user found linked afterwards, is not freed by any
\* collection before the guard ends.
THEOREM GuardedNodesSurvive == HrSpec => []UsedNodeNotFreed
<1>1. HrInit => HrInv
  <2> SUFFICES ASSUME HrInit PROVE HrInv
    OBVIOUS
  <2>1. HrIdle \in HrUsers /\ HrIdle.pc = "idle" /\ \A t \in HrThreads : hrUser[t] = HrIdle
    BY DEF HrInit, HrIdle, HrUsers, HrPlaces
  <2>2. hrPast \in HrPasts /\ hrPast.freed = {} /\ hrPast.published = 1
    BY Zenon DEF HrInit, HrPasts
  <2>3. HrTyped
    BY <2>1, <2>2 DEF HrInit, HrTyped, NoScan
  <2>4. RecordsOwned /\ SlotsHold /\ UsedNodeNotFreed /\ ScanFinds
    BY <2>1 DEF RecordsOwned, SlotsHold, UsedNodeNotFreed, ScanFinds, Owning
  <2>5. SharedIsLinked /\ OneCollector
    BY <2>1, <2>2, HrNames DEF HrInit, SharedIsLinked, OneCollector, NoScan
  <2> QED
    BY <2>3, <2>4, <2>5 DEF HrInv
<1>2. HrInv /\ [HrNext]_hrVars => HrInv'
  <2> SUFFICES ASSUME HrInv, [HrNext]_hrVars PROVE HrInv'
    OBVIOUS
  <2>1. CASE UNCHANGED hrVars
    <3>1. HrTyped' /\ RecordsOwned'
      BY <2>1, Zenon DEF hrVars, HrInv, HrTyped, RecordsOwned
    <3>2. SlotsHold' /\ SharedIsLinked'
      BY <2>1, Zenon DEF hrVars, HrInv, SlotsHold, SharedIsLinked
    <3>3. OneCollector' /\ ScanFinds'
      BY <2>1, Zenon DEF hrVars, HrInv, OneCollector, ScanFinds
    <3>4. UsedNodeNotFreed'
      BY <2>1, Zenon DEF hrVars, HrInv, UsedNodeNotFreed
    <3> QED
      BY <3>1, <3>2, <3>3, <3>4, Zenon DEF HrInv
  <2>2. CASE HrNext
    BY <2>2, GuardsKeep, UnlinkKeeps, RetireKeeps, CollectKeeps, ScanKeeps, FreeKeeps DEF HrNext
  <2> QED
    BY <2>1, <2>2
<1>3. HrInv => UsedNodeNotFreed
  BY DEF HrInv
<1> QED
  BY <1>1, <1>2, <1>3, PTL DEF HrSpec

---------------------------------------------------------------------------
(* The typed domain of hazard pointers.                                   *)

HdPlaces == {"rest", "protect", "verify", "use", "reset", "scan", "orphans"}
HdStates ==
    [at : HdPlaces, node : Nat, todo : SUBSET HdThreads, found : SUBSET Nat, ending : BOOLEAN, young : SUBSET Nat]

HdTyped ==
    /\ here \in Nat \ {0} /\ hazard \in [HdThreads -> Nat] /\ hd \in [HdThreads -> HdStates]
    /\ retiredBy \in [HdThreads -> SUBSET Nat] /\ orphans \in SUBSET Nat /\ freed \in SUBSET Nat
    /\ hdPast \in BOOLEAN

\* What was retired is older than what the shared pointer holds.
RetiredAreOld ==
    /\ \A t \in HdThreads : \A n \in retiredBy[t] : n < here
    /\ \A n \in orphans \cup freed : n < here

\* The slot of a reader that has protected holds its node.
SlotHolds ==
    \A t \in HdThreads :
        /\ hd[t].at \in {"protect", "verify", "use"} => hd[t].node # 0
        /\ hd[t].at \in {"verify", "use"} => hazard[t] = hd[t].node

\* What the scan of this thread decides about: its own list, and the orphans that were there.
Judged(t) == retiredBy[t] \cup (orphans \ hd[t].young)

\* A scan has found what the entries behind it protect.
ScanHasFound ==
    \A t, u \in HdThreads :
        hd[t].at \in {"scan", "orphans"} /\ hd[u].at = "use" =>
            \/ u \in hd[t].todo /\ hd[t].at = "scan"
            \/ hd[u].node \in hd[t].found
            \/ hd[u].node \notin Judged(t)

HdInv == HdTyped /\ RetiredAreOld /\ SlotHolds /\ ScanHasFound /\ ProtectedSparedByScan

\* A step of one reader that leaves the lists alone and does not begin to use a node.
LEMMA ReaderStep ==
    ASSUME HdInv, NEW t \in HdThreads, NEW r \in HdStates, hd' = [hd EXCEPT ![t] = r],
           NEW h \in Nat, hazard' = [hazard EXCEPT ![t] = h],
           UNCHANGED <<here, retiredBy, orphans, freed, hdPast>>,
           r.at \in {"protect", "verify", "use"} => r.node # 0,
           r.at \in {"verify", "use"} => h = r.node,
           r.at = "use" => r.node = here,
           r.at \in {"scan", "orphans"} =>
               \A u \in HdThreads \ {t} : hd[u].at = "use" =>
                   \/ u \in r.todo /\ r.at = "scan"
                   \/ hd[u].node \in r.found
                   \/ hd[u].node \notin retiredBy[t] \cup (orphans \ r.young)
    PROVE  HdInv'
<1> USE DEF HdInv
<1>1. /\ hd'[t] = r /\ \A u \in HdThreads \ {t} : hd'[u] = hd[u]
      /\ hazard'[t] = h /\ \A u \in HdThreads \ {t} : hazard'[u] = hazard[u]
  BY DEF HdTyped
<1>2. HdTyped'
  BY DEF HdTyped
<1>3. RetiredAreOld'
  BY DEF RetiredAreOld
<1>4. SlotHolds'
  BY <1>1 DEF SlotHolds
<1>5. \A n \in Nat : n = here => n \notin freed /\ n \notin orphans /\ \A u \in HdThreads : n \notin retiredBy[u]
  BY DEF RetiredAreOld, HdTyped
<1>6. ScanHasFound'
  <2> SUFFICES ASSUME NEW s \in HdThreads, NEW u \in HdThreads,
                      hd'[s].at \in {"scan", "orphans"}, hd'[u].at = "use"
               PROVE  \/ u \in hd'[s].todo /\ hd'[s].at = "scan"
                      \/ hd'[u].node \in hd'[s].found
                      \/ hd'[u].node \notin Judged(s)'
    BY DEF ScanHasFound
  <2>1. CASE u = t
    <3>1. hd'[u].node = here
      BY <1>1, <2>1
    <3>2. here \notin retiredBy[s] /\ here \notin orphans
      BY <1>5 DEF HdTyped
    <3> QED
      BY <3>1, <3>2 DEF Judged
  <2>2. CASE u # t /\ s = t
    <3>1. hd'[u] = hd[u] /\ hd'[s] = r
      BY <1>1, <2>2
    <3> QED
      BY <2>2, <3>1 DEF Judged
  <2>3. CASE u # t /\ s # t
    <3>1. hd'[u] = hd[u] /\ hd'[s] = hd[s]
      BY <1>1, <2>3
    <3> QED
      BY <3>1 DEF ScanHasFound, Judged
  <2> QED
    BY <2>1, <2>2, <2>3
<1>7. ProtectedSparedByScan'
  <2> SUFFICES ASSUME ~hdPast, NEW u \in HdThreads, hd'[u].at = "use" PROVE hd'[u].node \notin freed
    BY DEF ProtectedSparedByScan
  <2>1. CASE u = t
    BY <1>1, <1>5, <2>1 DEF HdTyped
  <2>2. CASE u # t
    BY <1>1, <2>2 DEF ProtectedSparedByScan
  <2> QED
    BY <2>1, <2>2
<1> QED
  BY <1>2, <1>3, <1>4, <1>6, <1>7

\* hazard_pointer: load, protect, load again, reset.
LEMMA ReaderKeeps ==
    ASSUME HdInv, NEW t \in HdThreads, LoadHere(t) \/ Protect(t) \/ VerifyHere(t) \/ ResetHazard(t)
    PROVE  HdInv'
<1>1. hd[t] \in HdStates /\ hazard[t] \in Nat /\ here \in Nat \ {0} /\ hazard = [hazard EXCEPT ![t] = hazard[t]]
  BY DEF HdInv, HdTyped
<1>2. CASE LoadHere(t)
  <2> DEFINE r == [hd[t] EXCEPT !.at = "protect", !.node = here]
  <2>1. r \in HdStates /\ r.at = "protect" /\ r.node = here
    BY <1>1, Zenon DEF HdStates, HdPlaces
  <2>2. hd' = [hd EXCEPT ![t] = r]
    BY <1>2, Zenon DEF LoadHere
  <2>3. hazard' = [hazard EXCEPT ![t] = hazard[t]] /\ UNCHANGED <<here, retiredBy, orphans, freed, hdPast>>
    BY <1>1, <1>2 DEF LoadHere
  <2> HIDE DEF r
  <2> QED
    BY <1>1, <2>1, <2>2, <2>3, ReaderStep, Zenon
<1>3. CASE Protect(t)
  <2> DEFINE r == [hd[t] EXCEPT !.at = "verify"]
  <2>1. r \in HdStates /\ r.at = "verify" /\ r.node = hd[t].node
    BY <1>1 DEF HdStates, HdPlaces
  <2>2. hd' = [hd EXCEPT ![t] = r]
    BY <1>3 DEF Protect
  <2>3. hazard' = [hazard EXCEPT ![t] = hd[t].node] /\ UNCHANGED <<here, retiredBy, orphans, freed, hdPast>>
    BY <1>3 DEF Protect
  <2>4. hd[t].node \in Nat /\ hd[t].node # 0
    BY <1>1, <1>3 DEF Protect, HdInv, SlotHolds, HdStates
  <2> HIDE DEF r
  <2> QED
    BY <2>1, <2>2, <2>3, <2>4, ReaderStep, Zenon
<1>4. CASE VerifyHere(t)
  <2> DEFINE r == [hd[t] EXCEPT !.at = IF here = hd[t].node THEN "use" ELSE "reset"]
  <2>1. /\ r \in HdStates /\ r.at \in {"use", "reset"} /\ r.node = hd[t].node
        /\ r.at = "use" => r.node = here
    BY <1>1 DEF HdStates, HdPlaces
  <2>2. hd' = [hd EXCEPT ![t] = r]
    BY <1>4, Zenon DEF VerifyHere
  <2>3. hazard' = [hazard EXCEPT ![t] = hazard[t]] /\ UNCHANGED <<here, retiredBy, orphans, freed, hdPast>>
    BY <1>1, <1>4 DEF VerifyHere
  <2>4. hazard[t] = hd[t].node /\ hd[t].node # 0
    BY <1>4 DEF VerifyHere, HdInv, SlotHolds
  <2> HIDE DEF r
  <2> QED
    BY <1>1, <2>1, <2>2, <2>3, <2>4, ReaderStep, Zenon
<1>5. CASE ResetHazard(t)
  <2>1. HdRest \in HdStates /\ HdRest.at = "rest"
    BY DEF HdRest, HdStates, HdPlaces
  <2>2. hd' = [hd EXCEPT ![t] = HdRest] /\ hazard' = [hazard EXCEPT ![t] = 0]
    BY <1>5 DEF ResetHazard, Cleared
  <2>3. UNCHANGED <<here, retiredBy, orphans, freed, hdPast>>
    BY <1>5 DEF ResetHazard
  <2> QED
    BY <2>1, <2>2, <2>3, ReaderStep, Zenon
<1> QED
  BY <1>2, <1>3, <1>4, <1>5

\* The scan: it begins with every entry to do and reads them one by one.
LEMMA ScanStepKeeps ==
    ASSUME HdInv, NEW t \in HdThreads,
           Reclaim(t) \/ EndThread(t) \/ \E u \in HdThreads : ScanEntry(t, u)
    PROVE  HdInv'
<1>1. hd[t] \in HdStates /\ hazard[t] \in Nat /\ hazard = [hazard EXCEPT ![t] = hazard[t]]
  BY DEF HdInv, HdTyped
<1>2. CASE Reclaim(t) \/ EndThread(t)
  <2>1. PICK b \in BOOLEAN, h \in {0, hazard[t]} :
          /\ hd' = [hd EXCEPT ![t] = [HdRest EXCEPT !.at = "scan", !.todo = HdThreads, !.ending = b]]
          /\ hazard' = [hazard EXCEPT ![t] = h]
    BY <1>1, <1>2, Zenon DEF Reclaim, EndThread, ScanFrom, Cleared
  <2> DEFINE r == [HdRest EXCEPT !.at = "scan", !.todo = HdThreads, !.ending = b]
  <2>2. r \in HdStates /\ r.at = "scan" /\ r.todo = HdThreads
    BY Zenon DEF HdRest, HdStates, HdPlaces
  <2>3. UNCHANGED <<here, retiredBy, orphans, freed, hdPast>>
    BY <1>2, Zenon DEF Reclaim, EndThread
  <2> HIDE DEF r
  <2>4. hd' = [hd EXCEPT ![t] = r] /\ h \in Nat
    BY <1>1, <2>1 DEF r
  <2> QED
    BY <2>1, <2>2, <2>3, <2>4, ReaderStep, Zenon
<1>3. ASSUME NEW e \in HdThreads, ScanEntry(t, e) PROVE HdInv'
  <2> DEFINE r == [hd[t] EXCEPT !.todo = @ \ {e}, !.found = IF hazard[e] = 0 THEN @ ELSE @ \cup {hazard[e]}]
  <2>1. /\ r \in HdStates /\ r.at = hd[t].at /\ r.todo = hd[t].todo \ {e} /\ r.young = hd[t].young
        /\ r.found = IF hazard[e] = 0 THEN hd[t].found ELSE hd[t].found \cup {hazard[e]}
    <3>1. hazard[e] \in Nat
      BY DEF HdInv, HdTyped
    <3> QED
      BY <1>1, <3>1, Zenon DEF HdStates
  <2>2. hd' = [hd EXCEPT ![t] = r] /\ hd[t].at = "scan"
    BY <1>3, Zenon DEF ScanEntry
  <2>3. hazard' = [hazard EXCEPT ![t] = hazard[t]] /\ UNCHANGED <<here, retiredBy, orphans, freed, hdPast>>
    BY <1>1, <1>3 DEF ScanEntry
  <2> HIDE DEF r
  <2>4. ASSUME NEW u \in HdThreads, hd[u].at = "use"
        PROVE  \/ u \in r.todo /\ r.at = "scan"
               \/ hd[u].node \in r.found
               \/ hd[u].node \notin retiredBy[t] \cup (orphans \ r.young)
    <3>1. CASE u = e
      <4>1. hazard[u] = hd[u].node /\ hd[u].node # 0
        BY <2>4 DEF HdInv, SlotHolds
      <4> QED
        BY <2>1, <3>1, <4>1
    <3>2. CASE u # e
      <4>1. \/ u \in hd[t].todo
            \/ hd[u].node \in hd[t].found
            \/ hd[u].node \notin retiredBy[t] \cup (orphans \ hd[t].young)
        BY <2>2, <2>4 DEF HdInv, ScanHasFound, Judged
      <4> QED
        BY <2>1, <2>2, <3>2, <4>1
    <3> QED
      BY <3>1, <3>2
  <2> QED
    BY <1>1, <2>1, <2>2, <2>3, <2>4, ReaderStep, Zenon
<1> QED
  BY <1>2, <1>3

\* A writer replaces the shared pointer and retires what it held.
LEMMA RetireHereKeeps ==
    ASSUME HdInv, NEW t \in HdThreads, RetireHere(t)
    PROVE  HdInv'
<1> USE DEF HdInv
<1>1. /\ here' = here + 1 /\ here \in Nat /\ hd[t].at = "rest"
      /\ retiredBy' = [retiredBy EXCEPT ![t] = retiredBy[t] \cup {here}]
      /\ UNCHANGED <<hazard, hd, orphans, freed, hdPast>>
  BY DEF RetireHere, HdTyped
<1>2. /\ retiredBy'[t] = retiredBy[t] \cup {here}
      /\ \A u \in HdThreads \ {t} : retiredBy'[u] = retiredBy[u]
  BY <1>1 DEF HdTyped
<1>3. HdTyped'
  BY <1>1 DEF HdTyped
<1>4. RetiredAreOld'
  <2>1. \A n \in Nat : n <= here => n < here'
    BY <1>1
  <2>2. \A u \in HdThreads : retiredBy'[u] \subseteq retiredBy[u] \cup {here}
    BY <1>2
  <2>3. \A u \in HdThreads : retiredBy[u] \subseteq Nat
    BY DEF HdTyped
  <2> QED
    BY <1>1, <2>1, <2>2, <2>3 DEF RetiredAreOld, HdTyped
<1>5. SlotHolds' /\ ProtectedSparedByScan'
  BY <1>1 DEF SlotHolds, ProtectedSparedByScan
<1>6. ScanHasFound'
  BY <1>1, <1>2 DEF ScanHasFound, Judged
<1> QED
  BY <1>3, <1>4, <1>5, <1>6

\* What the end of a scan has to show: readers go on, no scan has more to decide about, and
\* what is freed is not in use.
LEMMA ReclaimStep ==
    ASSUME HdInv, NEW t \in HdThreads, UNCHANGED <<here, hazard>>, hdPast' \in BOOLEAN, hdPast => hdPast',
           hd' \in [HdThreads -> HdStates], retiredBy' \in [HdThreads -> SUBSET Nat],
           \A u \in HdThreads : retiredBy'[u] \subseteq retiredBy[u],
           orphans' \subseteq orphans \cup retiredBy[t], freed' \subseteq freed \cup orphans \cup retiredBy[t],
           \A u \in HdThreads : hd'[u].at \in {"protect", "verify", "use"} =>
               hd'[u].at = hd[u].at /\ hd'[u].node = hd[u].node,
           \A s \in HdThreads : hd'[s].at \in {"scan", "orphans"} =>
               /\ hd[s].at \in {"scan", "orphans"} /\ hd'[s].todo = hd[s].todo /\ hd'[s].found = hd[s].found
               /\ hd'[s].at = hd[s].at \/ hd[s].todo = {}
               /\ Judged(s)' \subseteq Judged(s),
           ~hdPast' => \A u \in HdThreads : hd[u].at = "use" => hd[u].node \notin freed' \ freed
    PROVE  HdInv'
<1> USE DEF HdInv
<1>1. retiredBy[t] \in SUBSET Nat /\ orphans \in SUBSET Nat /\ freed \in SUBSET Nat
  BY DEF HdTyped
<1>2. HdTyped'
  BY <1>1 DEF HdTyped
<1>3. RetiredAreOld'
  BY DEF RetiredAreOld
<1>4. SlotHolds'
  BY DEF SlotHolds
<1>5. ScanHasFound'
  <2> SUFFICES ASSUME NEW s \in HdThreads, NEW u \in HdThreads,
                      hd'[s].at \in {"scan", "orphans"}, hd'[u].at = "use"
               PROVE  \/ u \in hd'[s].todo /\ hd'[s].at = "scan"
                      \/ hd'[u].node \in hd'[s].found
                      \/ hd'[u].node \notin Judged(s)'
    BY DEF ScanHasFound
  <2>1. hd[u].at = "use" /\ hd'[u].node = hd[u].node
    OBVIOUS
  <2>2. \/ u \in hd[s].todo /\ hd[s].at = "scan"
        \/ hd[u].node \in hd[s].found
        \/ hd[u].node \notin Judged(s)
    BY <2>1 DEF ScanHasFound
  <2> QED
    BY <2>1, <2>2
<1>6. ProtectedSparedByScan'
  BY DEF ProtectedSparedByScan
<1> QED
  BY <1>2, <1>3, <1>4, <1>5, <1>6

\* The end of a scan on the own list: what it frees no reader uses; a thread that ends hands
\* the rest to the orphans, and every scan under way knows them as late arrivals.
LEMMA ReclaimOwnKeeps ==
    ASSUME HdInv, NEW t \in HdThreads, ReclaimOwn(t)
    PROVE  HdInv'
<1> DEFINE gone == Freeable(retiredBy[t], t)
           rest == LeftToOrphans(t)
<1>1. hd[t].at = "scan" /\ hd[t].todo = {} /\ freed' = freed \cup gone /\ UNCHANGED <<here, hazard, hdPast>>
  BY DEF ReclaimOwn
<1>2. /\ hd \in [HdThreads -> HdStates] /\ retiredBy \in [HdThreads -> SUBSET Nat] /\ hdPast \in BOOLEAN
      /\ retiredBy[t] \in SUBSET Nat
  BY DEF HdInv, HdTyped
<1>3. gone \subseteq retiredBy[t] /\ rest \subseteq retiredBy[t]
  BY DEF Freeable, LeftToOrphans
<1>4. ASSUME NEW u \in HdThreads, hd[u].at = "use" PROVE hd[u].node \notin gone
  BY <1>1, <1>4 DEF HdInv, ScanHasFound, Judged, Freeable
<1> HIDE DEF gone
<1>5. hdPast' \in BOOLEAN /\ (hdPast => hdPast') /\ freed' \subseteq freed \cup orphans \cup retiredBy[t]
  BY <1>1, <1>2, <1>3, Zenon
<1>6. ~hdPast' => \A u \in HdThreads : hd[u].at = "use" => hd[u].node \notin freed' \ freed
  BY <1>1, <1>4
<1>7. CASE hd[t].ending
  <2> DEFINE young(u) == IF hd[u].at \in {"scan", "orphans"} THEN hd[u].young \cup rest ELSE hd[u].young
  <2>1. /\ hd' = [u \in HdThreads |-> IF u = t THEN HdRest ELSE [hd[u] EXCEPT !.young = young(u)]]
        /\ orphans' = orphans \cup rest /\ retiredBy' = [retiredBy EXCEPT ![t] = {}]
    BY <1>7 DEF ReclaimOwn
  <2> HIDE DEF rest
  <2>2. HdRest \in HdStates /\ HdRest.at = "rest"
    BY DEF HdRest, HdStates, HdPlaces
  <2>3. ASSUME NEW u \in HdThreads \ {t}
        PROVE  /\ hd'[u] \in HdStates /\ hd'[u].at = hd[u].at /\ hd'[u].node = hd[u].node
               /\ hd'[u].todo = hd[u].todo /\ hd'[u].found = hd[u].found /\ hd'[u].young = young(u)
    <3>1. hd'[u] = [hd[u] EXCEPT !.young = young(u)]
      BY <2>1
    <3>2. hd[u] \in HdStates
      BY <1>2
    <3>3. young(u) \in SUBSET Nat
      BY <1>2, <1>3, <3>2, Zenon DEF HdStates
    <3> HIDE DEF young
    <3> QED
      BY <3>1, <3>2, <3>3 DEF HdStates
  <2>4. hd'[t] = HdRest
    BY <2>1
  <2>5. hd' \in [HdThreads -> HdStates]
    <3>1. \A u \in HdThreads : hd'[u] \in HdStates
      BY <2>2, <2>3, <2>4, Zenon
    <3> QED
      BY <2>1, <3>1
  <2>6. /\ retiredBy' \in [HdThreads -> SUBSET Nat] /\ \A u \in HdThreads : retiredBy'[u] \subseteq retiredBy[u]
        /\ orphans' \subseteq orphans \cup retiredBy[t]
    BY <1>2, <1>3, <2>1
  <2>7. ASSUME NEW s \in HdThreads, hd'[s].at \in {"scan", "orphans"}
        PROVE  s # t /\ Judged(s)' \subseteq Judged(s)
    <3>1. s # t
      BY <2>2, <2>4, <2>7
    <3>2. hd'[s].young = hd[s].young \cup rest
      BY <2>3, <2>7, <3>1, Zenon
    <3>3. retiredBy'[s] = retiredBy[s]
      BY <1>2, <2>1, <3>1
    <3> QED
      BY <2>1, <3>1, <3>2, <3>3 DEF Judged
  <2> HIDE DEF young
  <2>8. \A s \in HdThreads : hd'[s].at \in {"scan", "orphans"} =>
           /\ hd[s].at \in {"scan", "orphans"} /\ hd'[s].todo = hd[s].todo /\ hd'[s].found = hd[s].found
           /\ hd'[s].at = hd[s].at \/ hd[s].todo = {}
           /\ Judged(s)' \subseteq Judged(s)
    BY <2>3, <2>7
  <2>9. \A u \in HdThreads : hd'[u].at \in {"protect", "verify", "use"} =>
           hd'[u].at = hd[u].at /\ hd'[u].node = hd[u].node
    BY <2>2, <2>3, <2>4
  <2> QED
    BY <1>1, <1>5, <1>6, <2>5, <2>6, <2>8, <2>9, ReclaimStep
<1>8. CASE ~hd[t].ending
  <2> DEFINE r == [hd[t] EXCEPT !.at = "orphans"]
  <2>1. hd' = [hd EXCEPT ![t] = r] /\ orphans' = orphans /\ retiredBy' = [retiredBy EXCEPT ![t] = retiredBy[t] \ gone]
    BY <1>8 DEF ReclaimOwn, gone
  <2>2. r \in HdStates /\ r.at = "orphans" /\ r.todo = {} /\ r.found = hd[t].found /\ r.young = hd[t].young
    <3>1. hd[t] \in HdStates
      BY <1>2
    <3> QED
      BY <1>1, <3>1 DEF HdStates, HdPlaces
  <2> HIDE DEF r
  <2>3. hd'[t] = r /\ \A u \in HdThreads \ {t} : hd'[u] = hd[u]
    BY <1>2, <2>1
  <2>4. hd' \in [HdThreads -> HdStates]
    BY <1>2, <2>1, <2>2
  <2>5. /\ retiredBy' \in [HdThreads -> SUBSET Nat] /\ \A u \in HdThreads : retiredBy'[u] \subseteq retiredBy[u]
        /\ orphans' \subseteq orphans \cup retiredBy[t]
    BY <1>2, <2>1
  <2>6. ASSUME NEW s \in HdThreads PROVE Judged(s)' \subseteq Judged(s)
    <3>1. hd'[s].young = hd[s].young
      BY <2>2, <2>3
    <3> QED
      BY <2>1, <2>5, <3>1 DEF Judged
  <2>7. \A s \in HdThreads : hd'[s].at \in {"scan", "orphans"} =>
           /\ hd[s].at \in {"scan", "orphans"} /\ hd'[s].todo = hd[s].todo /\ hd'[s].found = hd[s].found
           /\ hd'[s].at = hd[s].at \/ hd[s].todo = {}
           /\ Judged(s)' \subseteq Judged(s)
    BY <1>1, <2>2, <2>3, <2>6, Zenon
  <2>8. \A u \in HdThreads : hd'[u].at \in {"protect", "verify", "use"} =>
           hd'[u].at = hd[u].at /\ hd'[u].node = hd[u].node
    BY <2>2, <2>3
  <2> QED
    BY <1>1, <1>5, <1>6, <2>4, <2>5, <2>7, <2>8, ReclaimStep
<1> QED
  BY <1>7, <1>8

\* The end of a scan on the orphans.
LEMMA ReclaimOrphansKeeps ==
    ASSUME HdInv, NEW t \in HdThreads, ReclaimOrphans(t)
    PROVE  HdInv'
<1> DEFINE gone == Freeable(orphans, t)
<1>1. /\ hd[t].at = "orphans" /\ freed' = freed \cup gone /\ orphans' = orphans \ gone
      /\ hd' = [hd EXCEPT ![t] = HdRest] /\ UNCHANGED <<here, hazard, retiredBy>>
      /\ hdPast' = (hdPast \/ gone \cap hd[t].young # {})
  BY DEF ReclaimOrphans
<1>2. /\ hd \in [HdThreads -> HdStates] /\ retiredBy \in [HdThreads -> SUBSET Nat] /\ hdPast \in BOOLEAN
  BY DEF HdInv, HdTyped
<1>3. gone \subseteq orphans
  BY DEF Freeable
<1>4. ASSUME NEW u \in HdThreads, hd[u].at = "use", ~hdPast' PROVE hd[u].node \notin gone
  <2>1. hd[u].node \in hd[t].found \/ hd[u].node \notin orphans \ hd[t].young
    BY <1>1, <1>4 DEF HdInv, ScanHasFound, Judged
  <2>2. gone \cap hd[t].young = {}
    BY <1>1, <1>4, Zenon
  <2> QED
    BY <2>1, <2>2 DEF Freeable
<1> HIDE DEF gone
<1>5. hdPast' \in BOOLEAN /\ (hdPast => hdPast')
  BY <1>1, <1>2
<1>6. HdRest \in HdStates /\ HdRest.at = "rest"
  BY DEF HdRest, HdStates, HdPlaces
<1>7. hd'[t] = HdRest /\ (\A u \in HdThreads \ {t} : hd'[u] = hd[u]) /\ hd' \in [HdThreads -> HdStates]
  BY <1>1, <1>2, <1>6
<1>8. /\ \A u \in HdThreads : retiredBy'[u] \subseteq retiredBy[u]
      /\ retiredBy' \in [HdThreads -> SUBSET Nat]
      /\ orphans' \subseteq orphans \cup retiredBy[t] /\ freed' \subseteq freed \cup orphans \cup retiredBy[t]
  BY <1>1, <1>2, <1>3
<1>9. \A s \in HdThreads : hd'[s].at \in {"scan", "orphans"} =>
         /\ hd[s].at \in {"scan", "orphans"} /\ hd'[s].todo = hd[s].todo /\ hd'[s].found = hd[s].found
         /\ hd'[s].at = hd[s].at \/ hd[s].todo = {}
         /\ Judged(s)' \subseteq Judged(s)
  BY <1>1, <1>6, <1>7 DEF Judged
<1>10. \A u \in HdThreads : hd'[u].at \in {"protect", "verify", "use"} =>
         hd'[u].at = hd[u].at /\ hd'[u].node = hd[u].node
  BY <1>6, <1>7
<1>11. ~hdPast' => \A u \in HdThreads : hd[u].at = "use" => hd[u].node \notin freed' \ freed
  BY <1>1, <1>4
<1> QED
  BY <1>1, <1>5, <1>7, <1>8, <1>9, <1>10, <1>11, ReclaimStep

\* hazard_pointer with its thread-local lists, the registry and the orphans, for any number of
\* threads, nodes, scans and ending threads: an object that a reader protected and verified is
\* not freed under it, unless it was an orphan that arrived after the scan that judged it.
THEOREM VerifiedNodesSurvive == HdSpec => []ProtectedSparedByScan
<1>1. HdInit => HdInv
  <2> SUFFICES ASSUME HdInit PROVE HdInv
    OBVIOUS
  <2>1. HdRest \in HdStates /\ HdRest.at = "rest"
    BY DEF HdRest, HdStates, HdPlaces
  <2>2. HdTyped
    <3>1. hd \in [HdThreads -> HdStates]
      BY <2>1 DEF HdInit
    <3>2. hazard \in [HdThreads -> Nat] /\ retiredBy \in [HdThreads -> SUBSET Nat]
      BY DEF HdInit
    <3>3. here \in Nat \ {0} /\ orphans \in SUBSET Nat /\ freed \in SUBSET Nat
      BY DEF HdInit
    <3>4. hdPast \in BOOLEAN
      BY Zenon DEF HdInit
    <3> QED
      BY <3>1, <3>2, <3>3, <3>4, Zenon DEF HdTyped
  <2>3. RetiredAreOld
    BY DEF HdInit, RetiredAreOld
  <2>4. \A t \in HdThreads : hd[t] = HdRest
    BY DEF HdInit
  <2>5. SlotHolds /\ ScanHasFound /\ ProtectedSparedByScan
    BY <2>1, <2>4 DEF SlotHolds, ScanHasFound, ProtectedSparedByScan
  <2> QED
    BY <2>2, <2>3, <2>5 DEF HdInv
<1>2. HdInv /\ [HdNext]_hdVars => HdInv'
  <2> SUFFICES ASSUME HdInv, [HdNext]_hdVars PROVE HdInv'
    OBVIOUS
  <2>1. CASE UNCHANGED hdVars
    BY <2>1 DEF hdVars, HdInv, HdTyped, RetiredAreOld, SlotHolds, ScanHasFound, Judged, ProtectedSparedByScan
  <2>2. CASE HdNext
    BY <2>2, ReaderKeeps, ScanStepKeeps, RetireHereKeeps, ReclaimOwnKeeps, ReclaimOrphansKeeps DEF HdNext
  <2> QED
    BY <2>1, <2>2
<1>3. HdInv => ProtectedSparedByScan
  BY DEF HdInv
<1> QED
  BY <1>1, <1>2, <1>3, PTL DEF HdSpec

=============================================================================
