--------------------------- MODULE WorkStealingDeque ---------------------------
(***************************************************************************)
(* work_stealing_deque (include/kcenon/thread/lockfree/                    *)
(* work_stealing_deque.h): the owner pushes and pops at the bottom, thieves *)
(* steal at the top, one by one or in batches.                             *)
(*                                                                         *)
(* Every load, store or compare-exchange that another thread can observe   *)
(* is a step of its own, in program order: the fences of pop and steal     *)
(* order the accesses to top_ and bottom_ sequentially.  A slot and old    *)
(* arrays are written by the owner only, so grow() is one step with the    *)
(* store that publishes the new array.                                     *)
(***************************************************************************)
EXTENDS Integers, Sequences, FiniteSets

CONSTANTS
    Thieves,
    MaxItems,       \* bound: how many items are pushed, the numbers 1..MaxItems in order
    LogInitialSize, \* log_initial_size
    BatchSizes,     \* the max_count values of steal_batch
    None            \* T{}

ASSUME DequeBounds == MaxItems \in Nat /\ LogInitialSize \in Nat /\ BatchSizes \subseteq Nat \ {0}

VARIABLES
    top, bottom,
    arrays,     \* every circular_array made so far; the last one is array_
    freed,      \* indices of the arrays cleanup_old_arrays has deleted
    owner,      \* the owner's call: pc and the locals b and t
    thief,      \* each thief's call: pc and its locals
    pushed,     \* history: number of items pushed
    taken,      \* history: how often each item was returned
    overlap     \* history: a steal_batch ran at the same time as a push or a pop

wsVars == <<top, bottom, arrays, freed, owner, thief, pushed, taken, overlap>>

Items == 1..MaxItems
array == Len(arrays)
OwnerIdle == [pc |-> "idle", b |-> 0, t |-> 0]
ThiefIdle == [pc |-> "idle", t |-> 0, n |-> 0, a |-> 0, item |-> None, got |-> <<>>]
BatchPcs == {"batchBottom", "batchCas", "batchArray", "batchRead"}

\* circular_array: get and put mask the index.
NewArray(size) == [i \in 0..(size - 1) |-> None]
size(a) == Cardinality(DOMAIN a)
get(a, i) == a[i % size(a)]
\* A read through the pointer to an array: of a deleted one it may give anything.
Reads(k, i) == IF k \in freed THEN Items \cup {None} ELSE {get(arrays[k], i)}
put(a, i, item) == [a EXCEPT ![i % size(a)] = item]
grow(a, b, t) ==
    [i \in 0..(2 * size(a) - 1) |->
        IF \E k \in t..(b - 1) : k % (2 * size(a)) = i
        THEN get(a, CHOOSE k \in t..(b - 1) : k % (2 * size(a)) = i) ELSE None]

WsInit ==
    /\ top = 0 /\ bottom = 0 /\ arrays = <<NewArray(2 ^ LogInitialSize)>> /\ freed = {}
    /\ owner = OwnerIdle /\ thief = [th \in Thieves |-> ThiefIdle]
    /\ pushed = 0 /\ taken = [i \in Items |-> 0] /\ overlap = FALSE

Return(item) == taken' = IF item \in Items THEN [taken EXCEPT ![item] = @ + 1] ELSE taken
BatchRuns == \E th \in Thieves : thief[th].pc \in BatchPcs
\* The owner takes a step, or starts a call.
OwnerStep == overlap' = (overlap \/ BatchRuns)

---------------------------------------------------------------------------
(* push                                                                    *)

Push ==
    /\ owner.pc = "idle" /\ pushed < MaxItems
    /\ owner' = [pc |-> "pushTop", b |-> bottom, t |-> 0]
    /\ pushed' = pushed + 1
    /\ OwnerStep
    /\ UNCHANGED <<top, bottom, arrays, freed, thief, taken>>

PushTop ==
    /\ owner.pc = "pushTop"
    /\ owner' = [owner EXCEPT !.pc = "put", !.t = top]
    /\ OwnerStep
    /\ UNCHANGED <<top, bottom, arrays, freed, thief, pushed, taken>>

\* The array grows first when it is full; the old one is kept in old_arrays_.  The item is
\* visible to nobody before bottom_ moves.
Put ==
    /\ owner.pc = "put"
    /\ LET full == owner.b - owner.t > size(arrays[array]) - 1
           grown == IF full THEN Append(arrays, grow(arrays[array], owner.b, owner.t)) ELSE arrays
       IN  arrays' = [grown EXCEPT ![Len(grown)] = put(@, owner.b, pushed)]
    /\ owner' = [owner EXCEPT !.pc = "publish"]
    /\ OwnerStep
    /\ UNCHANGED <<top, bottom, freed, thief, pushed, taken>>

Publish ==
    /\ owner.pc = "publish"
    /\ bottom' = owner.b + 1
    /\ owner' = OwnerIdle
    /\ OwnerStep
    /\ UNCHANGED <<top, arrays, freed, thief, pushed, taken>>

---------------------------------------------------------------------------
(* pop                                                                     *)

Pop ==
    /\ owner.pc = "idle"
    /\ bottom' = bottom - 1
    /\ owner' = [pc |-> "popTop", b |-> bottom - 1, t |-> 0]
    /\ OwnerStep
    /\ UNCHANGED <<top, arrays, freed, thief, pushed, taken>>

\* Mutant: the last element is taken without competing for it.
PopTopNoRace ==
    /\ owner.pc = "popTop"
    /\ OwnerStep
    /\ \/ /\ top <= owner.b
          /\ Return(get(arrays[array], owner.b))
          /\ owner' = OwnerIdle
       \/ /\ top > owner.b
          /\ owner' = [owner EXCEPT !.pc = "restore", !.t = top]
          /\ UNCHANGED taken
    /\ UNCHANGED <<top, bottom, arrays, freed, thief, pushed>>

PopTop ==
    /\ owner.pc = "popTop"
    /\ OwnerStep
    /\ \/ /\ top < owner.b
          /\ Return(get(arrays[array], owner.b))
          /\ owner' = OwnerIdle
       \/ /\ top = owner.b
          /\ owner' = [owner EXCEPT !.pc = "popCas", !.t = top]
          /\ UNCHANGED taken
       \/ /\ top > owner.b
          /\ owner' = [owner EXCEPT !.pc = "restore", !.t = top]
          /\ UNCHANGED taken
    /\ UNCHANGED <<top, bottom, arrays, freed, thief, pushed>>

PopCas ==
    /\ owner.pc = "popCas"
    /\ owner' = [owner EXCEPT !.pc = "restore"]
    /\ OwnerStep
    /\ \/ top = owner.t /\ top' = top + 1 /\ Return(get(arrays[array], owner.b))
       \/ top # owner.t /\ UNCHANGED <<top, taken>>
    /\ UNCHANGED <<bottom, arrays, freed, thief, pushed>>

Restore ==
    /\ owner.pc = "restore"
    /\ bottom' = owner.b + 1
    /\ owner' = OwnerIdle
    /\ OwnerStep
    /\ UNCHANGED <<top, arrays, freed, thief, pushed, taken>>

---------------------------------------------------------------------------
(* steal                                                                   *)

Steal(th) ==
    /\ thief[th].pc = "idle"
    /\ thief' = [thief EXCEPT ![th] = [ThiefIdle EXCEPT !.pc = "bottom", !.t = top]]
    /\ UNCHANGED <<top, bottom, arrays, freed, owner, pushed, taken, overlap>>

StealBottom(th) ==
    /\ thief[th].pc = "bottom"
    /\ thief' = [thief EXCEPT ![th] = IF @.t < bottom THEN [@ EXCEPT !.pc = "array"] ELSE ThiefIdle]
    /\ UNCHANGED <<top, bottom, arrays, freed, owner, pushed, taken, overlap>>

StealArray(th) ==
    /\ thief[th].pc = "array"
    /\ thief' = [thief EXCEPT ![th].pc = "item", ![th].a = array]
    /\ UNCHANGED <<top, bottom, arrays, freed, owner, pushed, taken, overlap>>

StealItem(th) ==
    /\ thief[th].pc = "item"
    /\ \E item \in Reads(thief[th].a, thief[th].t) :
          thief' = [thief EXCEPT ![th].pc = "cas", ![th].item = item]
    /\ UNCHANGED <<top, bottom, arrays, freed, owner, pushed, taken, overlap>>

StealCas(th) ==
    /\ thief[th].pc = "cas"
    /\ thief' = [thief EXCEPT ![th] = ThiefIdle]
    /\ \/ top = thief[th].t /\ top' = top + 1 /\ Return(thief[th].item)
       \/ top # thief[th].t /\ UNCHANGED <<top, taken>>
    /\ UNCHANGED <<bottom, arrays, freed, owner, pushed, overlap>>

---------------------------------------------------------------------------
(* steal_batch                                                             *)

StealBatch(th, max_count) ==
    /\ thief[th].pc = "idle"
    /\ thief' = [thief EXCEPT ![th] = [ThiefIdle EXCEPT !.pc = "batchBottom", !.t = top, !.n = max_count]]
    /\ overlap' = (overlap \/ owner # OwnerIdle)
    /\ UNCHANGED <<top, bottom, arrays, freed, owner, pushed, taken>>

\* n becomes to_steal.
BatchBottom(th) ==
    /\ thief[th].pc = "batchBottom"
    /\ LET available == bottom - thief[th].t
       IN  thief' = [thief EXCEPT ![th] =
                        IF available <= 0 THEN ThiefIdle
                        ELSE [@ EXCEPT !.pc = "batchCas", !.n = IF @ < available THEN @ ELSE available]]
    /\ UNCHANGED <<top, bottom, arrays, freed, owner, pushed, taken, overlap>>

BatchCas(th) ==
    /\ thief[th].pc = "batchCas"
    /\ \/ /\ top = thief[th].t
          /\ top' = top + thief[th].n
          /\ thief' = [thief EXCEPT ![th].pc = "batchArray"]
       \/ /\ top # thief[th].t
          /\ thief' = [thief EXCEPT ![th] = ThiefIdle]
          /\ UNCHANGED top
    /\ UNCHANGED <<bottom, arrays, freed, owner, pushed, taken, overlap>>

BatchArray(th) ==
    /\ thief[th].pc = "batchArray"
    /\ thief' = [thief EXCEPT ![th].pc = "batchRead", ![th].a = array]
    /\ UNCHANGED <<top, bottom, arrays, freed, owner, pushed, taken, overlap>>

\* One element after the other; after the last one the batch is returned.
BatchRead(th) ==
    /\ thief[th].pc = "batchRead"
    /\ LET me == thief[th] IN
       \E item \in Reads(me.a, me.t + Len(me.got)) : LET got == Append(me.got, item)
       IN  \/ /\ Len(got) < me.n
              /\ thief' = [thief EXCEPT ![th].got = got]
              /\ UNCHANGED taken
           \/ /\ Len(got) = me.n
              /\ thief' = [thief EXCEPT ![th] = ThiefIdle]
              /\ taken' = [i \in Items |-> taken[i] + Cardinality({k \in 1..me.n : got[k] = i})]
    /\ UNCHANGED <<top, bottom, arrays, freed, owner, pushed, overlap>>

---------------------------------------------------------------------------

\* cleanup_old_arrays, called as documented: when no operations are in progress.
CleanupOldArrays ==
    /\ owner = OwnerIdle /\ \A th \in Thieves : thief[th] = ThiefIdle
    /\ freed' = 1..(array - 1) /\ freed' # freed
    /\ UNCHANGED <<top, bottom, arrays, owner, thief, pushed, taken, overlap>>

Owner == Push \/ PushTop \/ Put \/ Publish \/ Pop \/ PopTop \/ PopCas \/ Restore

Thief(th) ==
    \/ Steal(th) \/ StealBottom(th) \/ StealArray(th) \/ StealItem(th) \/ StealCas(th)
    \/ \E n \in BatchSizes : StealBatch(th, n)
    \/ BatchBottom(th) \/ BatchCas(th) \/ BatchArray(th) \/ BatchRead(th)

WsNext == Owner \/ (\E th \in Thieves : Thief(th)) \/ CleanupOldArrays

WsSpec == WsInit /\ [][WsNext]_wsVars

---------------------------------------------------------------------------
(* Properties.                                                              *)

\* Every item is returned at most once, whoever pops and steals, as long as no batch was
\* stolen while the owner was pushing or popping ("All returned elements are guaranteed
\* to have been successfully claimed").
TakenOnceUnlessOverlap == ~overlap => \A i \in Items : taken[i] <= 1

================================================================================
