----------------------------- MODULE HazardDomain -----------------------------
(* hazard_pointer, its registry, hazard_pointer_domain and global_reclamation_manager.     *)
(* The user is the protect-then-verify pattern the header asks for: one shared pointer that  *)
(* readers load, protect and load again, and that writers replace before they retire what   *)
(* it held.  A thread may end at any time and a new one takes its registry entry.  Retired   *)
(* nodes are sets, since their order plays no part.  The threshold is left open: retire may   *)
(* scan or not, as the public reclaim may be called at any time.                              *)
EXTENDS Integers, FiniteSets

CONSTANTS
    HdThreads,     \* registry entries; each is used by one thread after another
    HdNodes,       \* objects, in the order they are published: 1..n
    HdMaxScans,    \* bound: scans
    HdMaxExits     \* bound: threads that end

VARIABLES
    here,          \* the shared pointer of the user
    hazard,        \* per entry the pointer its hazard slot holds, 0 for none
    hd,            \* per entry what its thread does, with its locals
    retiredBy,     \* per entry the retire list of its thread
    orphans,       \* the list of the global_reclamation_manager
    freed,         \* objects deleted
    scans, exits,
    hdPast         \* history: orphans were freed that arrived after the scan had begun

hdVars == <<here, hazard, hd, retiredBy, orphans, freed, scans, exits, hdPast>>

HdRest == [at |-> "rest", node |-> 0, todo |-> {}, found |-> {}, ending |-> FALSE, young |-> {}]

HdInit ==
    /\ here = 1 /\ hazard = [t \in HdThreads |-> 0] /\ hd = [t \in HdThreads |-> HdRest]
    /\ retiredBy = [t \in HdThreads |-> {}] /\ orphans = {} /\ freed = {}
    /\ scans = 0 /\ exits = 0 /\ hdPast = FALSE

-----------------------------------------------------------------------------
(* The user.                                                                  *)

LoadHere(t) ==
    /\ hd[t].at = "rest"
    /\ hd' = [hd EXCEPT ![t].at = "protect", ![t].node = here]
    /\ UNCHANGED <<here, hazard, retiredBy, orphans, freed, scans, exits, hdPast>>

Protect(t) ==
    /\ hd[t].at = "protect"
    /\ hazard' = [hazard EXCEPT ![t] = hd[t].node] /\ hd' = [hd EXCEPT ![t].at = "verify"]
    /\ UNCHANGED <<here, retiredBy, orphans, freed, scans, exits, hdPast>>

VerifyHere(t) ==
    /\ hd[t].at = "verify"
    /\ hd' = [hd EXCEPT ![t] = IF here = hd[t].node THEN [@ EXCEPT !.at = "use"] ELSE [@ EXCEPT !.at = "reset"]]
    /\ UNCHANGED <<here, hazard, retiredBy, orphans, freed, scans, exits, hdPast>>

\* nullptr, or the marker that a scan passes over.
Cleared == 0

\* The hazard_pointer is reset or destroyed.
ResetHazard(t) ==
    /\ hd[t].at \in {"use", "reset"}
    /\ hazard' = [hazard EXCEPT ![t] = Cleared] /\ hd' = [hd EXCEPT ![t] = HdRest]
    /\ UNCHANGED <<here, retiredBy, orphans, freed, scans, exits, hdPast>>

\* A writer replaces the pointer and retires what it held.
RetireHere(t) ==
    /\ hd[t].at = "rest" /\ here + 1 \in HdNodes /\ here' = here + 1
    /\ retiredBy' = [retiredBy EXCEPT ![t] = @ \cup {here}]
    /\ UNCHANGED <<hazard, hd, orphans, freed, scans, exits, hdPast>>

-----------------------------------------------------------------------------
(* reclaim, and the reclaim_all of a thread that ends.                        *)

\* scan_hazard_pointers walks every entry, active or not, one after the other.
ScanFrom(t, ending) ==
    hd' = [hd EXCEPT ![t] = [HdRest EXCEPT !.at = "scan", !.todo = HdThreads, !.ending = ending]]

Reclaim(t) ==
    /\ hd[t].at = "rest" /\ scans < HdMaxScans /\ scans' = scans + 1 /\ ScanFrom(t, FALSE)
    /\ UNCHANGED <<here, hazard, retiredBy, orphans, freed, exits, hdPast>>

\* A thread ends between two uses: mark_inactive clears its hazards, and the destructor of
\* its retire list scans once more.
EndThread(t) ==
    /\ hd[t].at = "rest" /\ exits < HdMaxExits /\ exits' = exits + 1 /\ ScanFrom(t, TRUE)
    /\ hazard' = [hazard EXCEPT ![t] = Cleared]
    /\ UNCHANGED <<here, retiredBy, orphans, freed, scans, hdPast>>

ScanEntry(t, u) ==
    /\ hd[t].at = "scan" /\ u \in hd[t].todo
    /\ hd' = [hd EXCEPT ![t].todo = @ \ {u}, ![t].found = IF hazard[u] = 0 THEN @ ELSE @ \cup {hazard[u]}]
    /\ UNCHANGED <<here, hazard, retiredBy, orphans, freed, scans, exits, hdPast>>

\* Mutant: what the scan found is not looked up.
FreeableAll(S, t) == S

Freeable(S, t) == S \ hd[t].found

LeftToOrphans(t) == retiredBy[t] \ Freeable(retiredBy[t], t)

\* scan_and_reclaim on the own list; a thread that ends leaves the rest to the orphans.
ReclaimOwn(t) ==
    /\ hd[t].at = "scan" /\ hd[t].todo = {}
    /\ freed' = freed \cup Freeable(retiredBy[t], t)
    /\ IF hd[t].ending
         THEN /\ orphans' = orphans \cup LeftToOrphans(t)
              /\ retiredBy' = [retiredBy EXCEPT ![t] = {}]
              /\ hd' = [u \in HdThreads |-> IF u = t THEN HdRest
                          ELSE [hd[u] EXCEPT !.young = IF hd[u].at \in {"scan", "orphans"} THEN @ \cup LeftToOrphans(t) ELSE @]]
         ELSE /\ retiredBy' = [retiredBy EXCEPT ![t] = @ \ Freeable(@, t)]
              /\ hd' = [hd EXCEPT ![t].at = "orphans"] /\ UNCHANGED orphans
    /\ UNCHANGED <<here, hazard, scans, exits, hdPast>>

\* The manager takes the whole list and puts back what the scan of the caller found.
ReclaimOrphans(t) ==
    /\ hd[t].at = "orphans"
    /\ freed' = freed \cup Freeable(orphans, t) /\ orphans' = orphans \ Freeable(orphans, t)
    /\ hdPast' = (hdPast \/ Freeable(orphans, t) \cap hd[t].young # {})
    /\ hd' = [hd EXCEPT ![t] = HdRest]
    /\ UNCHANGED <<here, hazard, retiredBy, scans, exits>>

HdNext ==
    \E t \in HdThreads :
        \/ LoadHere(t) \/ Protect(t) \/ VerifyHere(t) \/ ResetHazard(t) \/ RetireHere(t)
        \/ Reclaim(t) \/ EndThread(t) \/ (\E u \in HdThreads : ScanEntry(t, u)) \/ ReclaimOwn(t) \/ ReclaimOrphans(t)

HdSpec == HdInit /\ [][HdNext]_hdVars

-----------------------------------------------------------------------------

\* An object that a reader has protected and verified is not freed under it, unless it was an
\* orphan that arrived after the scan that judged it.
ProtectedSparedByScan == ~hdPast => \A t \in HdThreads : hd[t].at = "use" => hd[t].node \notin freed

=============================================================================
