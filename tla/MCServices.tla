------------------------------ MODULE MCServices ------------------------------
(* The services around the pool, one at a time: `serving` names the one whose     *)
(* steps are taken, the others stay in their initial state.                       *)
EXTENDS EnhancedToken, Configuration, Futures, HazardDomain, SlidingWindow, LatencyHistogram,
        Synchronization, ExecutorAdapter, PoolMetrics, ConvertString, TLC

VARIABLE serving

svVars == <<etVars, cmVars, ftVars, hdVars, swVars, hgVars, syVars, exVars, pmVars, csVars, serving>>

Services == {"token", "configuration", "futures", "hazards", "window", "histogram",
             "synchronization", "executor", "metrics", "strings"}

\* The texts that may precede a group.
SvLeads == {<<>>, <<0, 3, 63, 17>>}

\* A component that does not serve starts in one of its initial states only.
SvInit ==
    /\ serving \in Services
    /\ EtInit
    /\ CmInit
    /\ FtInit
    /\ HdInit
    /\ SwInit
    /\ HgInit
    /\ PmInit
    /\ serving # "token" => timer[1] = "none"
    /\ IF serving = "synchronization" THEN SyInit ELSE SyInit /\ primitive = "latch"
    /\ IF serving = "executor" THEN ExInit ELSE ExInit /\ exPool = "running"
    /\ IF serving = "strings" THEN CsInit ELSE csInput = [op |-> "encode", data |-> <<>>] /\ csOutput = NotRun

SvNext ==
    /\ UNCHANGED serving
    /\ \/ serving = "token" /\ EtNext
          /\ UNCHANGED <<cmVars, ftVars, hdVars, swVars, hgVars, syVars, exVars, pmVars, csVars>>
       \/ serving = "configuration" /\ CmNext
          /\ UNCHANGED <<etVars, ftVars, hdVars, swVars, hgVars, syVars, exVars, pmVars, csVars>>
       \/ serving = "futures" /\ FtNext
          /\ UNCHANGED <<etVars, cmVars, hdVars, swVars, hgVars, syVars, exVars, pmVars, csVars>>
       \/ serving = "hazards" /\ HdNext
          /\ UNCHANGED <<etVars, cmVars, ftVars, swVars, hgVars, syVars, exVars, pmVars, csVars>>
       \/ serving = "window" /\ SwNext
          /\ UNCHANGED <<etVars, cmVars, ftVars, hdVars, hgVars, syVars, exVars, pmVars, csVars>>
       \/ serving = "histogram" /\ HgNext
          /\ UNCHANGED <<etVars, cmVars, ftVars, hdVars, swVars, syVars, exVars, pmVars, csVars>>
       \/ serving = "synchronization" /\ SyNext
          /\ UNCHANGED <<etVars, cmVars, ftVars, hdVars, swVars, hgVars, exVars, pmVars, csVars>>
       \/ serving = "executor" /\ ExNext
          /\ UNCHANGED <<etVars, cmVars, ftVars, hdVars, swVars, hgVars, syVars, pmVars, csVars>>
       \/ serving = "metrics" /\ PmNext
          /\ UNCHANGED <<etVars, cmVars, ftVars, hdVars, swVars, hgVars, syVars, exVars, csVars>>
       \/ serving = "strings" /\ CsNext
          /\ UNCHANGED <<etVars, cmVars, ftVars, hdVars, swVars, hgVars, syVars, exVars, pmVars>>

SvSpec == SvInit /\ [][SvNext]_svVars

\* Callers of one component are interchangeable; all components share the same two, and
\* the hazard pointers and the primitives have a third thread.
SvSymmetry == Permutations(EtThreads)
=============================================================================
