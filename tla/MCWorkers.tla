------------------------------ MODULE MCWorkers ------------------------------
(***************************************************************************)
(* The two components whose work is done by one background thread that     *)
(* never gives up: the delta worker, which brings vectors up to the facts, *)
(* and the publication thread of the archive's collector, which brings the *)
(* log up to what was admitted.  They share no variable of the model, so a *)
(* behaviour explores the one `part' names, and so does the fairness.      *)
(***************************************************************************)
EXTENDS MCDeltaMachine, MCArchiveCollector

VARIABLE part

MCVars == <<vars, collectorVars, part>>
MCInit == part \in {"delta", "collector"} /\ Init /\ CollectorInit
MCNext ==
    /\ UNCHANGED part
    /\ \/ part = "delta" /\ Next /\ UNCHANGED collectorVars
       \/ part = "collector" /\ CollectorNext /\ UNCHANGED vars

\* The fairness of FairSpec and CollectorSpec, each in its part.
DeltaFairness ==
    /\ WF_vars(part = "delta" /\ Worker)
    /\ WF_vars(part = "delta" /\ StartupSweep)
    /\ WF_vars(part = "delta" /\ (Reopen \/ Invalidate \/ InvalidateDrop \/ RequestRebuild))
PublicationFairness ==
    /\ WF_collectorVars(part = "collector" /\ TakeBatch)
    /\ WF_collectorVars(part = "collector" /\ AppendLines)
    /\ WF_collectorVars(part = "collector" /\ WriteWatermark)
    /\ WF_collectorVars(part = "collector" /\ Install)
    /\ WF_collectorVars(part = "collector" /\ PersistForWaiter)
    /\ WF_collectorVars(part = "collector" /\ PublicationEnds)

MCSpec == MCInit /\ [][MCNext]_MCVars /\ DeltaFairness /\ PublicationFairness
==============================================================================
