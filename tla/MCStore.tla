------------------------------- MODULE MCStore -------------------------------
(***************************************************************************)
(* The fact store in the hands of its own processes (two recorders over a  *)
(* missing store, or over an old store that one registered step migrates), *)
(* and the operations that copy and replace it (a restore, a clear or a    *)
(* migration and a backup, over a healthy, an old, an unreadable or a      *)
(* missing store).  The two share no variable of the model, so a behaviour *)
(* explores one of them, the one `part' names.                             *)
(***************************************************************************)
EXTENDS StoreOperations, FactStore, TLC

CONSTANTS c1, r1, m1, b1, b2, u1, n1, pIn, pOut, p1, p2, f1, Parts,
          Recodes    \* whether the registered step changes interpretation
VARIABLE part

AllKinds == [o \in {c1, r1, m1, b1, b2, u1, n1} |->
    CASE o = c1 -> "clear" [] o \in {r1, u1, n1} -> "restore"
      [] o = m1 -> "migrate" [] OTHER -> "backup"]
MCKind == [o \in Ops |-> AllKinds[o]]
MCMode == [o \in Ops |-> CASE o = u1 -> "unreadable" [] o = n1 -> "no-store" [] OTHER -> "healthy"]
MCKeeps == Ops \cap {r1}
MCFrom == [o \in Ops |-> pIn]
MCOutput == [o \in Ops |-> pOut]
MCPaths == {pIn, pOut}

OldRow(c, hlc) == [kind |-> "event", commit |-> c, hlc |-> hlc, format |-> 0, text |-> "long"]
OldStore == [kind |-> "store", schema |-> 0, format |-> 0, hist |-> 1, epoch |-> 2, clock |-> <<1, 0>>,
             facts |-> <<OldRow(3, <<1, 0>>)>>, wal |-> TRUE]
MCSteps == [v \in {0} |-> [changes |-> Recodes, recode |-> Recodes]]
MCStart == {Absent, OldStore}

\* A container that is not whole is offered only where there is a store to lose.
Whole == containers[StartPath].whole

\* The two backups differ in nothing but their id, the processes run
\* the same program.
Same == Permutations({b1, b2}) \cup Permutations({p1, p2})

MCVars == <<storeOpsVars, factStoreVars, part>>
MCInit ==
    /\ part \in Parts /\ StoreOpsInit /\ FactStoreInit
    /\ part # "operations" => store = StartStore("ok") /\ ~derived /\ Whole
    /\ part = "operations" => Whole \/ store # StartStore("none")
    /\ part # "store" => root = Absent /\ wall = 0
MCNext ==
    /\ UNCHANGED part
    /\ \/ part = "operations" /\ StoreOpsNext /\ UNCHANGED factStoreVars
       \/ part = "store" /\ FactStoreNext /\ UNCHANGED storeOpsVars
MCSpec == MCInit /\ [][MCNext]_MCVars
==============================================================================
