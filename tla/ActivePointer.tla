--------------------------- MODULE ActivePointer ---------------------------
(***************************************************************************)
(* What the blue-green publish promises, without its machinery: a durable  *)
(* pointer (the active manifest) and a visible one (the generation queries *)
(* are answered from).  Within one store epoch the visible pointer moves   *)
(* only to where the durable pointer already is, so that a restart never   *)
(* takes back what a query has seen.                                       *)
(***************************************************************************)
CONSTANTS Pointers, NoPointer, EpochOf(_)

VARIABLES durable, visible, live     \* live: the store epoch

vars == <<durable, visible, live>>

Init ==
    /\ durable \in Pointers \cup {NoPointer}
    /\ visible = NoPointer
    /\ live \in {EpochOf(p) : p \in Pointers}

\* A publish, or the recovery of a rollback, replaces the durable pointer.
Commit ==
    /\ \E p \in Pointers : durable' = p
    /\ UNCHANGED <<visible, live>>

\* Queries move to the durable generation.
Show ==
    /\ durable # NoPointer
    /\ visible' = durable
    /\ UNCHANGED <<durable, live>>

\* Nothing of this epoch is visible: a generation built from the facts is
\* shown without having been published.
Rebuild ==
    /\ visible = NoPointer \/ EpochOf(visible) # live
    /\ \E p \in Pointers : visible' = p
    /\ UNCHANGED <<durable, live>>

\* The process ends, or an epoch change hides what was served.
Hide ==
    /\ visible' = NoPointer
    /\ UNCHANGED <<durable, live>>

\* The manifest file is lost or damaged while nothing is served.
Lose ==
    /\ visible = NoPointer
    /\ durable' = NoPointer
    /\ UNCHANGED <<visible, live>>

\* The recovery of a start: durable and visible at once.
Recover ==
    /\ visible = NoPointer
    /\ \E p \in Pointers : durable' = p /\ visible' = p
    /\ UNCHANGED live

ReplaceFacts ==
    /\ live' # live
    /\ UNCHANGED <<durable, visible>>

Next == Commit \/ Show \/ Rebuild \/ Hide \/ Lose \/ Recover \/ ReplaceFacts

Spec == Init /\ [][Next]_vars

=============================================================================
