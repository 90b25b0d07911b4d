-------------------------- MODULE OperationContract --------------------------
(***************************************************************************)
(* What the operation engine promises its users, without records, locks or *)
(* phases: an operation is either promised to be cancelled or committed to *)
(* its irreversible effect, never both; a promised cancel ends cancelled   *)
(* (or failed, when its compensation fails) and only a committed operation *)
(* succeeds.                                                               *)
(***************************************************************************)
VARIABLES
    life,   \* "absent", "live", or the terminal state
    fate    \* "open", "cancelling" or "committed"

Init == life = "absent" /\ fate = "open"

Create == life = "absent" /\ life' = "live" /\ fate' = fate

PromiseCancel ==
    /\ life = "live" /\ fate = "open"
    /\ fate' = "cancelling" /\ life' = life

Commit ==
    /\ life = "live" /\ fate = "open"
    /\ fate' = "committed" /\ life' = life

\* A blocked operation without compensation is cancelled as it is asked to be.
Cancelled ==
    /\ life = "live" /\ fate \in {"open", "cancelling"}
    /\ life' = "cancelled" /\ fate' = "cancelling"

Succeed ==
    /\ life = "live" /\ fate = "committed"
    /\ life' = "succeeded" /\ fate' = fate

Fail == life = "live" /\ life' = "failed" /\ fate' = fate

Next == Create \/ PromiseCancel \/ Commit \/ Cancelled \/ Succeed \/ Fail

Spec == Init /\ [][Next]_<<life, fate>>

=============================================================================
