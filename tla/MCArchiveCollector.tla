------------------------- MODULE MCArchiveCollector -------------------------
(* Instances of ArchiveCollector: a low-priority update and a              *)
(* high-priority commit with a conflicting second body, with or without a  *)
(* loss notice.                                                            *)
EXTENDS ArchiveCollector
CONSTANTS update, commit, notice

Good(id, body, kind) == [id |-> id, body |-> body, kind |-> kind, form |-> "good"]
MCContent == {Good(update, 1, "low"), Good(commit, 1, "high"), Good(commit, 2, "high")}
MCObservations == MCContent \cup {Good(notice, 1, "loss_notice")}
=============================================================================
