------------------------------ MODULE MCArchive ------------------------------
(***************************************************************************)
(* Backup and restore inside the collector (a backup and one or two        *)
(* restores), and what it does with the rows it published.  The two share  *)
(* no variable of the model, and a client, a dataset job and an annotator  *)
(* only read the rows, so a behaviour explores one of them, the one `part' *)
(* names: a client that pages through rows of all kinds while more are     *)
(* published and the collector restarts ("query"); a dataset job beside an *)
(* annotator and restarts ("freeze"); long archives of regular rows, every *)
(* prefix of which could be frozen: three segments of the plugin, two      *)
(* processes of the frontend beside them, and what closes them             *)
(* ("dataset").                                                            *)
(***************************************************************************)
EXTENDS ArchiveManagement, ArchiveQuery

CONSTANTS
    Parts,
    MaxPagedRows,   \* bound on the rows of the part "query"
    MaxFrozenRows   \* and of the part "freeze"
VARIABLE part

MCRowBound == "f" :> 5 @@ "p" :> 7 @@ "d" :> 2

\* Producer processes run the same program.
Same == Permutations(Sources)

Newest == Last(rows')
Published == rows' # rows
\* Neither segments nor captured texts are paged.
Paging ==
    /\ UNCHANGED <<labels, job, ask>>
    /\ Published => Len(rows') <= MaxPagedRows /\ Newest.seg <= 1 /\ ~Newest.prec
Freezing ==
    /\ UNCHANGED client
    /\ Published => Len(rows') <= MaxFrozenRows /\ Newest.own = "f"
\* The plugin's compositions are segments of their own, and only the third refers
\* to anything; the frontend uses a token again only where it is referred to.
Regular(r) ==
    /\ r.kind # "loss_notice" /\ r.stage # "retraction" /\ r.own # "d"
    /\ r.own = "p" => r.seg = r.proc /\ (r.proc # 3 => r.ref = NoRef /\ ~r.prec) /\ r.req = 0
    /\ r.own = "f" => /\ r.seg = IF r.proc <= 2 THEN 1 ELSE 2
                      /\ \/ r.upd \in {0, r.proc}
                         \/ \E i \in 1 .. Len(rows) : rows[i].ref = Update(r.proc, r.upd)

MCVars == <<managementVars, queryVars, part>>
MCInit == part \in Parts /\ ManagementInit /\ QueryInit
MCNext ==
    /\ UNCHANGED part
    /\ \/ part = "management" /\ ManagementNext /\ UNCHANGED queryVars
       \/ /\ QueryNext /\ UNCHANGED managementVars
          /\ \/ part = "query" /\ Paging
             \/ part = "freeze" /\ Freezing
             \/ part = "dataset" /\ Published /\ Regular(Newest)
MCSpec == MCInit /\ [][MCNext]_MCVars
==============================================================================
