---------------------------- MODULE CompatMatrix ----------------------------
(***************************************************************************)
(* The layered compatibility matrix (daemon/compat.py): from the identity  *)
(* a configuration asks for and the identity of the active generation, the *)
(* set of actions a builder executes and whether it may reuse vectors.     *)
(* Pure operators: no state.                                               *)
(***************************************************************************)
EXTENDS FiniteSets

CONSTANTS
    SupportedFormats,   \* vector formats this runtime reads
    Converters,         \* pairs of formats with a tested converter
    Fingerprints        \* well formed index fingerprints

Layers == {"store_epoch", "fact_schema", "representation", "vector_format",
           "projection", "index"}

\* A layer an identity does not declare; an identity that is not there.
Undeclared == "undeclared"
NoIdentity == [layer \in Layers |-> Undeclared]

\* _layer_action; the fact schema has no action, it only refuses.
LayerAction(layer) ==
    CASE layer = "store_epoch"    -> "invalidate_all"
      [] layer = "representation" -> "reembed"
      [] layer = "vector_format"  -> "convert_vectors"
      [] layer = "projection"     -> "rebuild_projection"
      [] layer = "index"          -> "rebuild_index"
      [] layer = "fact_schema"    -> "none"

\* _IMPLIES: the actions an action covers.
Implies(action) ==
    CASE action = "invalidate_all" ->
           {"reembed", "rebuild_projection", "reuse_vectors",
            "convert_vectors", "rebuild_index"}
      [] action = "reembed" ->
           {"rebuild_projection", "reuse_vectors", "convert_vectors",
            "rebuild_index"}
      [] action = "convert_vectors" -> {"reuse_vectors"}
      [] OTHER -> {}

\* mismatch_reasons: the layers on which two identities differ.
Mismatch(desired, active) ==
    {layer \in Layers : desired[layer] # active[layer]}

\* refuse_load_reason is not None.
Refused(active, schema) ==
    \/ \E layer \in Layers : active[layer] = Undeclared
    \/ active["fact_schema"] # schema
    \/ active["vector_format"] \notin SupportedFormats
    \/ active["index"] \notin Fingerprints

\* What one differing layer contributes to the union.
Contribution(desired, active, layer) ==
    CASE layer = "vector_format" ->
           IF <<active[layer], desired[layer]>> \in Converters
           THEN {"convert_vectors"} ELSE {"reembed"}
      [] layer = "projection" ->
           {"rebuild_projection"} \cup
           (IF "representation" \in Mismatch(desired, active)
            THEN {} ELSE {"reuse_vectors"})
      [] layer = "fact_schema" -> {}
      [] OTHER -> {LayerAction(layer)}

RawActions(desired, active) ==
    LET raw == UNION {Contribution(desired, active, layer) :
                          layer \in Mismatch(desired, active)}
    IN  IF raw = {} THEN {"noop"} ELSE raw

\* Fault: the union of the layers' actions is executed as it is.
KeepUnion(raw) == raw

\* _collapse_union: drop what another action covers.
Collapse(raw) == {a \in raw : \A c \in raw : a \notin Implies(c)}

\* _vector_reuse_for, over the collapsed union.
VectorReuse(actions) ==
    IF actions \cap {"invalidate_all", "reembed"} # {} THEN "none"
    ELSE IF "convert_vectors" \in actions THEN "convert"
    ELSE IF "reuse_vectors" \in actions THEN "event_id"
    ELSE "none"

\* plan_actions; the empty set of actions is the refusal.
PlanActions(desired, active, schema) ==
    IF Refused(active, schema) THEN {}
    ELSE Collapse(RawActions(desired, active))

=============================================================================
