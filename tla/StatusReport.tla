---------------------------- MODULE StatusReport ----------------------------
(***************************************************************************)
(* The status snapshot (daemon/status_core.py) as operators over what it   *)
(* reads: the switches of a schema, the fact store and the recording gap   *)
(* on disk, the answer of the daemon.  The engine resolves the same        *)
(* switches in C++ (src/llm_rerank_config.cc), but the two read the file   *)
(* with different loaders: the plugin with librime's GetBool, which takes  *)
(* the text true or false however it is quoted, the report with PyYAML,    *)
(* for which a quoted text is no boolean and a plain yes or no is one.     *)
(***************************************************************************)
EXTENDS FiniteSets

\* A key of the section: plainly true or false, one of the other plain
\* booleans of YAML 1.1 (yes, no, on, off), the word true or false in quotes,
\* something else, or not there.
SwitchKeys == {"reranking", "recording", "evidence"}
Plain == {"true", "false", "other", "missing"}
KeyValues == Plain \cup {"yes", "no", "quoted_true", "quoted_false"}
Sections == [SwitchKeys \cup {"enable"} -> KeyValues]
PlainSections == [SwitchKeys \cup {"enable"} -> Plain]

\* A boolean for yaml.safe_load, and one that is true.
IsBool(v) == v \in {"true", "false", "yes", "no"}
IsTrue(v) == v \in {"true", "yes"}

\* A boolean for Config::GetBool, and one that is true.
GetsBool(v) == v \in {"true", "false", "quoted_true", "quoted_false"}
GetsTrue(v) == v \in {"true", "quoted_true"}

----------------------------------------------------------------------------
(* Switches                                                                *)

\* Mutant: the source is v2 only when some switch is on.
SwitchOn(section) == \E k \in SwitchKeys : IsTrue(section[k])

\* resolve_switch_config: has_v2
HasV2(section) == \E k \in SwitchKeys : IsBool(section[k])

\* resolve_switch_config
StatusSwitches(section) ==
    LET legacy == IsBool(section["enable"])
        only(on) == [k \in SwitchKeys |-> k = "reranking" /\ on]
    IN  IF HasV2(section) THEN [source |-> "v2", on |-> [k \in SwitchKeys |-> IsTrue(section[k])], warn |-> legacy]
        ELSE IF legacy THEN [source |-> "legacy", on |-> only(IsTrue(section["enable"])), warn |-> FALSE]
        ELSE [source |-> "not_configured", on |-> only(TRUE), warn |-> FALSE]

\* ResolveSwitchConfig of the engine: GetBool per key, then the sources in order.
EngineSwitches(section) ==
    LET got == {k \in DOMAIN section : GetsBool(section[k])}
        value(k) == k \in got /\ GetsTrue(section[k])
    IN  IF got \cap SwitchKeys # {}
        THEN [source |-> "v2", on |-> [k \in SwitchKeys |-> value(k)], warn |-> "enable" \in got]
        ELSE IF "enable" \in got
        THEN [source |-> "legacy", on |-> [k \in SwitchKeys |-> k = "reranking" /\ value("enable")], warn |-> FALSE]
        ELSE [source |-> "not_configured", on |-> [k \in SwitchKeys |-> k = "reranking"], warn |-> FALSE]

----------------------------------------------------------------------------
(* Facts and serving                                                       *)

\* What _read_facts can meet, in the order it looks: the root, the database,
\* the lease, the content.
StoreStates == {"no_root", "unsafe_root", "no_db", "unsafe_db", "maintenance", "vanished", "unopenable",
                "corrupt", "other_version", "bad_clock", "sound"}
GapVerdicts == {"none", "present", "unreadable", "missing"}

FactsHealth(store) ==
    CASE store \in {"no_root", "no_db"} -> "not_created"
      [] store \in {"unsafe_root", "unsafe_db", "corrupt", "other_version", "bad_clock"} -> "blocked"
      [] store \in {"maintenance", "vanished", "unopenable"} -> "degraded"
      [] store = "sound" -> "healthy"

\* recording_gaps: read for a sound store, and beside an absent one when
\* there is a record at all; nothing is known of a store that was not read.
GapShown(store, gap) ==
    LET read == IF gap \in {"unreadable", "missing"} THEN "unknown" ELSE gap
    IN  CASE store = "sound" -> read
          [] store = "no_db" -> IF gap = "missing" THEN "none" ELSE read
          [] store = "no_root" -> "none"
          [] OTHER -> "unknown"

\* probe_daemon
DaemonAnswers == {"refused", "dropped", "garbled", "serving", "maintenance"}
Serving(answer) == CASE answer = "refused" -> "offline" [] answer = "serving" -> "up" [] OTHER -> "unknown"

----------------------------------------------------------------------------
(* Duties and exit code                                                    *)

\* _duty_state
RerankingState(sw, alpha, serving) ==
    IF ~sw.on["reranking"] THEN "off"
    ELSE IF alpha /\ serving = "offline" THEN "degraded"
    ELSE IF alpha /\ serving = "unknown" THEN "unknown"
    ELSE "on"

RecordingState(sw, store, gap) ==
    LET health == FactsHealth(store)
    IN  IF sw.source # "v2" \/ ~sw.on["recording"] THEN "off"
        ELSE IF health \notin {"healthy", "not_created"} THEN health
        ELSE CASE GapShown(store, gap) = "present" -> "degraded"
               [] GapShown(store, gap) = "none" -> "on"
               [] OTHER -> "unknown"

EvidenceState(sw, gamma) ==
    IF sw.source # "v2" \/ ~sw.on["evidence"] THEN "off"
    ELSE IF ~sw.on["reranking"] \/ ~gamma THEN "suppressed"
    ELSE "on"

Troubled(state) == state \in {"degraded", "blocked", "unknown"}

\* compute_exit_code over one schema's entry.
StatusExit(sw, alpha, gamma, store, gap, serving) ==
    IF \/ GapShown(store, gap) \in {"present", "unknown"}
       \/ Troubled(RerankingState(sw, alpha, serving))
       \/ Troubled(RecordingState(sw, store, gap))
       \/ Troubled(EvidenceState(sw, gamma))
    THEN 1 ELSE 0

----------------------------------------------------------------------------
(* Properties                                                              *)

\* The snapshot and the engine agree on the source of the switches, on each
\* duty and on the warning: a user who reads "recording: off" is not being
\* recorded.  This is claimed of the sections that spell a boolean as plain
\* true or false; in the others the loaders differ (a plain yes is a boolean
\* for the report alone, a quoted true for the engine alone).
SwitchesAgreeFor(section) == StatusSwitches(section) = EngineSwitches(section)

\* Exit code 0 is only given when nothing an enabled duty needs is in doubt.
ExitHonestFor(sw) ==
    \A alpha, gamma \in BOOLEAN, store \in StoreStates, gap \in GapVerdicts, answer \in DaemonAnswers :
        StatusExit(sw, alpha, gamma, store, gap, Serving(answer)) = 0 =>
              /\ sw.on["recording"] => store \in {"no_root", "no_db", "sound"} /\ (store = "no_root" \/ gap # "present")
              /\ sw.on["reranking"] /\ alpha => answer = "serving"

\* Every enabled duty agrees between the two readers where booleans are
\* plainly spelled, and, however they are spelled, none that the report takes
\* for enabled is in doubt behind exit code 0.
StatusHonest ==
    /\ \A section \in PlainSections : SwitchesAgreeFor(section)
    /\ \A sw \in {StatusSwitches(section) : section \in Sections} : ExitHonestFor(sw)
=============================================================================
