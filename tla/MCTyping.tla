------------------------------ MODULE MCTyping ------------------------------
(***************************************************************************)
(* The path of a key: an input session (windows of up to five candidates:  *)
(* in the first, two spans interleaved and both complete, a third cut      *)
(* short by the end of the window; then a menu of one window with text     *)
(* that is no UTF-8 and a symbol), the producer that sends what happened   *)
(* in it to the archive, the daemon that answers the session, the oracle   *)
(* it answers from and the trace store it reports to.  The five share no   *)
(* variable of the model, so a behaviour explores one of them, the one     *)
(* `part' names.  The producer has two parts, with a queue of two, batches *)
(* of two and one retry: "capture", in which capture may be barred and     *)
(* lapse at any moment of a session of two observations, and "delivery",   *)
(* in which three observations are admitted and the queue, the worker and  *)
(* the collector decide their fate.                                        *)
(***************************************************************************)
EXTENDS InputSession, ArchiveProducer, ScoringServer, EvidenceOracle, TraceStore

CONSTANT Parts
VARIABLE part

Word(t, s, w) == [text |-> t, span |-> s, word |-> TRUE, weight |-> w]
Symbol(t) == [text |-> t, span |-> 1, word |-> FALSE, weight |-> 0]

MCMenus == <<{<<Word("a", 1, 1), Word("c", 2, 0), Word("b", 1, 1), Word("d", 2, 1), Word("f", 3, 1), Word("g", 3, 1)>>},
             {<<Word("bad", 1, 0), Symbol("x"), Word("e", 1, 0)>>}>>
MCConfigs == {[reranking |-> TRUE, recording |-> TRUE, evidence |-> TRUE, representation |-> TRUE, socket |-> TRUE],
              [reranking |-> TRUE, recording |-> TRUE],
              [reranking |-> FALSE, recording |-> TRUE],
              [enable |-> TRUE, alpha |-> TRUE, socket |-> TRUE],
              [alpha |-> TRUE]}
\* Only the session that reranks by weight composes again after its first accepted
\* commit, a composition of one segment.
OneCommit == switch.active \/ ~switch.reranking

Scoring(named, tokens, cut, long) == [kind |-> "scoring", policy |-> named, tokens |-> tokens, lossy |-> cut, long |-> long]
EvidenceRequest(valid, rep, epoch, at) == [kind |-> "evidence", valid |-> valid, rep |-> rep, water |-> [epoch |-> epoch, at |-> at]]
MCRequests ==
    {[kind |-> k] : k \in {"silent", "late", "health"}}
    \cup {Scoring(TRUE, <<"t", "c">>, FALSE, FALSE), Scoring(TRUE, <<"x", "c">>, FALSE, TRUE), Scoring(FALSE, <<"c">>, FALSE, FALSE)}
    \cup {EvidenceRequest(TRUE, rep, 0, 0) : rep \in {1, 2}} \cup {EvidenceRequest(TRUE, 1, epoch, 1) : epoch \in {1, 2}}
    \cup {EvidenceRequest(FALSE, 1, 0, 0)}

MCKeys == {"ni", "hao"}
MCCanonical == [k \in MCKeys |-> k]
MCTexts == {"a", "A", "b"}
MCSimplified == [t \in MCTexts |-> IF t = "A" THEN "a" ELSE t]
MCDirections == {1, 2}
MCCosine == [p \in MCDirections \X MCDirections |-> IF p[1] = p[2] THEN 3 ELSE 2]
MCQueries == {[key |-> "ni", candidates |-> <<"b", "A">>, dirs |-> <<1, 2>>, conditioned |-> c] : c \in BOOLEAN}

Shape(kind, comparable, slow) == [kind |-> kind, comparable |-> comparable, slow |-> slow]
MCShapes == {Shape("ok", TRUE, FALSE), Shape("order_change", TRUE, TRUE), Shape("fault", FALSE, FALSE)}

\* Capture may be barred at any time, in a session of few observations ...
Briefly == sess'.seq <= 2
\* ... or it is allowed throughout, in one whose queue fills.
Undisturbed == ~hidden' /\ ~strayed' /\ ~sess'.excluded /\ (policy = "allows" => policy' = "allows")

daemonVars == <<serverVars, oracleVars, traceVars>>
pluginVars == <<sessionVars, producerVars>>
MCVars == <<pluginVars, daemonVars, part>>
MCInit ==
    /\ part \in Parts /\ SessionInit /\ ProducerInit /\ ServerInit /\ OracleInit /\ TraceInit
    /\ part # "session" => switch = FilterSetup([alpha |-> TRUE]) /\ rec = RecorderInit("none")
MCNext ==
    /\ UNCHANGED part
    /\ \/ part = "session" /\ SessionNext /\ UNCHANGED <<producerVars, daemonVars>>
          /\ (store # <<>> => Len(comp') <= IF OneCommit THEN 0 ELSE 1)
       \/ part = "capture" /\ ProducerNext /\ UNCHANGED <<sessionVars, daemonVars>> /\ Briefly
       \/ part = "delivery" /\ ProducerNext /\ UNCHANGED <<sessionVars, daemonVars>> /\ Undisturbed
       \/ part = "server" /\ ServerNext /\ UNCHANGED <<pluginVars, oracleVars, traceVars>>
       \/ part = "oracle" /\ OracleNext /\ UNCHANGED <<pluginVars, serverVars, traceVars>>
       \/ part = "trace" /\ TraceNext /\ UNCHANGED <<pluginVars, serverVars, oracleVars>>
MCSpec == MCInit /\ [][MCNext]_MCVars
=============================================================================
