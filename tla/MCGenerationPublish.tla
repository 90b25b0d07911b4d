------------------------ MODULE MCGenerationPublish ------------------------
(* Instances of GenerationPublish for TLC.                                 *)
EXTENDS GenerationPublish

CONSTANTS r1, r2

TwoReprs  == {r1, r2}
HardFacts == {<<1, 1, r2>>, <<2, 1, r1>>}

\* An earlier process has published the configured generation.
PublishedInit == Init /\ amani = G0
PublishedSpec == PublishedInit /\ [][Next]_vars /\ Fairness

=============================================================================
