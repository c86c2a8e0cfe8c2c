---------------------------- MODULE MCDeployment ----------------------------
(***************************************************************************)
(* Phase1aDeployment for TLC.                                               *)
(***************************************************************************)
EXTENDS Phase1aDeployment

AllSinks == <<"treasury", "mev", "ops", "dataYield", "founderSink", "delegatePools">>
TwoSinks == <<"mev", "dataYield">>
\* The sources of config/slot-source-handoff.example.json.
ExampleSources ==
    <<[source |-> Bootstrap, approved |-> TRUE], [source |-> "stake", approved |-> TRUE]>>
=============================================================================
