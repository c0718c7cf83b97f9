----------------------------- MODULE MCE2eTest -----------------------------
(* Small instances of E2eTest: what is selected.                           *)
EXTENDS E2eTest

(* Every scenario, each after another; the one with a retry at both ends;  *)
(* one selected twice, between whose runs nothing is cleaned.              *)
PairsOfScenarios ==
    {<<"A", "B">>, <<"B", "C">>, <<"C", "D">>, <<"D", "A">>, <<"A", "E">>,
     <<"E", "D">>, <<"C", "C">>}
=============================================================================
