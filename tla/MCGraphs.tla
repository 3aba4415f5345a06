------------------------------- MODULE MCGraphs -------------------------------
(***************************************************************************)
(* Instances of GraphScenarios for TLC: a chain; a diamond, whose two      *)
(* middle nodes run in parallel; a fork, two roots of which one has a      *)
(* successor; a branch, two nodes that fail in parallel, each with its     *)
(* letter; all multigraphs of three nodes; all graphs of three typed nodes *)
(* with up to two edges; a writer with two runs and two workers; two       *)
(* tickers with up to three hits; two PDFs of three pages in windows of    *)
(* two.                                                                    *)
(***************************************************************************)
EXTENDS GraphScenarios

Path    == {<<"a", "b">>, <<"b", "c">>}
Rhombus == {<<"a", "b">>, <<"a", "c">>, <<"b", "d">>, <<"c", "d">>}
Prong   == {<<"b", "d">>}
Twigs   == {<<"a", "b">>, <<"a", "c">>}
===============================================================================
