----------------------------- MODULE MCConnectors -----------------------------
(***************************************************************************)
(* An instance of ConnectorScenarios for TLC.  Two ids, files of a few     *)
(* lines in batches of two; tables of four and two rows in pages of two    *)
(* and one; an API of three pages and one of another origin; two files in  *)
(* two versions, by two parsers, or with two draws; five messages in pages *)
(* of two.                                                                 *)
(***************************************************************************)
EXTENDS ConnectorScenarios

\* Versions 1, 2 and 3 of a document have two, three and one elements; the
\* second parser splits the last into two.
Lengths(versions, parsers) ==
  [e \in (versions \X parsers) \X {1} |->
     IF e[1] = <<3, 2>> THEN 2 ELSE <<2, 3, 1>>[e[1][1]]]

OfVersions == Lengths({2, 3}, {1})
OfParsers  == Lengths({2, 3}, {1, 2})
OfDraws    == [e \in ({1, 2} \X {1}) \X {1, 2} |-> IF e[1][1] = 1 THEN e[2] + 1 ELSE 2]
===============================================================================
