------------------------------ MODULE MCServices ------------------------------
(***************************************************************************)
(* An instance of ServiceScenarios for TLC.  Two processes with clocks a   *)
(* unit apart poll one trigger; three requests race on the rate limit, and *)
(* two carry copies of one delivery to receivers whose clocks differ; a    *)
(* request of two files beside one of a single file; a node that runs twice*)
(* beside two queries; three connections and two senders; a host that      *)
(* stops; requests on a connection that overlap, and that do not; two      *)
(* savers, a starter and a deleter.                                        *)
(***************************************************************************)
EXTENDS ServiceScenarios

UploadedBy == [f1 |-> "r1", f2 |-> "r1", f3 |-> "r2"]
Chunks     == [f1 |-> 1, f2 |-> 2, f3 |-> 2]
===============================================================================
