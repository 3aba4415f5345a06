-------------------------------- MODULE DataFlow --------------------------------
(***************************************************************************)
(* Ports and edges: what a saved graph or a predefined template is checked *)
(* for, and what the executor hands each node at run time.                 *)
(*                                                                         *)
(* A graph has nodes of registered types, in an order that is              *)
(* topological, and a list of edges.  An edge names its ports in           *)
(* source_port and target_port or in the editor's sourceHandle and         *)
(* targetHandle, or leaves them out.  Data is <<node, port>> of the output *)
(* it came from; the payload a webhook run gives its root node is left out. *)
(***************************************************************************)
EXTENDS Integers, Sequences

CONSTANTS
  Types,       \* the registered node types in use
  NodeCount,   \* the nodes of a graph
  MaxEdges,    \* bound on the edges of a graph
  Absent       \* a port an edge does not name

Nodes == 1..NodeCount

(* Registered types: their inputs as [type, required], outputs as types.   *)
NoPorts == [p \in {} |-> "any"]
Outputs ==
  [webhook_source |-> [json |-> "json"], file_source |-> [file_list |-> "file_list"],
   file_parser |-> [documents |-> "document"], merge |-> [merged |-> "any"],
   sdk_query_store |-> [result |-> "json"]]
Inputs ==
  [webhook_source |-> NoPorts, file_source |-> NoPorts,
   file_parser |-> [file_list |-> "file_list"], merge |-> [inputs |-> "any"],
   sdk_query_store |-> [items |-> "any"]]
Required == {"file_list", "items"}

FlowAssumption == Types \subseteq DOMAIN Outputs /\ NodeCount \in Nat /\ MaxEdges \in Nat

VARIABLES
  types,     \* per node: its type
  edges,     \* list of [source, target, source_port, target_port, handles]
  stage,     \* "new", "saved", "refused"
  template,  \* whether the graph comes from the template catalogue
  inputs     \* per node that has run: its input data, a function of ports

vars == <<types, edges, stage, template, inputs>>

-------------------------------------------------------------------------------
(* Ports are named by the field, else by the handle, else by default. *)
SourcePort(e) == IF e.source_port = Absent THEN "output" ELSE e.source_port
TargetPort(e) == IF e.target_port = Absent THEN "input" ELSE e.target_port

(* validate_graph_edges, and the same test of a template's edges.          *)
Compatible(e) ==
  LET from == Outputs[types[e.source]][SourcePort(e)]
      to == Inputs[types[e.target]][TargetPort(e)]
  IN  to = "any" \/ from = to
ValidEdge(e) ==
  /\ SourcePort(e) \in DOMAIN Outputs[types[e.source]]
  /\ TargetPort(e) \in DOMAIN Inputs[types[e.target]]
  /\ Compatible(e)
ValidateGraphEdges == \A i \in DOMAIN edges : ValidEdge(edges[i])

(* validate_templates: moreover every required input is connected.  A      *)
(* template names its ports in full.                                       *)
Connected(n, p) == \E i \in DOMAIN edges : edges[i].target = n /\ TargetPort(edges[i]) = p
MutantRequiredConnected == TRUE
RequiredConnected ==
  \A n \in Nodes : \A p \in DOMAIN Inputs[types[n]] \cap Required : Connected(n, p)
ValidateTemplates == ValidateGraphEdges /\ RequiredConnected

-------------------------------------------------------------------------------
(* A graph is saved by the editor, or created from a template that was     *)
(* valid when the application started; that one is not validated again.    *)
Save ==
  /\ stage = "new" /\ ~template
  /\ stage' = IF ValidateGraphEdges THEN "saved" ELSE "refused"
  /\ UNCHANGED <<types, edges, template, inputs>>
CreateFromTemplate ==
  /\ stage = "new" /\ template
  /\ stage' = IF ValidateTemplates THEN "saved" ELSE "refused"
  /\ UNCHANGED <<types, edges, template, inputs>>

(* unpack_version_data: the executor reads source_port and target_port     *)
(* only; handles are copied into them.                                     *)
MutantUnpacked(e) ==
  IF e.handles THEN [e EXCEPT !.source_port = "output", !.target_port = "input"]
  ELSE [e EXCEPT !.source_port = SourcePort(e), !.target_port = TargetPort(e)]
Unpacked(e) == [e EXCEPT !.source_port = SourcePort(e), !.target_port = TargetPort(e)]

(* _collect_inputs: edges in order; a later one into the same port         *)
(* replaces what an earlier one brought.  An output without the port named *)
(* is handed over whole.                                                   *)
Data(e) ==
  IF e.source_port \in DOMAIN Outputs[types[e.source]]
  THEN <<e.source, e.source_port>> ELSE <<e.source, "whole">>
Brought(in, e) ==
  [p \in DOMAIN in \cup {e.target_port} |-> IF p = e.target_port THEN Data(e) ELSE in[p]]
CollectInputs(n) ==
  LET after[i \in 0..Len(edges)] ==
        IF i = 0 THEN [p \in {} |-> <<0, "none">>]
        ELSE IF edges[i].target # n THEN after[i - 1]
        ELSE Brought(after[i - 1], Unpacked(edges[i]))
  IN  after[Len(edges)]

RunNode(n) ==
  /\ stage = "saved" /\ DOMAIN inputs = 1..(n - 1)
  /\ inputs' = [m \in 1..n |-> IF m = n THEN CollectInputs(n) ELSE inputs[m]]
  /\ UNCHANGED <<types, edges, stage, template>>

-------------------------------------------------------------------------------
Edge(s, t) ==
  {e \in [source : {s}, target : {t},
          source_port : DOMAIN Outputs[types[s]] \cup {Absent},
          target_port : DOMAIN Inputs[types[t]] \cup {Absent}, handles : BOOLEAN] :
     e.handles => e.source_port # Absent /\ e.target_port # Absent}
Edges == UNION {Edge(p[1], p[2]) : p \in {q \in Nodes \X Nodes : q[1] < q[2]}}
Init ==
  /\ types \in [Nodes -> Types]
  /\ edges \in UNION {[1..k -> Edges] : k \in 0..MaxEdges}
  /\ template \in BOOLEAN
  /\ template => \A i \in DOMAIN edges :
       ~edges[i].handles /\ Absent \notin {edges[i].source_port, edges[i].target_port}
  /\ stage = "new" /\ inputs = [n \in {} |-> NoPorts]

Next ==
  \/ Save \/ CreateFromTemplate
  \/ \E n \in Nodes : RunNode(n)
Spec == Init /\ [][Next]_vars

-------------------------------------------------------------------------------
(* What a node of a saved graph is handed at an input came from an output  *)
(* of the input's type, however the edge named its ports.                  *)
DataIsOfItsType ==
  \A n \in DOMAIN inputs : \A p \in DOMAIN inputs[n] :
    /\ p \in DOMAIN Inputs[types[n]]
    /\ LET d == inputs[n][p]
       IN  /\ d[2] \in DOMAIN Outputs[types[d[1]]]
           /\ Inputs[types[n]][p] \in {"any", Outputs[types[d[1]]][d[2]]}

(* A graph made from a template runs with data at every required input.    *)
TemplatesAreRunnable ==
  template => \A n \in DOMAIN inputs : DOMAIN Inputs[types[n]] \cap Required \subseteq DOMAIN inputs[n]

(* "required inputs are enforced when a pipeline is executed" *)
RequiredInputsAreEnforced ==
  \A n \in DOMAIN inputs : DOMAIN Inputs[types[n]] \cap Required \subseteq DOMAIN inputs[n]

(* "Can accept multiple connections (fan-in)": the merge node is handed    *)
(* the data of every edge that leads to it.                                *)
FanInIsComplete ==
  \A n \in DOMAIN inputs : types[n] = "merge" =>
    \A i \in DOMAIN edges : edges[i].target = n =>
      \E p \in DOMAIN inputs[n] : inputs[n][p] = <<edges[i].source, Unpacked(edges[i]).source_port>>
===============================================================================
