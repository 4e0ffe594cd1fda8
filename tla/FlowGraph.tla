----------------------------- MODULE FlowGraph -----------------------------
(***************************************************************************)
(* The structural flow graph: struct types as nodes, and an edge for every *)
(* way a function takes one struct in and gives another out.  The graph's  *)
(* null node stands for "no struct": bytes in front, nothing behind.       *)
(***************************************************************************)
EXTENDS Integers, Sequences, FiniteSets

Null == "(null)"
Roles == {"ISF", "PRF", "HPF"}

(***************************************************************************)
(* One function's flow.  An annotation has the function's labels and the   *)
(* direction of each of its struct parameters, by position.  A parameter   *)
(* changed in place is an input only, an unknown one is left out.          *)
(***************************************************************************)
Flow(f, annotation) ==
    LET directed(names) == {f.parameters[i].base : i \in
            {j \in DOMAIN f.parameters :
                f.parameters[j].struct /\ annotation.directions[j] \in names}}
        inputs  == directed({"input", "both"})
        outputs == directed({"output"}) \cup (IF f.returnStruct THEN {f.returns} ELSE {})
    IN  [id |-> f.id, labels |-> annotation.labels, inputs |-> inputs, outputs |-> outputs,
         complex |-> Cardinality(inputs) > 1 \/ Cardinality(outputs) > 1]

(* Every pair of an input and an output is an edge; two nulls make none.    *)
EdgesOf(flow) ==
    LET ends(structs) == IF structs = {} THEN {Null} ELSE structs
        pairs == (ends(flow.inputs) \X ends(flow.outputs)) \ {<<Null, Null>>}
    IN  {[source |-> p[1], target |-> p[2], id |-> flow.id, labels |-> flow.labels,
          inferred |-> flow.complex] : p \in pairs}

Edges(flows) == UNION {EdgesOf(flow) : flow \in flows}

(* The graph file: its edges, and the flows it was built from, embedded.    *)
Graph(flows) == [edges |-> Edges(flows), embedded |-> flows]

(***************************************************************************)
(* What the loader of the artifact directory compares: every edge's        *)
(* function is in each companion file, and the embedded flows are those of *)
(* flows.json, all by identity alone.                                      *)
(***************************************************************************)
Ids(records) == {r.id : r \in records}

Loads(functions, annotations, flows, graph) ==
    /\ Ids(graph.edges) \subseteq Ids(functions) \cap Ids(annotations) \cap Ids(flows)
    /\ Ids(graph.embedded) = Ids(flows)

---------------------------------------------------------------------------
(* Traversal of a set of edges.                                             *)

Nodes(edges) == {e.source : e \in edges} \cup {e.target : e \in edges}

(* Nodes one step from a node, against the edges or along them.             *)
Neighbours(edges, node, incoming) ==
    IF incoming THEN {e.source : e \in {d \in edges : d.target = node}}
                ELSE {e.target : e \in {d \in edges : d.source = node}}

(* A walk enters a boundary but never leaves it; the null node is one, for  *)
(* it joins functions that have nothing to do with each other.              *)
ReachableWithoutCrossing(edges, start, incoming, boundaries) ==
    LET stops == boundaries \cup {Null}
        within[n \in 0..Cardinality(Nodes(edges))] ==
            IF n = 0 THEN {start}
            ELSE LET closer == within[n - 1] IN
                 closer \cup UNION {Neighbours(edges, node, incoming) : node \in closer \ stops}
    IN  IF start \in stops THEN {} ELSE within[Cardinality(Nodes(edges))] \ {start}

(* The same without boundaries, as the graph view offers it.                *)
Reachable(edges, start, incoming) == ReachableWithoutCrossing(edges, start, incoming, {})
=============================================================================
