---------------------------------- MODULE Dag ----------------------------------
(* dag.rs: a graph of jobs that is built edge by edge, and an executor that   *)
(* submits it to the router in waves, each awaited to its last job.           *)
EXTENDS Naturals, FiniteSets, FiniteSetsExt

CONSTANTS
  Nodes,
  MaxEdges            \* edges a graph gets, the ones added twice counted twice

VARIABLES
  depends_on,         \* node -> node -> how often it is listed
  answer,             \* of the last add_edge: <<from, to, accepted>>
  phase,              \* "building", "waves", or what execute returned
  remaining, wave,    \* still to be dispatched; dispatched and not yet back
  completed, nodes_dropped
vars == <<depends_on, answer, phase, remaining, wave, completed, nodes_dropped>>

deps(n) == {d \in Nodes : depends_on[n][d] > 0}
len(n) == FoldSet(LAMBDA d, acc : depends_on[n][d] + acc, 0, Nodes)

(* dfs_has_cycle, from a node to those that depend on it.  st holds what it   *)
(* is given by reference, and its answer.                                     *)
Left(node, st) == IF st.cycle THEN st ELSE [st EXCEPT !.in_stack = @ \ {node}]

Searches == [visited : SUBSET Nodes, in_stack : SUBSET Nodes, cycle : BOOLEAN]

dfs_has_cycle(of) ==
  LET dfs[node \in Nodes, st \in Searches] ==
        LET entered == [st EXCEPT !.visited = @ \cup {node}, !.in_stack = @ \cup {node}]
            Visit(other, s) ==
              IF s.cycle THEN s
              ELSE IF other \notin s.visited THEN dfs[other, s]
              ELSE [s EXCEPT !.cycle = other \in s.in_stack]
        IN Left(node, FoldSet(Visit, entered, {m \in Nodes : of[m][node] > 0}))
  IN dfs

has_cycle(of) ==
  LET From(start, s) ==
        IF s.cycle \/ start \in s.visited THEN s ELSE dfs_has_cycle(of)[start, s]
  IN FoldSet(From, [visited |-> {}, in_stack |-> {}, cycle |-> FALSE], Nodes).cycle

add_edge(from, to) ==
  LET pushed == [depends_on EXCEPT ![to][from] = @ + 1] IN
  /\ phase = "building"
  /\ FoldSet(LAMBDA n, acc : len(n) + acc, 0, Nodes) < MaxEdges
  /\ depends_on' = IF has_cycle(pushed) THEN [depends_on EXCEPT ![to][from] = 0] ELSE pushed
  /\ answer' = <<from, to, ~has_cycle(pushed)>>
  /\ UNCHANGED <<phase, remaining, wave, completed, nodes_dropped>>

(* topological_order's queue: a node enters it when it had no dependencies,   *)
(* or when its in-degree, one less for every dependency that left the queue,  *)
(* comes to nothing.                                                          *)
in_degree(n, order) == len(n) - Cardinality(deps(n) \cap order)
Queued[k \in 0 .. Cardinality(Nodes)] ==
  IF k = 0 THEN {} ELSE {n \in Nodes : in_degree(n, Queued[k - 1]) = 0}
topological_order == Queued[Cardinality(Nodes)]

leaf_nodes == Nodes \ UNION {deps(n) : n \in Nodes}

Ready(left, finished) == {n \in left : deps(n) \subseteq finished}

execute ==
  /\ phase = "building"
  /\ IF topological_order # Nodes
     THEN phase' = "CycleDetected" /\ UNCHANGED <<remaining, wave>>
     ELSE phase' = "waves" /\ wave' = Ready(Nodes, {}) /\ remaining' = Nodes \ wave'
  /\ UNCHANGED <<depends_on, answer, completed, nodes_dropped>>

(* join_next: a job came back with outputs, or dropped and taken for an empty *)
(* output.                                                                    *)
Join(n) ==
  /\ phase = "waves" /\ n \in wave
  /\ wave' = wave \ {n} /\ completed' = completed \cup {n}
  /\ \E dropped \in {0, 1} : nodes_dropped' = nodes_dropped + dropped
  /\ phase' = IF wave # {n} THEN phase ELSE IF remaining = {} THEN "Ok" ELSE "dispatch"
  /\ UNCHANGED <<depends_on, answer, remaining>>

(* The top of the loop; without progress it gives up.                         *)
Dispatch ==
  /\ phase = "dispatch"
  /\ wave' = Ready(remaining, completed) /\ remaining' = remaining \ wave'
  /\ phase' = IF wave' = {} THEN "Ok" ELSE "waves"
  /\ UNCHANGED <<depends_on, answer, completed, nodes_dropped>>

(* A task panicked: execute returns, and its JoinSet aborts the others.       *)
TaskFailed(n) ==
  /\ phase = "waves" /\ n \in wave
  /\ phase' = "TaskFailed" /\ wave' = {}
  /\ UNCHANGED <<depends_on, answer, remaining, completed, nodes_dropped>>

Init ==
  /\ depends_on = [n \in Nodes |-> [d \in Nodes |-> 0]] /\ answer = <<>>
  /\ phase = "building" /\ remaining = {} /\ wave = {} /\ completed = {} /\ nodes_dropped = 0

Next ==
  \/ \E from, to \in Nodes : add_edge(from, to)
  \/ execute \/ Dispatch
  \/ \E n \in Nodes : Join(n) \/ TaskFailed(n)

Spec == Init /\ [][Next]_vars

TypeOK ==
  /\ depends_on \in [Nodes -> [Nodes -> 0 .. MaxEdges]]
  /\ phase \in {"building", "waves", "dispatch", "Ok", "TaskFailed", "CycleDetected"}
  /\ remaining \subseteq Nodes /\ wave \subseteq Nodes /\ completed \subseteq Nodes
  /\ nodes_dropped \in 0 .. Cardinality(Nodes)

(* dag.rs: what is known of a graph without reference to how it was searched. *)
Acyclic == \A S \in SUBSET Nodes \ {{}} : \E n \in S : deps(n) \cap S = {}
Ancestors[k \in 0 .. Cardinality(Nodes), n \in Nodes] ==
  IF k = 0 THEN {n} ELSE Ancestors[k - 1, n] \cup UNION {deps(m) : m \in Ancestors[k - 1, n]}

(* dag.rs: however edges were added, some of them twice and some refused, no  *)
(* edge that is accepted closes a cycle and every one refused would; a job is *)
(* submitted only when all it depends on is back, whatever order its wave's   *)
(* jobs come back in; and a run that ends well has run everything, with an    *)
(* output for every leaf.  "Back" is all that 448-454 give: a job the router  *)
(* dropped counts as completed, with an empty output, and no run ends in the  *)
(* JobDropped of 344-346 and 371.  Nor is it claimed that execute takes every *)
(* graph add_edge has accepted: an edge added twice keeps its node's          *)
(* in-degree above zero, and the executor answers CycleDetected for it.       *)
WavesSound ==
  /\ Acyclic
  /\ answer # <<>> /\ ~answer[3] => answer[2] \in Ancestors[Cardinality(Nodes), answer[1]]
  /\ \A n \in wave \cup completed : deps(n) \subseteq completed
  /\ phase = "Ok" => completed = Nodes /\ completed \cap leaf_nodes # {}
=============================================================================
