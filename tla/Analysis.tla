------------------------------- MODULE Analysis -------------------------------
(***************************************************************************)
(* Steps 5 to 7 of `wperf report`, in the order build_report of            *)
(* src/report.rs calls them on the cascaded graph: the condensation DAG    *)
(* (src/scc/tarjan.rs), its weights (src/scc/heuristic.rs), the critical   *)
(* path (src/critical_path/mod.rs), the knots (src/scc/knot.rs) and the    *)
(* ratio of I/O delay the disk is attributed.                              *)
(*                                                                         *)
(* tarjan_scc and toposort are petgraph's: the first gives the classes of  *)
(* mutual reachability, the second some order that agrees with the edges,  *)
(* or an error if there is none.                                           *)
(***************************************************************************)
EXTENDS Cascade, SequencesExt

CONSTANTS
  None,
  KernelThread  \* the threads whose node is of kind NodeKind::KernelThread

ASSUME KindAssumption == KernelThread \subseteq Thread

\* None is neither a ratio nor a super-node.
ASSUME NoneAssumption == None \notin Nat \X Nat /\ \A s \in SUBSET Node : s # None

VARIABLES
  dag,      \* [node : super-nodes, edge : pairs of them] of the CondensationDag
  edge_w,   \* the weight of every DAG edge
  weight,   \* the weight of every super-node
  topo,     \* super-nodes the DP has not processed
  dist, pred,
  chain,    \* the traced part of the critical path
  knots,
  io_ratio  \* <<attributed, raw>> of the disk, or None

dpVars == <<topo, dist, pred, chain>>
vars == <<cascadeVars, dag, edge_w, weight, dpVars, knots, io_ratio>>
-----------------------------------------------------------------------------
\* The WaitForGraph's nodes, and their edges of either kind.
Wfg == [node |-> UNION {{e.src, e.dst} : e \in graph}, edge |-> {<<e.src, e.dst>> : e \in graph}]

\* No edge of g leaves the nodes s.
Closed(g, s) == \A p \in g.edge : p[1] \in s => p[2] \in s

\* The nodes to which the edges of g lead from t, t itself among them: the
\* least set with t that no edge leaves.
Reach(g, t) == {u \in g.node : \A s \in SUBSET g.node : t \in s /\ Closed(g, s) => u \in s}

tarjan_scc(g) ==
  LET reach == [t \in g.node |-> Reach(g, t)]
  IN {{u \in g.node : u \in reach[t] /\ t \in reach[u]} : t \in g.node}

AnalysisInit ==
  /\ CascadeInit
  /\ dag = [node |-> {}, edge |-> {}]
  /\ edge_w = << >> /\ weight = << >>
  /\ topo = {} /\ dist = << >> /\ pred = << >> /\ chain = << >>
  /\ knots = {} /\ io_ratio = None

\* Steps 1 to 4.
CascadeSteps ==
  /\ CascadeNext
  /\ UNCHANGED <<dag, edge_w, weight, dpVars, knots, io_ratio>>

\* The wfg edges from one super-node to another.
Joining(s, d) == {e \in graph : e.src \in s /\ e.dst \in d}

\* The pairs of super-nodes that get a DAG edge, with a super-node's own too.
CrossAny(sccs) == {p \in sccs \X sccs : Joining(p[1], p[2]) # {}}
Cross(sccs) == {p \in sccs \X sccs : p[1] # p[2] /\ Joining(p[1], p[2]) # {}}

\* The greatest attributed_delay_ms of some edges, and their sum.
TotalDelay(edges) == SumFunctionOnSet(attributed, edges)
MaxDelay(edges) == Max({0} \union {attributed[e] : e \in edges})

build_condensation ==
  /\ phase = "cascaded"
  /\ LET sccs == tarjan_scc(Wfg) IN
       /\ dag' = [node |-> sccs, edge |-> Cross(sccs)]
       /\ edge_w' = [p \in Cross(sccs) |-> MaxDelay(Joining(p[1], p[2]))]
       /\ weight' = [s \in sccs |-> 0]
  /\ phase' = "condensed"
  /\ UNCHANGED <<graph, attributed, dpVars, knots, io_ratio>>

\* The edges a super-node takes its weight from: the internal ones, or those
\* that touch a singleton without any.
Weighing(s) ==
  IF Joining(s, s) # {} THEN Joining(s, s)
  ELSE {e \in graph : e.src \in s \/ e.dst \in s}

apply_max_heuristic ==
  /\ phase = "condensed"
  /\ weight' = [s \in dag.node |-> MaxDelay(Weighing(s))]
  /\ phase' = "weighed"
  /\ UNCHANGED <<graph, attributed, dag, edge_w, dpVars, knots, io_ratio>>

\* critical_path_dp starts with every super-node's own weight; an empty DAG
\* has no critical path.
critical_path_dp ==
  /\ phase = "weighed" /\ dag.node # {}
  /\ dist' = weight
  /\ pred' = [s \in dag.node |-> None]
  /\ topo' = dag.node
  /\ phase' = "dp"
  /\ UNCHANGED <<graph, attributed, dag, edge_w, weight, chain, knots, io_ratio>>

\* toposort may put v next.
Ready(v) == v \in topo /\ \A p \in dag.edge : p[2] = v => p[1] \notin topo

\* The distance of u along v without the edge between them, and with it.
CandidateNoEdge(v, u) == dist[v] + weight[u]
Candidate(v, u) == dist[v] + edge_w[<<v, u>>] + weight[u]

\* One turn of the DP loop relaxes every outgoing edge of v.
Relax(v) ==
  /\ phase = "dp" /\ Ready(v)
  /\ LET better == {u \in dag.node : <<v, u>> \in dag.edge /\ Candidate(v, u) > dist[u]} IN
       /\ dist' = [u \in dag.node |-> IF u \in better THEN Candidate(v, u) ELSE dist[u]]
       /\ pred' = [u \in dag.node |-> IF u \in better THEN v ELSE pred[u]]
  /\ topo' = topo \ {v}
  /\ UNCHANGED <<graph, attributed, phase, dag, edge_w, weight, chain, knots, io_ratio>>

\* A node of the greatest distance, and from there back along pred.
FindEnd ==
  /\ phase = "dp" /\ topo = {}
  /\ \E end \in dag.node :
       /\ \A v \in dag.node : dist[v] <= dist[end]
       /\ chain' = <<end>>
  /\ phase' = "trace"
  /\ UNCHANGED <<graph, attributed, dag, edge_w, weight, topo, dist, pred, knots, io_ratio>>

TraceBack ==
  /\ phase = "trace" /\ pred[Head(chain)] # None
  /\ chain' = <<pred[Head(chain)]>> \o chain
  /\ UNCHANGED <<graph, attributed, phase, dag, edge_w, weight, topo, dist, pred, knots, io_ratio>>

\* critical_path_dp returns None, or the chain.
PathFound ==
  \/ phase = "weighed" /\ dag.node = {}
  \/ phase = "trace" /\ pred[Head(chain)] = None

has_self_loop(t) == \E e \in graph : e.src = t /\ e.dst = t

\* The super-nodes without outgoing DAG edges
Sinks == {s \in dag.node : \A p \in dag.edge : p[1] # s}

\* One kernel thread is enough to exclude an SCC; and all of it must be.
has_kernel_member(s) == s \cap KernelThread # {}
is_pure_kernel_scc(s) == s \subseteq KernelThread

\* Rule 1 excludes a trivial sink, rule 2 kernel threads among themselves.
IsKnot(s) ==
  /\ s \in Sinks
  /\ ~(Cardinality(s) = 1 /\ ~(\E t \in s : has_self_loop(t)))
  /\ ~is_pure_kernel_scc(s)

detect_knots ==
  /\ PathFound
  /\ knots' = {s \in dag.node : IsKnot(s)}
  /\ phase' = "knots"
  /\ UNCHANGED <<graph, attributed, dag, edge_w, weight, dpVars, io_ratio>>

\* The ratio of what was measured; and without the check for a zero raw sum.
RatioUnchecked(attr_sum, raw_sum) == <<attr_sum, raw_sum>>
Ratio(attr_sum, raw_sum) == IF raw_sum = 0 THEN None ELSE <<attr_sum, raw_sum>>

compute_io_attributed_delay_ratio ==
  /\ phase = "knots"
  /\ LET io == {e \in graph : e.dst = Disk /\ e.kind # "SyntheticClosureReturn"}
     IN io_ratio' = Ratio(TotalDelay(io), SumFunction([e \in io |-> duration(e.window)]))
  /\ phase' = "done"
  /\ UNCHANGED <<graph, attributed, dag, edge_w, weight, dpVars, knots>>

AnalysisNext ==
  \/ CascadeSteps \/ build_condensation \/ apply_max_heuristic \/ critical_path_dp
  \/ \E v \in dag.node : Relax(v)
  \/ FindEnd \/ TraceBack
  \/ detect_knots \/ compute_io_attributed_delay_ratio

AnalysisSpec == AnalysisInit /\ [][AnalysisNext]_vars
-----------------------------------------------------------------------------
(***************************************************************************)
(* "Should never happen -- condensation is acyclic by construction"        *)
(* (src/critical_path/mod.rs): the DP can always go on to a super-node     *)
(* whose predecessors are all done, so that toposort never fails and       *)
(* critical_path_dp does not panic.                                        *)
(***************************************************************************)
ToposortSucceeds ==
  phase = "dp" /\ topo # {} => \E v \in topo : Ready(v)

PathWeight(p) ==
  SumFunction([i \in DOMAIN p |-> weight[p[i]]])
    + SumFunction([i \in 1..(Len(p) - 1) |-> edge_w[<<p[i], p[i + 1]>>]])

DagPath ==
  {p \in UNION {[1..n -> dag.node] : n \in 1..Cardinality(dag.node)} :
     \A i \in 1..(Len(p) - 1) : <<p[i], p[i + 1]>> \in dag.edge}

(***************************************************************************)
(* The critical path is a path of the DAG, its weights add up to the total *)
(* that is reported with it, and no path is heavier -- whatever order      *)
(* toposort gives and whichever of several ends max_by_key picks.          *)
(***************************************************************************)
CriticalPathIsLongest ==
  phase = "trace" /\ pred[Head(chain)] = None =>
    /\ chain \in DagPath
    /\ PathWeight(chain) = dist[Last(chain)]
    /\ \A p \in DagPath : PathWeight(p) <= PathWeight(chain)

(***************************************************************************)
(* A knot is where waiting never gets out of: a thread is in one exactly   *)
(* when it waits, directly or not, for itself, everybody it waits for      *)
(* waits for it, and not all of them are kernel threads.                   *)
(***************************************************************************)
KnotsAreTraps ==
  phase = "knots" =>
    LET reach == [t \in Wfg.node |-> Reach(Wfg, t)]
        OnCycle(t) == \E e \in graph : e.src = t /\ t \in reach[e.dst]
    IN UNION knots = {t \in Wfg.node : /\ OnCycle(t) /\ \A u \in reach[t] : t \in reach[u]
                                       /\ \E u \in reach[t] : u \notin KernelThread}

(***************************************************************************)
(* The gate on the ratio of I/O delay: it is defined exactly when some     *)
(* thread measurably waited for the disk, and is then between the 0.70     *)
(* that the project's gate asks for and 1.                                 *)
(***************************************************************************)
IoRatioMeetsGate ==
  phase = "done" =>
    /\ (io_ratio # None) <=> (\E e \in graph : e.dst = Disk /\ duration(e.window) > 0)
    /\ io_ratio # None => /\ io_ratio[2] > 0 /\ 10 * io_ratio[1] >= 7 * io_ratio[2]
                          /\ io_ratio[1] <= io_ratio[2]
=============================================================================
