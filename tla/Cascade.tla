------------------------------- MODULE Cascade -------------------------------
(***************************************************************************)
(* Step 4 of `wperf report`: cascade_engine (src/cascade/engine.rs) over a *)
(* Wait-For Graph, with the sweep line it partitions a wait with           *)
(* (src/graph/sweep.rs).                                                   *)
(*                                                                         *)
(* The graph is put together by WaitForGraph's add operations in any order *)
(* and is then redistributed.  Two edges with the same ends, window and    *)
(* kind are one edge here: targets and waiters are deduplicated by the     *)
(* code, so the copies all get the attribution of the one.                 *)
(***************************************************************************)
EXTENDS Naturals, FiniteSets, FiniteSetsExt, Functions

CONSTANTS
  Thread,
  Disk,      \* the pseudo-thread DISK_TID
  MaxMs,     \* bound: timestamps are 0..MaxMs
  MaxEdges,  \* bound: edges of a graph
  max_depth

ASSUME CascadeAssumption ==
  /\ IsFiniteSet(Thread) /\ Disk \notin Thread
  /\ MaxMs \in Nat /\ MaxEdges \in Nat /\ max_depth \in Nat \ {0}

VARIABLES
  graph,       \* the edges of the WaitForGraph
  attributed,  \* attributed_delay_ms of every edge of the result
  phase

cascadeVars == <<graph, attributed, phase>>
-----------------------------------------------------------------------------
Node == Thread \union {Disk}
TimeWindow == {w \in [start : 0..MaxMs, end : 0..MaxMs] : w.start <= w.end}
Edge == [src : Node, dst : Node, window : TimeWindow, kind : {"Normal", "SyntheticClosureReturn"}]

duration(w) == w.end - w.start

\* TimeWindow::overlap, its None and its Some.
Overlaps(w, v) == Max({w.start, v.start}) < Min({w.end, v.end})
overlap(w, v) == [start |-> Max({w.start, v.start}), end |-> Min({w.end, v.end})]
-----------------------------------------------------------------------------
\* The filter of the count of waiters is forgotten.
WaitingAll(g) == g

\* The return edges of ADR-009 are skipped twice: by the sweep over outgoing
\* edges, and by the count of waiters over incoming ones.
Traversed(g) == {e \in g : e.kind # "SyntheticClosureReturn"}
Waiting(g) == {e \in g : e.kind # "SyntheticClosureReturn"}

Clipped(g, node, window) ==
  {[window |-> overlap(window, e.window), target |-> e.dst] :
     e \in {f \in Traversed(g) : f.src = node /\ Overlaps(window, f.window)}}

\* Every wait is taken as active, whenever it is.
ActiveAlways(clipped, s, e) == {c.target : c \in clipped}

\* The targets of the clipped waits that last for the whole of [s, e).
Active(clipped, s, e) == {c.target : c \in {d \in clipped : d.window.start <= s /\ d.window.end >= e}}

\* `points.windows(2)` are the pairs of consecutive points.
sweep_line_partition(g, node, window) ==
  LET clipped == Clipped(g, node, window)
      points == UNION {{c.window.start, c.window.end} : c \in clipped}
      pairs == {p \in points \X points : p[1] < p[2] /\ \A q \in points : ~(p[1] < q /\ q < p[2])}
  IN {i \in {[window |-> [start |-> p[1], end |-> p[2]], targets |-> Active(clipped, p[1], p[2])] : p \in pairs} :
        i.targets # {}}

count_concurrent_waiters(g, target, window) ==
  LET waiters == {e.src : e \in {f \in Waiting(g) : f.dst = target /\ Overlaps(f.window, window)}}
  IN Max({1, Cardinality(waiters)})

\* Only what the child passed on.
AbsorbedPropagated(child) == child.propagated

\* What a child explains: what it passed on and what it is to blame for.
Absorbed(child) == child.propagated + child.self_blame

\* Every target is given the whole interval.
TransferWhole(absorbed, target_count, waiters) == absorbed \div waiters

Transfer(absorbed, target_count, waiters) == (absorbed \div target_count) \div waiters

\* The arguments of compute_cascade(graph, current, window, depth, max_depth, path)
Call == [current : Node, window : TimeWindow, depth : 1..max_depth, path : SUBSET Node]

compute_cascade(g) ==
  LET C[call \in Call] ==
        LET intervals == sweep_line_partition(g, call.current, call.window)
            Child(next, i) == C[[current |-> next, window |-> i.window, depth |-> call.depth + 1,
                                 path |-> call.path \union {call.current}]]
            Pushed(i) == SumFunction([next \in i.targets |->
                           Transfer(Absorbed(Child(next, i)), Cardinality(i.targets),
                                    count_concurrent_waiters(g, next, i.window))])
        IN IF call.depth >= max_depth \/ call.current \in call.path \/ intervals = {}
           THEN [propagated |-> 0, self_blame |-> duration(call.window)]
           ELSE [propagated |-> SumFunction([i \in intervals |-> Pushed(i)]),
                 self_blame |-> duration(call.window)
                                  - SumFunction([i \in intervals |-> duration(i.window)])]
  IN C

\* The call of compute_cascade for an edge.
Cascaded(g, e) ==
  compute_cascade(g)[[current |-> e.dst, window |-> e.window, depth |-> 1, path |-> {e.src}]]

\* raw_wait.saturating_sub(propagated)
Attribution(g, e) == duration(e.window) - Min({duration(e.window), Cascaded(g, e).propagated})
-----------------------------------------------------------------------------
CascadeInit ==
  /\ graph = {}
  /\ attributed = << >>
  /\ phase = "building"

\* add_node for both ends and add_edge, for a wait resolved by the correlator.
AddWait(src, dst, window) ==
  /\ phase = "building"
  /\ Cardinality(graph) < MaxEdges
  /\ graph' = graph \union {[src |-> src, dst |-> dst, window |-> window, kind |-> "Normal"]}
  /\ UNCHANGED <<attributed, phase>>

\* The pair of edges of a completed block request.
AddIo(user, window) ==
  /\ phase = "building"
  /\ Cardinality(graph) + 1 < MaxEdges
  /\ graph' = graph \union
       {[src |-> user, dst |-> Disk, window |-> window, kind |-> "Normal"],
        [src |-> Disk, dst |-> user, window |-> window, kind |-> "SyntheticClosureReturn"]}
  /\ UNCHANGED <<attributed, phase>>

\* The production sentinel, I-2 and I-7.
verify_engine_postconditions(original, result) ==
  /\ \A e \in DOMAIN result : result[e] <= duration(e.window)
  /\ DOMAIN result = original

\* The engine reads the original graph for every edge, and writes the copy.
cascade_engine ==
  /\ phase = "building"
  /\ attributed' = [e \in graph |-> Attribution(graph, e)]
  /\ phase' = IF verify_engine_postconditions(graph, attributed') THEN "cascaded" ELSE "InvariantError"
  /\ UNCHANGED graph

CascadeNext ==
  \/ \E src, dst \in Thread, window \in TimeWindow : AddWait(src, dst, window)
  \/ \E user \in Thread, window \in TimeWindow : AddIo(user, window)
  \/ cascade_engine

-----------------------------------------------------------------------------
\* What a point in time waits for, read off the graph alone.
WaitsFor(node, ms) ==
  {e.dst : e \in {f \in graph : f.kind = "Normal" /\ f.src = node /\ f.window.start <= ms /\ ms < f.window.end}}

(***************************************************************************)
(* The partition is exact, millisecond by millisecond: the ms is in at     *)
(* most one interval, in none if the node waits for nobody then, and the   *)
(* interval it is in names exactly those the node waits for.  Without it   *)
(* overlapping waits are counted twice (BUG-3, src/graph/sweep.rs).        *)
(***************************************************************************)
SweepIsPointwise ==
  phase = "cascaded" => \A node \in Node, window \in TimeWindow, ms \in 0..MaxMs :
    LET hit == {i \in sweep_line_partition(graph, node, window) : i.window.start <= ms /\ ms < i.window.end}
        expected == IF window.start <= ms /\ ms < window.end THEN WaitsFor(node, ms) ELSE {}
    IN {i.targets : i \in hit} = (IF expected = {} THEN {} ELSE {expected}) /\ Cardinality(hit) <= 1

(***************************************************************************)
(* Nothing is explained twice: what deeper nodes explain of a wait and     *)
(* what its target is to blame for fit in the wait together, whatever the  *)
(* waits overlap and whatever cycles they form ("propagated + self_blame   *)
(* <= window.duration()", src/cascade/engine.rs).  So saturating_sub never *)
(* saturates, and the production sentinel never fires.                     *)
(***************************************************************************)
PropagatedFitsWait ==
  /\ phase # "InvariantError"
  /\ phase = "cascaded" => \A e \in graph : Cascaded(graph, e).propagated + Cascaded(graph, e).self_blame <= duration(e.window)

\* No node waits for two at once, and nobody is waited for by two at once.
Unscaled ==
  \A e, f \in {g \in graph : g.kind = "Normal"} :
    Overlaps(e.window, f.window) => (e.src = f.src <=> e.dst = f.dst)

(***************************************************************************)
(* "Equality holds when no fan-out or concurrent-waiter scaling is         *)
(* applied" (src/cascade/engine.rs): every millisecond of a wait is then   *)
(* accounted for, cut short by max_depth or a cycle as it may be.          *)
(***************************************************************************)
UnscaledIsExact ==
  phase = "cascaded" /\ Unscaled => \A e \in graph : Cascaded(graph, e).propagated + Cascaded(graph, e).self_blame = duration(e.window)

(***************************************************************************)
(* The return edges of ADR-009 are bookkeeping: every real wait is         *)
(* attributed what it would be without them.  Both filters are needed.     *)
(***************************************************************************)
ClosureEdgesInert ==
  phase = "cascaded" =>
    LET waits == {e \in graph : e.kind = "Normal"}
    IN \A e \in waits : attributed[e] = Attribution(waits, e)
=============================================================================
