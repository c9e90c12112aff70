------------------------------- MODULE Report -------------------------------
(***************************************************************************)
(* `wperf report` as a process (src/main.rs, report.rs, pipeline.rs,       *)
(* output.rs, dot.rs): a file is read, its events are sorted and analysed, *)
(* and the result goes to stdout as JSON, as DOT, or as the SVG that       *)
(* Graphviz makes of the DOT.                                              *)
(*                                                                         *)
(* The file is bytes, read by WprfReader.  What the analysis computes is   *)
(* the subject of Correlate, Cascade and Analysis: here it gives some      *)
(* list of edges.  A text is a sequence of lines, and a pipe holds PipeCap *)
(* of them.  `dot` is external: it reads, writes to its stdout and stderr, *)
(* and exits, in any order and with any status.                            *)
(***************************************************************************)
EXTENDS WprfReader, SequencesExt

CONSTANTS
  Files,    \* what args.input may name: its bytes; what its recorder was
            \* given (trace, drops); and what is left of that: "whole", "cut"
            \* by a crash, "malformed", or "absent"
  Graphs,   \* the lists of edges the analysis may give
  PipeCap,  \* lines a pipe holds
  MaxOut,   \* bound: lines `dot` writes to its stdout
  MaxErr    \* bound: lines `dot` writes to its stderr

EdgeOutput ==
  [src : Int, dst : Int, raw_wait_ms : Nat, attributed_delay_ms : Nat]

ASSUME ReportAssumption ==
  /\ \A f \in Files : f.bytes \in Seq(0 .. Base - 1)
  /\ Graphs \subseteq Seq(EdgeOutput)
  /\ PipeCap \in Nat \ {0} /\ MaxOut \in Nat /\ MaxErr \in Nat

VARIABLES
  input, format,  \* ReportArgs
  pc,
  events,         \* the events read; then sorted
  read_order,     \* history: the events as they were read
  drop_count,     \* Metadata.drop_count
  cascade,        \* CascadeResult.edges
  document,       \* the lines to be written to stdout
  stdout,         \* the lines written to stdout
  error,          \* the ReportError, or "none"
  exit_code,

  dot_input,      \* lines the writer thread has not written yet
  writer,         \* the writer thread
  stdin,          \* lines in the pipe to `dot`
  child,          \* `dot`: what it is doing, or its exit status
  out, err,       \* [pipe, total]: lines in the pipe, lines ever written
  output          \* lines of its stdout collected by wait_with_output

args == <<input, format>>
reportVars == <<events, read_order, drop_count, cascade>>
dotVars == <<dot_input, writer, stdin, child, out, err, output>>
vars == <<args, pc, reportVars, document, stdout, error, exit_code, dotVars>>

Init ==
  /\ input \in Files
  /\ format \in {"Json", "Dot", "Svg"}
  /\ pc = "open"
  /\ events = << >> /\ read_order = << >>
  /\ drop_count = Missing
  /\ cascade = << >>
  /\ document = << >> /\ stdout = << >>
  /\ error = "none" /\ exit_code = "none"
  /\ dot_input = << >> /\ writer = "none" /\ stdin = 0
  /\ child = "none"
  /\ out = [pipe |-> 0, total |-> 0] /\ err = [pipe |-> 0, total |-> 0]
  /\ output = << >>
-----------------------------------------------------------------------------
(***************************************************************************)
(* Sorting: sort_unstable may give any order that agrees with the keys.    *)
(***************************************************************************)
LexLess(a, b) ==
  \E i \in DOMAIN a : a[i] < b[i] /\ \A j \in 1 .. i - 1 : a[j] = b[j]

\* key[i] is the key of s[i].
Sortings(s, key) ==
  {[i \in DOMAIN s |-> s[p[i]]] :
     p \in {q \in Bijection(DOMAIN s, DOMAIN s) :
              \A i, j \in DOMAIN s : i < j => ~LexLess(key[q[j]], key[q[i]])}}

\* Mutant: sort_by_key(timestamp_ns).
EventKeyTimestamp(e) == <<e.timestamp_ns>>

\* The derived Ord of WperfEvent compares the fields in their order.
EventKey(e) ==
  <<e.timestamp_ns, e.pid, e.tid, e.prev_tid, e.next_tid, e.prev_pid,
    e.next_pid, e.cpu, e.event_type, e.prev_state, e.flags>>

\* events.sort_unstable()
SortedEvents(s) == Sortings(s, [i \in DOMAIN s |-> EventKey(s[i])])
-----------------------------------------------------------------------------
(***************************************************************************)
(* run and build_report                                                    *)
(***************************************************************************)
\* PipelineError::Reader, whatever the error of the reader: a file too short for
\* a header is ReaderError::Header(HeaderError::Io) and no exception.
PipelineError == "Pipeline"

Fails(e) == error' = e /\ pc' = "failed"
Goes(next) == pc' = next /\ UNCHANGED error

\* File::open, and WperfReader::open, whose header errors are Pipeline errors.
open ==
  /\ pc = "open"
  /\ IF input.left = "absent" THEN Fails("Io")
     ELSE IF ~Opens(input.bytes) THEN Fails(PipelineError)
     ELSE Goes("parse")
  /\ UNCHANGED <<args, reportVars, document, stdout, exit_code, dotVars>>

\* build_wait_for_graph, step 1
parse ==
  LET got == read_all_events(input.bytes)
  IN  /\ pc = "parse"
      /\ IF got # << >> /\ Last(got) = ReaderError
         THEN Fails(PipelineError) /\ UNCHANGED <<events, read_order>>
         ELSE Goes("sort") /\ events' = got /\ read_order' = got
      /\ UNCHANGED <<args, drop_count, cascade, document, stdout, exit_code,
                     dotVars>>

\* step 2; correlate_events, step 3, is in Correlate.
sort ==
  /\ pc = "sort"
  /\ events' \in SortedEvents(events)
  /\ Goes("metadata")
  /\ UNCHANGED <<args, read_order, drop_count, cascade, document, stdout,
                 exit_code, dotVars>>

metadata ==
  LET meta == read_metadata(input.bytes)
  IN  /\ pc = "metadata"
      /\ IF meta = ReaderError
         THEN Fails(PipelineError) /\ UNCHANGED drop_count
         ELSE Goes("cascade") /\ drop_count' = meta.drop_count
      /\ UNCHANGED <<args, events, read_order, cascade, document, stdout,
                     exit_code, dotVars>>

\* cascade_engine and CascadeResult::from_graph; the later steps only add to
\* the report (Analysis).
analyse ==
  /\ pc = "cascade"
  /\ \/ cascade' \in Graphs /\ Goes("render")
     \/ Fails("Cascade") /\ UNCHANGED cascade
  /\ UNCHANGED <<args, events, read_order, drop_count, document, stdout,
                 exit_code, dotVars>>

\* Of cascade, stats and health what the input or a choice above decides; the
\* rest follows from the graph (Correlate, Analysis).
ReportOutput ==
  [edges |-> cascade, events_read |-> Len(events), drop_count |-> drop_count]

render_json ==
  /\ pc = "render" /\ format = "Json"
  /\ document' = <<ReportOutput>>
  /\ Goes("write")
  /\ UNCHANGED <<args, reportVars, stdout, exit_code, dotVars>>
-----------------------------------------------------------------------------
(***************************************************************************)
(* dot.rs                                                                  *)
(***************************************************************************)
dot_id(tid) == IF tid < 0 THEN <<"neg_", -tid>> ELSE <<"t", tid>>

EdgeKey(e) == <<e.src, e.dst, e.attributed_delay_ms, e.raw_wait_ms>>
SortedEdges(edges) == Sortings(edges, [i \in DOMAIN edges |-> EdgeKey(edges[i])])

EdgeLine(e) ==
  <<dot_id(e.src), dot_id(e.dst), <<e.attributed_delay_ms, e.raw_wait_ms>>>>

Nodes(edges) == UNION {{edges[i].src, edges[i].dst} : i \in DOMAIN edges}

\* The ids of the nodes, sorted and without duplicates
SortedNodes(edges) ==
  LET ids == SetToSeq(Nodes(edges))
  IN  Sortings(ids, [i \in DOMAIN ids |-> <<ids[i]>>])

NodeLine(tid) == <<dot_id(tid)>>

\* The texts render_dot may produce, without the opening and the closing line
render_dot(edges) ==
  {[i \in DOMAIN ids |-> NodeLine(ids[i])]
     \o [i \in DOMAIN sorted |-> EdgeLine(sorted[i])] :
   ids \in SortedNodes(edges), sorted \in SortedEdges(edges)}

render_to_dot ==
  /\ pc = "render" /\ format = "Dot"
  /\ document' \in render_dot(cascade)
  /\ Goes("write")
  /\ UNCHANGED <<args, reportVars, stdout, exit_code, dotVars>>

\* render_svg: the command is spawned with three pipes, and a thread to write
\* to the first.
spawn ==
  /\ pc = "render" /\ format = "Svg"
  /\ \/ /\ dot_input' \in render_dot(cascade)
        /\ writer' = "writing"
        /\ child' = "running"
        /\ Goes("wait")
     \/ /\ \E e \in {"GraphvizNotFound", "Io"} : Fails(e)
        /\ UNCHANGED <<dot_input, writer, child>>
  /\ UNCHANGED <<args, reportVars, document, stdout, exit_code, stdin, out,
                 err, output>>

Exited == child \in {"success", "failure", "lost"}

\* The thread: write_all, which ends with an error when `dot` has closed its
\* end; the thread closes the pipe when it ends.
write_stdin ==
  /\ writer = "writing"
  /\ \/ /\ dot_input # << >> /\ ~Exited /\ stdin < PipeCap
        /\ stdin' = stdin + 1
        /\ dot_input' = Tail(dot_input)
        /\ UNCHANGED writer
     \/ /\ dot_input # << >> /\ Exited
        /\ writer' = "BrokenPipe"
        /\ UNCHANGED <<stdin, dot_input>>
     \/ /\ dot_input = << >>
        /\ writer' = "Ok"
        /\ UNCHANGED <<stdin, dot_input>>
  /\ UNCHANGED <<args, pc, reportVars, document, stdout, error, exit_code,
                 child, out, err, output>>

\* `dot` decides what to do next ...
DotDecides ==
  /\ child = "running"
  /\ child' \in {"reads", "success", "failure"}
                  \cup (IF out.total < MaxOut THEN {"prints"} ELSE {})
                  \cup (IF err.total < MaxErr THEN {"warns"} ELSE {})
  /\ UNCHANGED <<args, pc, reportVars, document, stdout, error, exit_code,
                 dot_input, writer, stdin, out, err, output>>

Filled(p) == [pipe |-> p.pipe + 1, total |-> p.total + 1]
Drained(p) == [p EXCEPT !.pipe = @ - 1]

\* ... and blocks until it can: read a line or see the end of its input, after
\* which it has no more to read; print or warn when there is room.
DotActs ==
  /\ \/ /\ child = "reads" /\ stdin > 0
        /\ stdin' = stdin - 1 /\ child' = "running"
        /\ UNCHANGED <<out, err>>
     \/ /\ child = "reads" /\ stdin = 0 /\ writer # "writing"
        /\ child' \in {"success", "failure"}
        /\ UNCHANGED <<stdin, out, err>>
     \/ /\ child = "prints" /\ out.pipe < PipeCap
        /\ out' = Filled(out) /\ child' = "running"
        /\ UNCHANGED <<stdin, err>>
     \/ /\ child = "warns" /\ err.pipe < PipeCap
        /\ err' = Filled(err) /\ child' = "running"
        /\ UNCHANGED <<stdin, out>>
  /\ UNCHANGED <<args, pc, reportVars, document, stdout, error, exit_code,
                 dot_input, writer, output>>

\* read2 of the standard library reads both pipes as they fill, until `dot` has
\* exited and they are empty; then wait asks for its status, which may be lost
\* (ECHILD, when SIGCHLD is ignored).
read2 ==
  /\ pc = "wait"
  /\ \/ /\ out.pipe > 0
        /\ out' = Drained(out)
        /\ output' = Append(output, <<"svg", Len(output) + 1>>)
        /\ UNCHANGED <<err, pc, error, child>>
     \/ /\ err.pipe > 0
        /\ err' = Drained(err)
        /\ UNCHANGED <<out, output, pc, error, child>>
     \/ /\ Exited /\ out.pipe = 0 /\ err.pipe = 0
        /\ \/ Goes("join") /\ UNCHANGED child
           \/ Fails("Io") /\ child' = "lost"
        /\ UNCHANGED <<out, err, output>>
  /\ UNCHANGED <<args, reportVars, document, stdout, exit_code, dot_input,
                 writer, stdin>>

\* Mutant: the input is written before the output is read, without a thread.
wait_with_output_after_write == writer # "writing" /\ read2

wait_with_output == read2

\* Mutant: the writer's error is dropped.
SvgErrorDropped == IF child = "failure" THEN "GraphvizFailed" ELSE "none"

\* Graphviz's own error comes before that of the writer thread.
SvgError ==
  IF child = "failure" THEN "GraphvizFailed"
  ELSE IF writer = "BrokenPipe" THEN "Io" ELSE "none"

join ==
  /\ pc = "join"
  /\ writer # "writing"
  /\ IF SvgError # "none"
     THEN Fails(SvgError) /\ UNCHANGED document
     ELSE Goes("write") /\ document' = output
  /\ UNCHANGED <<args, reportVars, stdout, exit_code, dotVars>>
-----------------------------------------------------------------------------
\* The BufWriter on stdout, and its flush: whoever reads stdout may go away.
write_stdout ==
  /\ pc = "write"
  /\ \/ /\ Len(stdout) < Len(document)
        /\ stdout' = Append(stdout, document[Len(stdout) + 1])
        /\ UNCHANGED <<pc, error>>
     \/ /\ Len(stdout) < Len(document)
        /\ Fails("Io")
        /\ UNCHANGED stdout
     \/ /\ Len(stdout) = Len(document)
        /\ Goes("written")
        /\ UNCHANGED stdout
  /\ UNCHANGED <<args, reportVars, document, exit_code, dotVars>>

\* main
main ==
  /\ pc \in {"written", "failed"}
  /\ exit_code' = IF error = "none" THEN "SUCCESS" ELSE "FAILURE"
  /\ pc' = "exited"
  /\ UNCHANGED <<args, reportVars, document, stdout, error, dotVars>>

Main ==
  \/ open \/ parse \/ sort \/ metadata \/ analyse
  \/ render_json \/ render_to_dot \/ spawn \/ wait_with_output \/ join
  \/ write_stdout \/ main

Next == Main \/ write_stdin \/ DotDecides \/ DotActs

\* Both threads and `dot` go on as long as they can.
Fairness == WF_vars(Main) /\ WF_vars(write_stdin) /\ WF_vars(DotDecides \/ DotActs)

Spec == Init /\ [][Next]_vars /\ Fairness
-----------------------------------------------------------------------------
(***************************************************************************)
(* Properties                                                              *)
(***************************************************************************)

\* Events with equal timestamps come to correlate_events in one order only: it
\* depends neither on their order in the file, which differs from one drain of
\* the transport to the next, nor on the whims of sort_unstable.  In the same
\* way a graph has one DOT text, whatever the order of its edges and however
\* many of them join the same two threads.  (The JSON has the edges in the order
\* of the graph, and what is drained last from a HashMap has none.)
ReportIsReproducible ==
  /\ pc = "metadata" =>
       SortedEvents(read_order) \cup SortedEvents(Reverse(read_order)) = {events}
  /\ pc = "write" /\ format = "Dot" => render_dot(Reverse(cascade)) = {document}

Times(s, e) == Cardinality({i \in DOMAIN s : s[i] = e})

\* s is t in some order.
SameEvents(s, t) ==
  /\ Len(s) = Len(t)
  /\ \A e \in ToSet(s) \cup ToSet(t) : Times(s, e) = Times(t, e)

\* Whatever a crash left of a file, a report that ends with SUCCESS is of the
\* first events of the recording, of each as often as it was recorded; it gives
\* a drop count only when it is of all of them, and then the recorder's.  Of a
\* whole file it is of all, also when there are records of types this version
\* does not know.  A file that breaks the format leaves stdout empty, and
\* nothing else that has a header is refused for what it holds.
ReportedIsRecorded ==
  /\ exit_code = "SUCCESS" =>
       /\ input.left \in {"whole", "cut"}
       /\ Len(events) <= Len(input.trace)
       /\ SameEvents(events, SubSeq(input.trace, 1, Len(events)))
       /\ drop_count # Missing \/ input.left = "whole" =>
            Len(events) = Len(input.trace) /\ drop_count = input.drops
  /\ input.left \notin {"whole", "cut"} => stdout = << >>
  /\ error = PipelineError =>
       input.left = "malformed" \/ Len(input.bytes) < HEADER_SIZE

\* SUCCESS means that all of the document went to stdout, and for an SVG that
\* `dot` was given all of the graph, succeeded, and none of its output is lost.
\* When `dot` fails it is `dot` that is blamed, and not the pipe it closed.
OutcomeIsTrue ==
  /\ exit_code = "SUCCESS" =>
       /\ stdout = document
       /\ format = "Svg" =>
            dot_input = << >> /\ child = "success" /\ Len(stdout) = out.total
  /\ exit_code # "none" => (child = "failure" <=> error = "GraphvizFailed")

\* The report always ends: the writer thread, the collecting main thread and
\* `dot` never wait for each other in a circle, however full the pipes are.
ReportEnds == <>(exit_code # "none")
=============================================================================
