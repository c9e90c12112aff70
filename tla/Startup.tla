------------------------------- MODULE Startup -------------------------------
(***************************************************************************)
(* `wperf record` from the command line to its exit (src/record.rs,        *)
(* src/probe/features.rs, src/transport/config.rs): the signal handlers,   *)
(* the feature probes, the choice of the transport, the BPF skeleton,      *)
(* the output file, and the way each of them can fail.  The poll loops     *)
(* themselves are Recorder and PerfArray; here a loop either runs, ends or *)
(* fails.                                                                  *)
(*                                                                         *)
(* The kernel, libbpf and /proc are external.  A BTF file that exists can  *)
(* be parsed (if it cannot, libbpf's load fails as well).                  *)
(***************************************************************************)
EXTENDS Integers, Sequences

CONSTANTS
  Kernels,    \* the kernels that wperf may be started on
  Processes,  \* the PID namespaces and /proc mounts it may be started in
  Sizes,      \* the values of --buffer-size, NoSize (absent) among them
  NoSize,
  PageSize    \* bytes of a page, and the 4096 of TransportConfig::ringbuf

Kernel ==
  [btf      : BOOLEAN,    \* /sys/kernel/btf/vmlinux exists
   ringbuf  : BOOLEAN,    \* BPF_MAP_TYPE_RINGBUF, and struct bpf_ringbuf in BTF
   sched    : BOOLEAN,    \* typedef btf_trace_sched_switch
   block    : BOOLEAN,    \* typedef btf_trace_block_rq_issue
   single   : BOOLEAN,    \* block_rq_issue passes the request as ctx[0]
   release  : Nat \X Nat, \* uname: a number that does not parse is 0
   futex    : BOOLEAN,    \* tracepoint syscalls/sys_enter_futex
   bpf_loop : {0, 1, -1}, \* libbpf_probe_bpf_helper
   cgroupv2 : BOOLEAN]

\* tgid is what a probe sees; id is getpid; nspid is the NSpid line of
\* /proc/self/status, empty when it cannot be read.
Process == [tgid : Nat, id : Nat, nspid : Seq(Nat)]

\* (maj, min) >= (major, minor); uname itself does not fail.
kernel_version_ge(release, major, minor) ==
  \/ release[1] > major
  \/ release[1] = major /\ release[2] >= minor

\* Where BTF lacks the typedef, the form of block_rq_issue changed with 5.11.
ASSUME StartupAssumption ==
  /\ Kernels \subseteq Kernel
  /\ Processes \subseteq Process
  /\ Sizes \subseteq Nat \cup {NoSize} /\ NoSize \notin Nat
  /\ PageSize \in Nat \ {0}
  /\ \A k \in Kernels :
       ~k.block => (k.single <=> kernel_version_ge(k.release, 5, 11))

VARIABLES
  env,       \* kernel, process, command line and build: fixed for the run
  pc,        \* the next step of run and record_impl
  handlers,  \* signals with a registered handler
  stop,      \* stop_requested
  features,  \* the FeatureMatrix
  config,    \* the TransportConfig
  skel,      \* the open skeleton
  attached,  \* the programs that are attached
  file,      \* the output: "old" (untouched), "created" or "complete"
  expired,   \* the deadline has passed
  refused,   \* history: a call failed for a reason of the system's own
  result     \* None, "ok", the kind of RecordError, "panic" or "killed"

startVars == <<env, pc, handlers, stop, features, config, skel, attached, file,
               expired, refused, result>>
-----------------------------------------------------------------------------
Signals == {"SIGINT", "SIGTERM"}

Hooks == {"sched_switch", "sched_wakeup", "block_rq_issue", "block_rq_complete"}
Variants == {"btf", "raw"}
Futex == <<"sys_enter_futex", "tracepoint">>
Programs == (Hooks \X Variants) \cup {Futex}

NotYet == [none |-> TRUE]

\* The order in which run and record_impl do things
Steps ==
  <<"SIGINT", "SIGTERM", "probe", "config", "open", "configure", "load",
    "attach", "create", "deadline", "build", "poll", "finish">>

After(step) ==
  LET i == CHOOSE j \in DOMAIN Steps : Steps[j] = step
  IN  Steps[i + 1]

\* `?` succeeds: on to the next step
Proceed(step) == pc' = After(step) /\ UNCHANGED <<refused, result>>

\* An early return, or an unwinding panic.  The skeleton is dropped and with it
\* the links of the programs.
Leave(how, why_refused) ==
  /\ pc' = "exited"
  /\ result' = how
  /\ refused' = (refused \/ why_refused)
  /\ attached' = {}

\* parse_positive_duration: zero, negative numbers and NaN are refused, while
\* infinity and numbers that no Duration can hold ("huge") are let through.
Durations == {"none", "finite", "huge"}

Init ==
  /\ env \in [kernel : Kernels, process : Processes, size : Sizes,
              duration : Durations,
              debug : BOOLEAN, bpf : BOOLEAN]
  /\ pc = Steps[1]
  /\ handlers = {}
  /\ stop = FALSE
  /\ features = NotYet
  /\ config = NotYet
  /\ skel = NotYet
  /\ attached = {}
  /\ file = "old"
  /\ expired = FALSE
  /\ refused = FALSE
  /\ result = "none"
-----------------------------------------------------------------------------
(***************************************************************************)
(* Feature probing                                                         *)
(***************************************************************************)
\* The only error that probe_all returns is BtfRequired.
ProbeError == "Probe"

probe_btf(k) == k.btf
probe_cgroupv2(k) == k.cgroupv2

\* Not implemented: no kernel has it.
probe_fentry(k) == FALSE

\* An attempt to create a small ring; denied: it fails although the kernel
\* knows the map type (EPERM, ENOMEM).
probe_ringbuf(k, denied) ==
  IF k.ringbuf /\ ~denied THEN "RingBuf" ELSE "PerfArray"

\* Mutant: tp_btf is taken for granted once there is BTF.
probe_tp_btf_assumed(k) == "TpBtf"

probe_tp_btf(k) == IF k.sched THEN "TpBtf" ELSE "RawTp"

\* An error of libbpf_probe_bpf_helper counts as unavailable.
probe_bpf_loop(k) == k.bpf_loop = 1

\* Parameters of the prototype, the hidden __data included; 0: no typedef
btf_typedef_func_proto_vlen(k) ==
  IF ~k.block THEN 0 ELSE IF k.single THEN 2 ELSE 3

\* Mutant: the version alone decides.
probe_block_rq_issue_by_version(k) == kernel_version_ge(k.release, 5, 11)

probe_block_rq_issue_single_arg(k) ==
  LET vlen == btf_typedef_func_proto_vlen(k)
  IN  IF vlen > 0 THEN vlen = 2 ELSE kernel_version_ge(k.release, 5, 11)

FeatureMatrix(k, denied) ==
  [transport    |-> probe_ringbuf(k, denied),
   tracepoint   |-> probe_tp_btf(k),
   has_btf      |-> TRUE,
   has_bpf_loop |-> probe_bpf_loop(k),
   has_cgroupv2 |-> probe_cgroupv2(k),
   has_fentry   |-> probe_fentry(k),
   block_rq_issue_single_arg |-> probe_block_rq_issue_single_arg(k)]

\* probe_all: only a missing BTF is an error.
probe_all ==
  /\ pc = "probe"
  /\ env.bpf
  /\ \/ /\ ~probe_btf(env.kernel)
        /\ Leave(ProbeError, FALSE)
        /\ UNCHANGED features
     \/ /\ probe_btf(env.kernel)
        /\ \E denied \in BOOLEAN :
             /\ features' = FeatureMatrix(env.kernel, denied)
             /\ refused' = (refused \/ denied)
        /\ pc' = After("probe")
        /\ UNCHANGED <<attached, result>>
  /\ UNCHANGED <<env, handlers, stop, config, skel, file, expired>>

\* record_impl of a build without the feature `bpf`
NoBpfSupport ==
  /\ pc = "probe"
  /\ ~env.bpf
  /\ Leave("NoBpfSupport", FALSE)
  /\ UNCHANGED <<env, handlers, stop, features, config, skel, file, expired>>
-----------------------------------------------------------------------------
(***************************************************************************)
(* Transport configuration                                                 *)
(***************************************************************************)
\* Of a u32, up to the largest that TLC can represent
PowersOfTwo == {2 ^ i : i \in 0 .. 30}
next_power_of_two(n) ==
  CHOOSE p \in PowersOfTwo : p >= n /\ \A q \in PowersOfTwo : q >= n => p <= q
div_ceil(n, d) == (n + d - 1) \div d

DEFAULT_RINGBUF_SIZE == 4096 * PageSize
DEFAULT_PERF_PAGES   == 256

ringbuf(size) == [mode |-> "RingBuf", ringbuf_size |-> size, perf_pages |-> 0]
perfarray(pages) ==
  [mode |-> "PerfArray", ringbuf_size |-> 0, perf_pages |-> pages]
from_mode(mode) ==
  IF mode = "RingBuf" THEN ringbuf(DEFAULT_RINGBUF_SIZE)
  ELSE perfarray(DEFAULT_PERF_PAGES)

\* The debug_asserts of TransportConfig::ringbuf
RingbufSizeOK(size) == size \in PowersOfTwo /\ size >= PageSize

PerfPages(size) == next_power_of_two(div_ceil(size, PageSize))

ConfigPanics ==
  /\ env.debug
  /\ features.transport = "RingBuf"
  /\ env.size # NoSize
  /\ ~RingbufSizeOK(env.size)

\* sysconf(_SC_PAGESIZE) is only asked on the perf path.
PageSizeUnknown ==
  /\ features.transport = "PerfArray"
  /\ env.size # NoSize

ConfigureTransport ==
  /\ pc = "config"
  /\ \/ /\ ConfigPanics
        /\ Leave("panic", FALSE)
        /\ UNCHANGED config
     \/ /\ PageSizeUnknown
        /\ Leave("Io", TRUE)
        /\ UNCHANGED config
     \/ /\ ~ConfigPanics
        /\ config' =
             IF env.size = NoSize THEN from_mode(features.transport)
             ELSE IF features.transport = "RingBuf" THEN ringbuf(env.size)
             ELSE perfarray(PerfPages(env.size))
        /\ Proceed("config")
        /\ UNCHANGED attached
  /\ UNCHANGED <<env, handlers, stop, features, skel, file, expired>>
-----------------------------------------------------------------------------
(***************************************************************************)
(* The skeleton                                                            *)
(***************************************************************************)
\* The first number of NSpid, getpid if there is none
global_tgid(p) == IF p.nspid # << >> THEN p.nspid[1] ELSE p.id

\* set_autoload(false) on the variants of the other tracepoint mode
Disabled(mode) == Hooks \X (IF mode = "TpBtf" THEN {"raw"} ELSE {"btf"})

\* As declared in wperf.bpf.c; no step of record_impl changes the type.
EventsMapType == "RINGBUF"

\* SkelBuilder::open
open ==
  /\ pc = "open"
  /\ \/ Proceed("open") /\ UNCHANGED attached
     \/ Leave("Bpf", TRUE)
  /\ UNCHANGED <<env, handlers, stop, features, config, skel, file, expired>>

\* Everything between open and load
configure ==
  /\ pc = "configure"
  /\ \/ /\ skel' =
             [autoload    |-> Programs \ Disabled(features.tracepoint),
              self_tgid   |-> global_tgid(env.process),
              targ_single |-> features.block_rq_issue_single_arg,
              max_entries |-> IF features.transport = "RingBuf"
                              THEN config.ringbuf_size
                              ELSE DEFAULT_RINGBUF_SIZE]
        /\ Proceed("configure")
        /\ UNCHANGED attached
     \/ /\ Leave("Bpf", TRUE)  \* no .bss, no .rodata, set_max_entries
        /\ UNCHANGED skel
  /\ UNCHANGED <<env, handlers, stop, features, config, file, expired>>

\* The kernel can load the program: tp_btf needs the typedef of its tracepoint.
Loadable(k, prog) ==
  prog[2] = "btf" =>
    IF prog[1] \in {"sched_switch", "sched_wakeup"} THEN k.sched ELSE k.block

\* reserve_buf and submit_buf: bpf_core_type_exists(struct bpf_ringbuf) selects
\* the helpers when the object is loaded, and with them the type that the
\* verifier wants of `events`.
HelperMapType(k) == IF k.ringbuf THEN "RINGBUF" ELSE "PERF_EVENT_ARRAY"

\* libbpf's load: creates the maps and has every selected program verified.
LoadSucceeds(k, s) ==
  /\ EventsMapType = "RINGBUF" => k.ringbuf /\ s.max_entries > 0
  /\ EventsMapType = HelperMapType(k)
  /\ \A prog \in s.autoload : Loadable(k, prog)

load ==
  /\ pc = "load"
  /\ \/ /\ LoadSucceeds(env.kernel, skel)
        /\ Proceed("load")
        /\ UNCHANGED attached
     \/ /\ ~LoadSucceeds(env.kernel, skel)
        /\ Leave("Bpf", FALSE)
     \/ Leave("Bpf", TRUE)
  /\ UNCHANGED <<env, handlers, stop, features, config, skel, file, expired>>

\* attach is all or nothing: after an error the links made so far are dropped.
attach ==
  /\ pc = "attach"
  /\ \/ /\ env.kernel.futex
        /\ attached' = skel.autoload
        /\ Proceed("attach")
     \/ /\ ~env.kernel.futex
        /\ Leave("Bpf", FALSE)
     \/ Leave("Bpf", TRUE)
  /\ UNCHANGED <<env, handlers, stop, features, config, skel, file, expired>>
-----------------------------------------------------------------------------
(***************************************************************************)
(* Output, deadline, poll loop                                             *)
(***************************************************************************)
\* File::create truncates the output.  WperfWriter::new writes the header into
\* the BufWriter, which cannot fail yet.
create ==
  /\ pc = "create"
  /\ \/ /\ file' = "created"
        /\ Proceed("create")
        /\ UNCHANGED attached
     \/ /\ Leave("Io", TRUE)
        /\ UNCHANGED file
  /\ UNCHANGED <<env, handlers, stop, features, config, skel, expired>>

\* Duration::from_secs_f64 and Instant + Duration panic on what they cannot
\* represent.
SetDeadline ==
  /\ pc = "deadline"
  /\ IF env.duration = "huge"
     THEN Leave("panic", FALSE)
     ELSE Proceed("deadline") /\ UNCHANGED attached
  /\ UNCHANGED <<env, handlers, stop, features, config, skel, file, expired>>

\* RingBufferBuilder and PerfBufferBuilder both check the type of the map.
PollerMapType(mode) ==
  IF mode = "RingBuf" THEN "RINGBUF" ELSE "PERF_EVENT_ARRAY"

BuildPoller ==
  /\ pc = "build"
  /\ \/ /\ PollerMapType(features.transport) = EventsMapType
        /\ Proceed("build")
        /\ UNCHANGED attached
     \/ /\ PollerMapType(features.transport) # EventsMapType
        /\ Leave("Bpf", FALSE)
     \/ Leave("Bpf", TRUE)
  /\ UNCHANGED <<env, handlers, stop, features, config, skel, file, expired>>

DeadlinePasses ==
  /\ pc = "poll"
  /\ env.duration = "finite"
  /\ ~expired
  /\ expired' = TRUE
  /\ UNCHANGED <<env, pc, handlers, stop, features, config, skel, attached,
                 file, refused, result>>

\* Mutant: the loop only looks at the clock.
LoopEndsByClock == expired

\* The two tests at the top of both poll loops
LoopEnds == stop \/ expired

Poll ==
  /\ pc = "poll"
  /\ \/ LoopEnds /\ Proceed("poll") /\ UNCHANGED attached
     \/ Leave("Io", TRUE)  \* a write fails, in the loop or in the final drain
  /\ UNCHANGED <<env, handlers, stop, features, config, skel, file, expired>>

\* writer.finish and into_inner; then record_impl returns Ok.
Finish ==
  /\ pc = "finish"
  /\ \/ file' = "complete" /\ Leave("ok", FALSE)
     \/ Leave("Io", TRUE) /\ UNCHANGED file
  /\ UNCHANGED <<env, handlers, stop, features, config, skel, expired>>
-----------------------------------------------------------------------------
\* register_signal_handlers, one signal after the other
register(sig) ==
  /\ pc = sig
  /\ \/ /\ handlers' = handlers \cup {sig}
        /\ Proceed(sig)
        /\ UNCHANGED attached
     \/ /\ Leave("SignalSetup", TRUE)
        /\ UNCHANGED handlers
  /\ UNCHANGED <<env, stop, features, config, skel, file, expired>>

\* A signal arrives: the handler sets the flag; without one the process dies.
Signal(sig) ==
  /\ pc # "exited"
  /\ \/ /\ sig \in handlers
        /\ stop' = TRUE
        /\ UNCHANGED <<pc, attached, refused, result>>
     \/ /\ sig \notin handlers
        /\ Leave("killed", FALSE)
        /\ UNCHANGED stop
  /\ UNCHANGED <<env, handlers, features, config, skel, file, expired>>

Step ==
  \/ \E sig \in Signals : register(sig)
  \/ probe_all \/ NoBpfSupport \/ ConfigureTransport
  \/ open \/ configure \/ load \/ attach
  \/ create \/ SetDeadline \/ BuildPoller \/ Poll \/ Finish

Exited == pc = "exited" /\ UNCHANGED startVars

Next == Step \/ DeadlinePasses \/ (\E sig \in Signals : Signal(sig)) \/ Exited

\* The process is scheduled, and time goes on; that a call is refused can never
\* be relied on.
Fairness ==
  WF_startVars(Step /\ UNCHANGED refused) /\ WF_startVars(DeadlinePasses)

Spec == Init /\ [][Next]_startVars /\ Fairness
-----------------------------------------------------------------------------
(***************************************************************************)
(* Properties                                                              *)
(***************************************************************************)
Failures == {"NoBpfSupport", ProbeError, "Bpf", "SignalSetup", "Io", "panic"}

\* While wperf's probes are attached, every hook has exactly one handler, of a
\* kind the kernel has, and the block handlers look for the request in the
\* argument where this kernel passes it.
HooksCoveredOnce ==
  attached # {} =>
    /\ \A hook \in Hooks : \E v \in Variants :
         /\ attached \cap ({hook} \X Variants) = {<<hook, v>>}
         /\ Loadable(env.kernel, <<hook, v>>)
    /\ skel.targ_single = env.kernel.single

\* Documented: global_tgid is the number the probes see also in a container, so
\* the probes skip wperf itself.  Where the container has a /proc of its own,
\* the NSpid line begins with a number of that PID namespace, and they do not.
SkipsItself == attached # {} => skel.self_tgid = env.process.tgid

BadArguments ==
  \/ env.duration = "huge"
  \/ env.size = 0
  \/ env.debug /\ env.size # NoSize /\ ~RingbufSizeOK(env.size)

\* On a kernel with BTF, the ring buffer, the futex tracepoint, and tp_btf for
\* the block tracepoints wherever it has it for the scheduler's, recording
\* fails only if a system call was refused: the probes of the recorder and the
\* load-time selection in the BPF object never contradict each other there.
EveryFailureHasACause ==
  result \in Failures =>
    \/ refused \/ ~env.bpf \/ BadArguments
    \/ ~env.kernel.btf \/ ~env.kernel.ringbuf \/ ~env.kernel.futex
    \/ env.kernel.sched /\ ~env.kernel.block

\* Documented: without the ring buffer wperf falls back to the perf buffer.
\* The type of `events` is never changed, so load fails instead.
FallbackRecords ==
  result \in Failures =>
    \/ refused \/ ~env.bpf \/ BadArguments
    \/ ~env.kernel.btf \/ ~env.kernel.futex
    \/ env.kernel.sched /\ ~env.kernel.block

\* Once both handlers are registered, a signal at any later moment, also during
\* startup, and the end of the duration end the run with a complete file or
\* with an error: the process neither goes on nor dies of the signal.
StopIsHonoured ==
  (handlers = Signals /\ (stop \/ env.duration = "finite")) ~>
    ((result = "ok" /\ file = "complete") \/ result \in Failures)
=============================================================================
