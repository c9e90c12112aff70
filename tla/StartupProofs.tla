---------------------------- MODULE StartupProofs ----------------------------
(***************************************************************************)
(* Startup for every set of kernels, every buffer size, every page size    *)
(* and every command line.                                                 *)
(***************************************************************************)
EXTENDS Startup, TLAPS

\* The steps that follow the named one
AfterProbe == {"config", "open", "configure", "load", "attach", "create",
               "deadline", "build", "poll", "finish"}
AfterConfig == AfterProbe \ {"config"}
AfterConfigure == AfterConfig \ {"open", "configure"}
AfterLoad == AfterConfigure \ {"load"}

Pcs == {"SIGINT", "SIGTERM", "probe", "exited"} \cup AfterProbe

\* What probe_all found is about this kernel, and it took the kernel for one
\* without a ring buffer only if that is so or a call was refused.
FeaturesAreTrue ==
  \E denied \in BOOLEAN : /\ features = FeatureMatrix(env.kernel, denied)
                          /\ denied => refused

\* The TransportConfig is the one for these features and this --buffer-size.
ConfigIsTrue ==
  features.transport = "RingBuf" =>
    config.ringbuf_size =
      IF env.size = NoSize THEN DEFAULT_RINGBUF_SIZE ELSE env.size

\* The skeleton is set up for these features.
SkelIsTrue ==
  skel = [autoload    |-> Programs \ Disabled(features.tracepoint),
          self_tgid   |-> global_tgid(env.process),
          targ_single |-> features.block_rq_issue_single_arg,
          max_entries |-> IF features.transport = "RingBuf"
                          THEN config.ringbuf_size
                          ELSE DEFAULT_RINGBUF_SIZE]

\* Each step finds what the steps before it left: the inductive invariant.
StartInv ==
  /\ env.kernel \in Kernels /\ env.process \in Processes /\ env.size \in Sizes
  /\ pc \in Pcs
  /\ pc \in AfterProbe => FeaturesAreTrue
  /\ pc \in AfterConfig => ConfigIsTrue
  /\ pc \in AfterConfigure => SkelIsTrue
  /\ attached # {} => /\ pc \in AfterLoad
                      /\ attached = skel.autoload
  /\ pc \in AfterLoad => LoadSucceeds(env.kernel, skel)
  /\ pc # "exited" => result = "none"
  /\ EveryFailureHasACause
-----------------------------------------------------------------------------
\* The next step, for each step that has one
LEMMA AfterIs ==
  /\ After("SIGINT") = "SIGTERM" /\ After("SIGTERM") = "probe"
  /\ After("probe") = "config" /\ After("config") = "open"
  /\ After("open") = "configure" /\ After("configure") = "load"
  /\ After("load") = "attach" /\ After("attach") = "create"
  /\ After("create") = "deadline" /\ After("deadline") = "build"
  /\ After("build") = "poll" /\ After("poll") = "finish"
BY DEF After, Steps

\* Where nothing was refused and neither kernel nor arguments are to blame, the
\* skeleton that the feature probes ask for is one the kernel loads.
LEMMA ProbesAgreeWithLoad ==
  ASSUME FeaturesAreTrue, ConfigIsTrue, SkelIsTrue,
         env.kernel \in Kernels, env.size \in Sizes,
         ~refused, ~BadArguments, env.kernel.ringbuf,
         ~(env.kernel.sched /\ ~env.kernel.block)
  PROVE  features.transport = "RingBuf" /\ LoadSucceeds(env.kernel, skel)
<1>1. features = FeatureMatrix(env.kernel, FALSE)
  BY DEF FeaturesAreTrue
<1>2. /\ features.transport = "RingBuf"
      /\ features.tracepoint = probe_tp_btf(env.kernel)
  BY <1>1 DEF FeatureMatrix, probe_ringbuf
<1>3. skel.max_entries > 0
  <2>1. skel.max_entries = IF env.size = NoSize THEN DEFAULT_RINGBUF_SIZE ELSE env.size
    BY <1>2 DEF ConfigIsTrue, SkelIsTrue
  <2>2. DEFAULT_RINGBUF_SIZE > 0
    BY StartupAssumption DEF DEFAULT_RINGBUF_SIZE
  <2>3. env.size # NoSize => env.size \in Nat /\ env.size # 0
    BY StartupAssumption DEF BadArguments
  <2> QED BY <2>1, <2>2, <2>3
<1>4. ASSUME NEW prog \in skel.autoload PROVE Loadable(env.kernel, prog)
  <2>1. skel.autoload = Programs \ Disabled(probe_tp_btf(env.kernel))
    BY <1>2 DEF SkelIsTrue
  <2>2. CASE env.kernel.sched
    BY <1>4, <2>1, <2>2 DEF Loadable
  <2>3. CASE ~env.kernel.sched
    <3>1. Disabled(probe_tp_btf(env.kernel)) = Hooks \X {"btf"}
      BY <2>3 DEF Disabled, probe_tp_btf
    <3>2. prog[2] # "btf"
      BY <1>4, <2>1, <3>1 DEF Programs, Futex, Variants
    <3> QED BY <3>2 DEF Loadable
  <2> QED BY <2>2, <2>3
<1> QED BY <1>2, <1>3, <1>4 DEF LoadSucceeds, EventsMapType, HelperMapType

\* A run starts in the invariant.
LEMMA InitStartInv == Init => StartInv
<1> SUFFICES ASSUME Init PROVE StartInv
  OBVIOUS
<1>1. /\ pc = "SIGINT" /\ attached = {} /\ result = "none"
  BY DEF Init, Steps
<1>2. env.kernel \in Kernels /\ env.process \in Processes /\ env.size \in Sizes
  BY DEF Init
<1> QED BY <1>1, <1>2
        DEF StartInv, Pcs, AfterProbe, AfterConfig, AfterConfigure, AfterLoad,
            EveryFailureHasACause, Failures, ProbeError

\* The run ends: with no failure, or with one that has a cause.
LEMMA LeaveStartInv ==
  ASSUME StartInv, NEW how, NEW why, Leave(how, why), UNCHANGED env,
         \/ how \notin Failures \/ why
         \/ ~env.bpf \/ BadArguments
         \/ ~env.kernel.btf \/ ~env.kernel.ringbuf \/ ~env.kernel.futex
         \/ env.kernel.sched /\ ~env.kernel.block
         \/ refused
  PROVE  StartInv'
<1>1. /\ pc' = "exited" /\ result' = how /\ attached' = {}
      /\ refused' = (refused \/ why)
  BY DEF Leave
<1>2. EveryFailureHasACause'
  BY <1>1 DEF EveryFailureHasACause, BadArguments
<1> QED BY <1>1, <1>2
        DEF StartInv, Pcs, AfterProbe, AfterConfig, AfterConfigure, AfterLoad

\* Every step of the run, the passing of the deadline and every signal keep the
\* invariant.
LEMMA NextStartInv == StartInv /\ [Next]_startVars => StartInv'
<1> SUFFICES ASSUME StartInv, [Next]_startVars PROVE StartInv'
  OBVIOUS
<1>0. /\ env.kernel \in Kernels /\ env.process \in Processes /\ env.size \in Sizes
      /\ pc \in AfterProbe => FeaturesAreTrue
      /\ pc \in AfterConfig => ConfigIsTrue
      /\ pc \in AfterConfigure => SkelIsTrue
      /\ attached # {} => pc \in AfterLoad /\ attached = skel.autoload
      /\ pc \in AfterLoad => LoadSucceeds(env.kernel, skel)
      /\ pc # "exited" => result = "none"
      /\ EveryFailureHasACause
  BY DEF StartInv
<1> USE DEF AfterLoad, AfterConfigure, AfterConfig, AfterProbe
<1>1. ASSUME NEW sig \in Signals, register(sig) PROVE StartInv'
  <2>1. CASE Leave("SignalSetup", TRUE)
    BY <1>1, <2>1, LeaveStartInv DEF register
  <2>2. CASE Proceed(sig) /\ UNCHANGED attached
    <3>1. /\ pc = sig /\ pc' \in {"SIGTERM", "probe"}
          /\ UNCHANGED <<env, attached, refused, result, skel>>
      BY <1>1, <2>2, AfterIs DEF register, Proceed, Signals
    <3>2. attached' = {}
      BY <1>0, <3>1 DEF Signals
    <3> QED BY <1>0, <3>1, <3>2
            DEF StartInv, Pcs, EveryFailureHasACause, BadArguments, Signals
  <2> QED BY <1>1, <2>1, <2>2 DEF register
<1>2. CASE probe_all
  <2>1. CASE ~probe_btf(env.kernel) /\ Leave(ProbeError, FALSE)
    BY <1>2, <2>1, LeaveStartInv DEF probe_all, probe_btf
  <2>2. CASE ~(~probe_btf(env.kernel) /\ Leave(ProbeError, FALSE))
    <3>1. PICK denied \in BOOLEAN : /\ features' = FeatureMatrix(env.kernel, denied)
                                    /\ refused' = (refused \/ denied)
      BY <1>2, <2>2 DEF probe_all
    <3>2. pc = "probe" /\ pc' = "config" /\ UNCHANGED <<env, attached, result, skel>>
      BY <1>2, <2>2, AfterIs DEF probe_all
    <3>3. FeaturesAreTrue'
      BY <3>1, <3>2 DEF FeaturesAreTrue
    <3>4. attached' = {} /\ EveryFailureHasACause'
      BY <1>0, <3>2 DEF EveryFailureHasACause, Failures, ProbeError
    <3> QED BY <1>0, <3>2, <3>3, <3>4 DEF StartInv, Pcs
  <2> QED BY <2>1, <2>2
<1>3. CASE NoBpfSupport
  BY <1>3, LeaveStartInv DEF NoBpfSupport
<1>4. CASE ConfigureTransport
  <2>1. CASE ConfigPanics /\ Leave("panic", FALSE)
    <3>1. BadArguments
      BY <2>1 DEF ConfigPanics, BadArguments
    <3> QED BY <1>4, <2>1, <3>1, LeaveStartInv DEF ConfigureTransport
  <2>2. CASE Leave("Io", TRUE)
    BY <1>4, <2>2, LeaveStartInv DEF ConfigureTransport
  <2>3. CASE /\ config' =
                  IF env.size = NoSize THEN from_mode(features.transport)
                  ELSE IF features.transport = "RingBuf" THEN ringbuf(env.size)
                  ELSE perfarray(PerfPages(env.size))
             /\ Proceed("config") /\ UNCHANGED attached
    <3>1. /\ pc = "config" /\ pc' = "open"
          /\ UNCHANGED <<env, features, attached, refused, result, skel>>
      BY <1>4, <2>3, AfterIs DEF ConfigureTransport, Proceed
    <3>2. ConfigIsTrue'
      BY <2>3, <3>1 DEF ConfigIsTrue, from_mode, ringbuf, perfarray
    <3>3. FeaturesAreTrue' /\ attached' = {} /\ EveryFailureHasACause'
      BY <1>0, <3>1 DEF FeaturesAreTrue, EveryFailureHasACause, BadArguments
    <3> QED BY <1>0, <3>1, <3>2, <3>3 DEF StartInv, Pcs
  <2> QED BY <1>4, <2>1, <2>2, <2>3 DEF ConfigureTransport
<1>5. CASE open
  <2>1. CASE Leave("Bpf", TRUE)
    BY <1>5, <2>1, LeaveStartInv DEF open
  <2>2. CASE Proceed("open") /\ UNCHANGED attached
    <3>1. /\ pc = "open" /\ pc' = "configure"
          /\ UNCHANGED <<env, features, config, attached, refused, result, skel>>
      BY <1>5, <2>2, AfterIs DEF open, Proceed
    <3> QED BY <1>0, <3>1 DEF StartInv, Pcs, FeaturesAreTrue, ConfigIsTrue,
                              EveryFailureHasACause, BadArguments
  <2> QED BY <1>5, <2>1, <2>2 DEF open
<1>6. CASE configure
  <2>1. CASE Leave("Bpf", TRUE)
    BY <1>6, <2>1, LeaveStartInv DEF configure
  <2>2. CASE ~Leave("Bpf", TRUE)
    <3>1. /\ pc = "configure" /\ pc' = "load"
          /\ UNCHANGED <<env, features, config, attached, refused, result>>
      BY <1>6, <2>2, AfterIs DEF configure, Proceed
    <3>2. SkelIsTrue'
      BY <1>6, <2>2, <3>1 DEF configure, SkelIsTrue
    <3> QED BY <1>0, <3>1, <3>2 DEF StartInv, Pcs, FeaturesAreTrue, ConfigIsTrue,
                              EveryFailureHasACause, BadArguments
  <2> QED BY <2>1, <2>2
<1>7. CASE load
  <2>1. CASE ~LoadSucceeds(env.kernel, skel) /\ Leave("Bpf", FALSE)
    <3>1. FeaturesAreTrue /\ ConfigIsTrue /\ SkelIsTrue /\ UNCHANGED env
      BY <1>0, <1>7 DEF load
    <3> QED BY <1>0, <2>1, <3>1, ProbesAgreeWithLoad, LeaveStartInv
  <2>2. CASE Leave("Bpf", TRUE)
    BY <1>7, <2>2, LeaveStartInv DEF load
  <2>3. CASE LoadSucceeds(env.kernel, skel) /\ Proceed("load") /\ UNCHANGED attached
    <3>1. /\ pc = "load" /\ pc' = "attach"
          /\ UNCHANGED <<env, features, config, attached, refused, result, skel>>
      BY <1>7, <2>3, AfterIs DEF load, Proceed
    <3> QED BY <1>0, <2>3, <3>1
            DEF StartInv, Pcs, FeaturesAreTrue, ConfigIsTrue, SkelIsTrue,
                EveryFailureHasACause, BadArguments
  <2> QED BY <1>7, <2>1, <2>2, <2>3 DEF load
<1>8. CASE attach
  <2>1. CASE ~env.kernel.futex /\ Leave("Bpf", FALSE)
    BY <1>8, <2>1, LeaveStartInv DEF attach
  <2>2. CASE Leave("Bpf", TRUE)
    BY <1>8, <2>2, LeaveStartInv DEF attach
  <2>3. CASE attached' = skel.autoload /\ Proceed("attach")
    <3>1. /\ pc = "attach" /\ pc' = "create" /\ attached' = skel'.autoload
          /\ UNCHANGED <<env, features, config, refused, result, skel>>
      BY <1>8, <2>3, AfterIs DEF attach, Proceed
    <3> QED BY <1>0, <3>1
            DEF StartInv, Pcs, FeaturesAreTrue, ConfigIsTrue, SkelIsTrue,
                EveryFailureHasACause, BadArguments
  <2> QED BY <1>8, <2>1, <2>2, <2>3 DEF attach
<1>9. ASSUME pc \in AfterLoad, pc' \in AfterLoad,
             UNCHANGED <<env, features, config, attached, refused, result, skel>>
      PROVE  StartInv'
  BY <1>0, <1>9 DEF StartInv, Pcs, FeaturesAreTrue, ConfigIsTrue, SkelIsTrue,
                    EveryFailureHasACause, BadArguments
<1>10. CASE create
  <2>1. CASE Leave("Io", TRUE)
    BY <1>10, <2>1, LeaveStartInv DEF create
  <2>2. CASE Proceed("create") /\ UNCHANGED attached
    BY <1>9, <1>10, <2>2, AfterIs DEF create, Proceed
  <2> QED BY <1>10, <2>1, <2>2 DEF create
<1>11. CASE SetDeadline
  <2>1. CASE env.duration = "huge"
    BY <1>11, <2>1, LeaveStartInv DEF SetDeadline, BadArguments
  <2>2. CASE env.duration # "huge"
    BY <1>9, <1>11, <2>2, AfterIs DEF SetDeadline, Proceed
  <2> QED BY <2>1, <2>2
<1>12. CASE BuildPoller
  <2>1. CASE PollerMapType(features.transport) # EventsMapType /\ Leave("Bpf", FALSE)
    <3>1. FeaturesAreTrue /\ ConfigIsTrue /\ SkelIsTrue /\ UNCHANGED env
      BY <1>0, <1>12 DEF BuildPoller
    <3>2. features.transport # "RingBuf"
      BY <2>1 DEF PollerMapType, EventsMapType
    <3> QED BY <1>0, <2>1, <3>1, <3>2, ProbesAgreeWithLoad, LeaveStartInv
  <2>2. CASE Leave("Bpf", TRUE)
    BY <1>12, <2>2, LeaveStartInv DEF BuildPoller
  <2>3. CASE Proceed("build") /\ UNCHANGED attached
    BY <1>9, <1>12, <2>3, AfterIs DEF BuildPoller, Proceed
  <2> QED BY <1>12, <2>1, <2>2, <2>3 DEF BuildPoller
<1>13. CASE Poll
  <2>1. CASE Leave("Io", TRUE)
    BY <1>13, <2>1, LeaveStartInv DEF Poll
  <2>2. CASE Proceed("poll") /\ UNCHANGED attached
    BY <1>9, <1>13, <2>2, AfterIs DEF Poll, Proceed
  <2> QED BY <1>13, <2>1, <2>2 DEF Poll
<1>14. CASE Finish
  <2>1. CASE Leave("ok", FALSE)
    BY <1>14, <2>1, LeaveStartInv DEF Finish, Failures, ProbeError
  <2>2. CASE Leave("Io", TRUE)
    BY <1>14, <2>2, LeaveStartInv DEF Finish
  <2> QED BY <1>14, <2>1, <2>2 DEF Finish
<1>15. ASSUME UNCHANGED <<env, pc, features, config, attached, refused, result, skel>>
       PROVE  StartInv'
  BY <1>0, <1>15 DEF StartInv, FeaturesAreTrue, ConfigIsTrue, SkelIsTrue,
                     EveryFailureHasACause, BadArguments
<1>16. CASE DeadlinePasses
  BY <1>15, <1>16 DEF DeadlinePasses
<1>17. ASSUME NEW sig \in Signals, Signal(sig) PROVE StartInv'
  <2>1. CASE Leave("killed", FALSE)
    BY <1>17, <2>1, LeaveStartInv DEF Signal, Failures, ProbeError
  <2>2. CASE ~Leave("killed", FALSE)
    BY <1>15, <1>17, <2>2 DEF Signal
  <2> QED BY <2>1, <2>2
<1>18. CASE Exited \/ UNCHANGED startVars
  BY <1>15, <1>18 DEF Exited, startVars
<1> QED
  BY <1>1, <1>2, <1>3, <1>4, <1>5, <1>6, <1>7, <1>8, <1>10, <1>11, <1>12, <1>13,
     <1>14, <1>16, <1>17, <1>18
     DEF Next, Step

LEMMA StartInvariant == Spec => []StartInv
<1> QED BY InitStartInv, NextStartInv, PTL DEF Spec
-----------------------------------------------------------------------------
\* On every kernel: what the feature probes of the recorder decide never
\* contradicts what the BPF object selects when it is loaded.  Recording fails
\* only because of a refused call, of its arguments or its build, or because
\* the kernel lacks what wperf cannot do without.
THEOREM EveryFailureHasACauseHolds == Spec => []EveryFailureHasACause
<1>1. StartInv => EveryFailureHasACause
  BY DEF StartInv
<1> QED BY <1>1, StartInvariant, PTL

\* On every kernel and in every PID namespace: attached probes cover every hook
\* once, in a variant this kernel has, and find the request where this kernel
\* passes it.
THEOREM HooksCoveredOnceHolds == Spec => []HooksCoveredOnce
<1>1. StartInv => HooksCoveredOnce
  <2> SUFFICES ASSUME StartInv, attached # {} PROVE HooksCoveredOnce
    BY DEF HooksCoveredOnce
  <2>1. /\ env.kernel \in Kernels /\ env.process \in Processes
        /\ FeaturesAreTrue /\ SkelIsTrue /\ LoadSucceeds(env.kernel, skel)
        /\ attached = skel.autoload
    BY DEF StartInv, AfterProbe, AfterConfig, AfterConfigure, AfterLoad
  <2>2. PICK denied \in BOOLEAN : features = FeatureMatrix(env.kernel, denied)
    BY <2>1 DEF FeaturesAreTrue
  <2>3. /\ features.tracepoint = probe_tp_btf(env.kernel)
        /\ features.block_rq_issue_single_arg
             = probe_block_rq_issue_single_arg(env.kernel)
    BY <2>2 DEF FeatureMatrix
  <2>4. /\ attached = Programs \ Disabled(probe_tp_btf(env.kernel))
        /\ skel.targ_single = probe_block_rq_issue_single_arg(env.kernel)
    BY <2>1, <2>3 DEF SkelIsTrue
  <2>5. ASSUME NEW hook \in Hooks
        PROVE  \E v \in Variants :
                 /\ attached \cap ({hook} \X Variants) = {<<hook, v>>}
                 /\ Loadable(env.kernel, <<hook, v>>)
    <3>1. PICK v \in Variants : /\ probe_tp_btf(env.kernel) = "TpBtf" <=> v = "btf"
                                /\ v # "btf" => v = "raw"
      BY DEF Variants
    <3>2. Disabled(probe_tp_btf(env.kernel)) = Hooks \X (Variants \ {v})
      BY <3>1 DEF Disabled, Variants
    <3>3. \A w \in Variants : <<hook, w>> \in attached <=> w = v
      BY <2>4, <3>2 DEF Programs, Futex, Variants
    <3>4. attached \cap ({hook} \X Variants) = {<<hook, v>>}
      BY <3>3
    <3>5. Loadable(env.kernel, <<hook, v>>)
      BY <2>1, <3>3 DEF LoadSucceeds
    <3> QED BY <3>4, <3>5
  <2>6. skel.targ_single = env.kernel.single
    <3>1. env.kernel.single \in BOOLEAN
      BY <2>1, StartupAssumption DEF Kernel
    <3>2. probe_block_rq_issue_single_arg(env.kernel) <=> env.kernel.single
      BY <2>1, StartupAssumption
         DEF probe_block_rq_issue_single_arg, btf_typedef_func_proto_vlen
    <3>3. probe_block_rq_issue_single_arg(env.kernel) \in BOOLEAN
      BY DEF probe_block_rq_issue_single_arg, kernel_version_ge
    <3> QED BY <2>4, <3>1, <3>2, <3>3, Zenon
  <2> QED BY <2>5, <2>6 DEF HooksCoveredOnce
<1> QED BY <1>1, StartInvariant, PTL
=============================================================================
