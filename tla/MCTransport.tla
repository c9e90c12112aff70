---------------------------- MODULE MCTransport ----------------------------
(***************************************************************************)
(* `wperf record` on either transport: record_impl of src/record.rs takes  *)
(* the ring buffer (Recorder) or the perf buffers (PerfArray), as the      *)
(* feature probes found, before the first event, and never changes over.   *)
(***************************************************************************)
EXTENDS Recorder, PerfArray

VARIABLE transport  \* features.transport

TransportInit ==
  /\ Init /\ PerfInit
  /\ transport \in {"RingBuf", "PerfArray"}

RingBufNext ==
  transport = "RingBuf" /\ Next /\ UNCHANGED <<perfVars, transport>>

PerfArrayNext ==
  transport = "PerfArray" /\ PerfNext /\ UNCHANGED <<vars, transport>>

TransportNext == RingBufNext \/ PerfArrayNext

\* Fairness of Recorder, where the recorder runs on the ring buffer
TransportSpec ==
  /\ TransportInit
  /\ [][TransportNext]_<<vars, perfVars, transport>>
  /\ WF_vars(transport = "RingBuf" /\ Poll)
  /\ \A c \in Context :
       WF_vars(transport = "RingBuf" /\ (fill_timestamp_and_cpu(c) \/ submit_buf(c)))
=============================================================================
