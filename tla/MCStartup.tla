----------------------------- MODULE MCStartup -----------------------------
EXTENDS Startup

\* Nothing, nothing at all, less than a page, a page and a bit, two pages
MCSizes == {NoSize, 0, 3, 5, 8}

K(ring, sched, block, single, release) ==
  [btf |-> TRUE, ringbuf |-> ring, sched |-> sched, block |-> block,
   single |-> single, release |-> release, futex |-> TRUE,
   bpf_loop |-> IF release[1] > 5 THEN 1 ELSE IF ring THEN 0 ELSE -1,
   cgroupv2 |-> single]

Modern == K(TRUE, TRUE, TRUE, TRUE, <<6, 1>>)

\* A modern kernel; 5.8 and a 5.10 without typedefs; an enterprise kernel with
\* the block layer of a newer one; one that calls itself 5.15+; and kernels
\* that lack BTF, the futex tracepoint, or half of tp_btf.
RingKernels ==
  {Modern,
   K(TRUE, TRUE, TRUE, FALSE, <<5, 8>>),
   K(TRUE, FALSE, FALSE, FALSE, <<5, 10>>),
   K(TRUE, TRUE, TRUE, TRUE, <<4, 18>>),
   K(TRUE, TRUE, TRUE, TRUE, <<5, 0>>),
   [Modern EXCEPT !.btf = FALSE],
   [Modern EXCEPT !.futex = FALSE],
   K(TRUE, TRUE, FALSE, TRUE, <<5, 11>>)}

\* 4.18 and 5.5: no ring buffer
AllKernels ==
  RingKernels \cup {K(FALSE, FALSE, FALSE, FALSE, <<4, 18>>),
                    K(FALSE, TRUE, TRUE, FALSE, <<5, 5>>)}

\* On the host; on the host without NSpid; in a container that sees the host's
\* /proc; and in one with a /proc of its own, where NSpid begins with the
\* namespace that mounted it.
AllProcesses ==
  {[tgid |-> 7, id |-> 7, nspid |-> <<7>>],
   [tgid |-> 7, id |-> 7, nspid |-> << >>],
   [tgid |-> 7, id |-> 1, nspid |-> <<7, 1>>],
   [tgid |-> 7, id |-> 1, nspid |-> <<1>>]}
=============================================================================
