---------------------------- MODULE MC_PerfRdma ----------------------------
(* Instance of the perf_rdma benchmark for TLC: two bench runs of two      *)
(* repetitions in each phase, so that a phase spans several runs and a run *)
(* several repetitions, and one transfer size, after which sg.len *= 2     *)
(* makes the loop test at 216 fail.  Both modes (-w) are initial states.   *)
EXTENDS PerfRdma

MC_MinSizes == {1}
MC_MaxSizes == {1}

=============================================================================
