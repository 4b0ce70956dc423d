---------------------------- MODULE MCKernelHeap ----------------------------
(* Model checking of KernelHeap: see MCKernelHeap.cfg and                   *)
(* MCKernelHeapFull.cfg.                                                    *)
EXTENDS KernelHeap
=============================================================================
