------------------------------- MODULE MCKernel -------------------------------
(* Two cores and three tasks; thread arrays of two entries.  Programs make *)
(* system calls, and reach the int 0x15 of spinLock through printf.        *)
EXTENDS Kernel

MCProgramVectors == {SyscallVector, Deadlock}

(* Task 2 is no valid index until bootMain has created it. *)
MCNamed == {0, 2}

(* The last entry of a new thread array looks used. *)
MCGarbage == {{1}}
=============================================================================
