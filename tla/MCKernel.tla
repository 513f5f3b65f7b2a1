------------------------------ MODULE MCKernel ------------------------------
(* Small instances of Kernel.                                               *)
EXTENDS Kernel

MCSlice == [i \in Ids |-> 2]
=============================================================================
