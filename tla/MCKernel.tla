----------------------------- MODULE MCKernel -----------------------------
(***************************************************************************)
(* Instances of Kernel for TLC.                                            *)
(***************************************************************************)
EXTENDS Kernel

\* Every system call whose handler runs with IRQs masked throughout.
MaskedCalls == {"getpid", "fork", "exit", "join", "sleep", "exec"}

\* The above and the console reads, which unmask IRQs.
AllCalls == MaskedCalls \cup {"read"}

AllExecResults == {"ok", "fail", "fail_stack"}
=============================================================================
