---------------------------- MODULE KernelDocs ----------------------------
(***************************************************************************)
(* What a comment of the repository says about preemption, stated as a     *)
(* property of Kernel and refuted by its run.                              *)
(***************************************************************************)
EXTENDS MCKernel

\* scheduler.h: sched_tick preempts the current process and switches to the
\* next runnable one "(round-robin)".  A process that neither sleeps nor joins
\* must then run again, exit, or see the machine go off.
DocRoundRobin ==
    \A p \in Pid :
        (p \in Table /\ wake_tick[p] = 0 /\ join_target[p] = NoProc)
            ~> (regs.of = p \/ p \notin Table \/ mode = "off")
=============================================================================
