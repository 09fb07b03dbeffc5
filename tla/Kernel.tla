------------------------------- MODULE Kernel -------------------------------
(***************************************************************************)
(* Processes, system calls and interrupts of the kernel: the trampolines   *)
(* of src/kernel/trampolines.s and context_switch.s, the process syscalls  *)
(* of syscall.c, and process.c, over the table of module Scheduler.        *)
(*                                                                         *)
(* There is one CPU.  SVC handlers run with IRQs masked, so each is one    *)
(* action, from the svc instruction to the return to user mode (or to the  *)
(* wait loop).  The exceptions are the two places that unmask IRQs: the    *)
(* console reads (mode "read") and the wait loops .Lsvc_spin and           *)
(* .Lirq_check (mode "idle").                                              *)
(*                                                                         *)
(* A register file has three fields: of, the process whose code and stack  *)
(* pc, sp, lr and cpsr point into; r0, the argument and result register;   *)
(* gpr, the others, which a system call must preserve.                     *)
(***************************************************************************)
EXTENDS Scheduler

CONSTANTS
    Vals,          \* contents of the preserved registers
    Codes,         \* exit codes
    Syscalls,      \* the system calls the user programs of this instance make
    ExecResults,   \* how process_replace may end
    UninitJoin,    \* what join_target of a fresh, unzeroed struct may hold
    UninitWake     \* the same for wake_tick

ASSUME KernelConstants ==
    /\ Vals \subseteq Int /\ 0 \in Vals
    /\ Codes \subseteq Int
    /\ ExecResults \subseteq {"ok", "fail", "fail_stack"}
    /\ UninitJoin \subseteq Pid \cup {NoProc} /\ 0 \in UninitJoin
    /\ UninitWake \subseteq 0 .. MaxSleep + 1 /\ 0 \in UninitWake

VARIABLES
    mode,      \* what the CPU executes: "user", "read", "idle" or "off"
    regs,      \* the user register file: in the CPU, or in the SVC frame of a read
    ttbr0,     \* the process whose page table is installed, or KernelTable
    ctx,       \* pid -> register file saved in process_t.ctx
    next_pid,  \* the next pid to hand out
    line       \* g_line_ready of the console: a line waits to be read

kernVars == <<mode, regs, ttbr0, ctx, next_pid, line>>
vars == <<procs, current_proc, suspended, wake_tick, join_target,
          mode, regs, ttbr0, ctx, next_pid, line>>

KernelTable == 0
Err == -1
NoRegs == [of |-> NoProc, r0 |-> 0, gpr |-> 0]
RegFile == [of : Pid \cup {NoProc}, r0 : Pid \cup Vals \cup Codes \cup {0, Err}, gpr : Vals]

\* After process_create and process_exec of the init process: it is alone in
\* the table and enters user mode.  Its struct comes unzeroed from the heap.
Init ==
    /\ procs = [i \in Slots |-> IF i = 0 THEN 1 ELSE NoProc]
    /\ current_proc = 1
    /\ suspended = {}
    /\ \E w \in UninitWake : wake_tick = [p \in Pid |-> IF p = 1 THEN w ELSE 0]
    /\ \E j \in UninitJoin : join_target = [p \in Pid |-> IF p = 1 THEN j ELSE NoProc]
    /\ \E g \in Vals : ctx = [p \in Pid |-> IF p = 1 THEN [NoRegs EXCEPT !.gpr = g]
                                                     ELSE NoRegs]
    /\ mode = "user"
    /\ regs = [of |-> 1, r0 |-> 0, gpr |-> 0]
    /\ ttbr0 = 1
    /\ next_pid = 2
    /\ line = FALSE

-----------------------------------------------------------------------------
(* Entering user mode and leaving a system call.                           *)

\* context_switch(next), and .Lirq_restore_user for next = current_proc: load
\* the page table and the saved registers of next.  saved is ctx by then.
context_switch(next, saved) ==
    /\ mode' = "user"
    /\ regs' = saved[next]
    /\ ttbr0' = next

\* .Lsvc_yield: save the user registers in current_proc->ctx with the result
\* in r0, then run the next process, or wait when there is none.  tbl, susp,
\* saved and tt are the table, the suspended set, the saved contexts and TTBR0
\* as the handler leaves them.
svc_yield(ret, tbl, susp, saved, tt) ==
    LET yielded == [saved EXCEPT ![current_proc] = [regs EXCEPT !.r0 = ret]]
    IN  /\ ctx' = yielded
        /\ \/ \E p \in Pid : /\ sched_pick_next(tbl, susp, p)
                             /\ current_proc' = p
                             /\ context_switch(p, yielded)
           \/ /\ NoneRunnable(tbl, susp)
              /\ mode' = "idle" /\ regs' = NoRegs /\ ttbr0' = tt
              /\ UNCHANGED current_proc

\* The tail of handle_svc: yield when current_proc is suspended by now, else
\* return to the caller.
svc_tail(ret, tbl, susp, saved, tt) ==
    \/ /\ current_proc \in susp
       /\ svc_yield(ret, tbl, susp, saved, tt)
    \/ /\ current_proc \notin susp
       /\ mode' = "user" /\ regs' = [regs EXCEPT !.r0 = ret] /\ ttbr0' = tt
       /\ ctx' = saved
       /\ UNCHANGED current_proc

\* The CPU can fetch user instructions only through a process page table.
CanRun == mode = "user" /\ ttbr0 # KernelTable

Calls(name) == CanRun /\ name \in Syscalls

-----------------------------------------------------------------------------
(* User mode.                                                              *)

\* The program computes: it may change any of its registers.
Compute ==
    /\ CanRun
    /\ \E v \in Vals : regs' = [regs EXCEPT !.r0 = v, !.gpr = v]
    /\ UNCHANGED <<schedVars, mode, ttbr0, ctx, next_pid, line>>

\* Without a process table the first instruction fetch aborts; the handler panics.
PrefetchAbort ==
    /\ mode = "user" /\ ttbr0 = KernelTable
    /\ mode' = "off"
    /\ UNCHANGED <<schedVars, regs, ttbr0, ctx, next_pid, line>>

-----------------------------------------------------------------------------
(* System calls.                                                           *)

svc_getpid ==
    /\ Calls("getpid")
    /\ svc_tail(current_proc, procs, suspended, ctx, ttbr0)
    /\ UNCHANGED <<procs, suspended, wake_tick, join_target, next_pid, line>>

\* process_fork: the child takes the parent's saved ctx, not its live
\* registers, and r0 = 0; its join_target is not initialised.  The pid is
\* consumed before sched_add can fail.
svc_fork ==
    /\ Calls("fork")
    /\ next_pid <= MaxPid
    /\ next_pid' = next_pid + 1
    /\ \/ /\ sched_add(next_pid)
          /\ suspended' = suspended \ {next_pid}
          /\ wake_tick' = [wake_tick EXCEPT ![next_pid] = 0]
          /\ \E j \in UninitJoin : join_target' = [join_target EXCEPT ![next_pid] = j]
          /\ svc_tail(next_pid, procs', suspended',
                 [ctx EXCEPT ![next_pid] = [ctx[current_proc] EXCEPT !.of = next_pid,
                                                                     !.r0 = 0]],
                 ttbr0)
       \/ /\ TableFull
          /\ svc_tail(Err, procs, suspended, ctx, ttbr0)
          /\ UNCHANGED <<procs, suspended, join_target, wake_tick>>
    /\ UNCHANGED line

\* process_fork runs out of memory for the struct, a table or a page.
svc_fork_oom ==
    /\ Calls("fork")
    /\ svc_tail(Err, procs, suspended, ctx, ttbr0)
    /\ UNCHANGED <<procs, suspended, wake_tick, join_target, next_pid, line>>

\* process_exit(current_proc->pid, code): unlink, free, wake the joiners and
\* switch.  The fields of the freed struct go back to their defaults.
svc_exit(code) ==
    /\ Calls("exit")
    /\ LET tbl   == sched_remove(current_proc)
           woken == Joiners(tbl, current_proc)
           susp  == (suspended \ woken) \ {current_proc}
           saved == [p \in Pid |-> IF p = current_proc THEN NoRegs
                                   ELSE IF p \in woken THEN [ctx[p] EXCEPT !.r0 = code]
                                   ELSE ctx[p]]
       IN /\ procs' = tbl
          /\ suspended' = susp
          /\ ctx' = saved
          /\ join_target' = [p \in Pid |-> IF p \in woken \cup {current_proc}
                                             THEN NoProc ELSE join_target[p]]
          /\ wake_tick' = [wake_tick EXCEPT ![current_proc] = 0]
          /\ \/ \E p \in Pid : /\ sched_pick_next(tbl, susp, p)
                               /\ current_proc' = p
                               /\ context_switch(p, saved)
             \/ /\ NoneRunnable(tbl, susp)        \* poweroff()
                /\ mode' = "off" /\ regs' = NoRegs
                /\ UNCHANGED <<current_proc, ttbr0>>
    /\ UNCHANGED <<next_pid, line>>

svc_join(target) ==
    /\ Calls("join")
    /\ \/ /\ ~sched_get(target)
          /\ svc_tail(Err, procs, suspended, ctx, ttbr0)
          /\ UNCHANGED <<join_target, suspended>>
       \/ /\ sched_get(target)
          /\ join_target' = [join_target EXCEPT ![current_proc] = target]
          /\ suspended' = suspended \cup {current_proc}
          /\ svc_tail(0, procs, suspended', ctx, ttbr0)
    /\ UNCHANGED <<procs, wake_tick, next_pid, line>>

\* Mutant of Deadline: rounded up past the requested time.
DeadlineLate(d) == d + 2

\* The deadline svc_sleep sets, as a distance: due at once for d = 0.
Deadline(d) == d + 1

svc_sleep(d) ==
    /\ Calls("sleep")
    /\ wake_tick' = [wake_tick EXCEPT ![current_proc] = Deadline(d)]
    /\ suspended' = suspended \cup {current_proc}
    /\ svc_tail(0, procs, suspended', ctx, ttbr0)
    /\ UNCHANGED <<procs, join_target, next_pid, line>>

\* TTBR0 after llf_load has copied the segments through the new table.
llf_load == KernelTable

\* process_replace.  On success the struct gets the new image and a cleared
\* context and is switched to.  Failing to find or load the image returns to
\* the caller; running out of stack pages does so too, but by then llf_load
\* has put the kernel table in TTBR0.
svc_exec(result) ==
    /\ Calls("exec")
    /\ \/ /\ result = "ok"
          /\ LET saved == [ctx EXCEPT ![current_proc] = [NoRegs EXCEPT !.of = current_proc]]
             IN  ctx' = saved /\ context_switch(current_proc, saved)
          /\ UNCHANGED current_proc
       \/ result = "fail" /\ svc_tail(0, procs, suspended, ctx, ttbr0)
       \/ result = "fail_stack" /\ svc_tail(0, procs, suspended, ctx, llf_load)
    /\ UNCHANGED <<procs, suspended, wake_tick, join_target, next_pid, line>>

\* svc_read and svc_getchar: unmask IRQs and wait for the console.
svc_read ==
    /\ Calls("read")
    /\ mode' = "read"
    /\ UNCHANGED <<schedVars, regs, ttbr0, ctx, next_pid, line>>

\* The wait is over: mask IRQs and leave through the tail of handle_svc.
svc_read_done ==
    /\ mode = "read" /\ line
    /\ line' = FALSE
    /\ svc_tail(0, procs, suspended, ctx, ttbr0)
    /\ UNCHANGED <<procs, suspended, wake_tick, join_target, next_pid>>

-----------------------------------------------------------------------------
(* Interrupts.                                                             *)

\* Mutant of irq_restore_user: the registers are saved after irq_dispatch.
IrqSaveLate ==
    LET saved == [ctx EXCEPT ![current_proc'] = regs]
    IN  /\ ctx' = saved
        /\ context_switch(current_proc', saved)

\* handle_irq from user mode: the live registers go to current_proc->ctx, the
\* handler runs, then the context of the (possibly new) current_proc is
\* restored; a suspended current_proc would wait first.
irq_restore_user ==
    LET saved == [ctx EXCEPT ![current_proc] = regs]
    IN  /\ ctx' = saved
        /\ IF current_proc' \in suspended'
             THEN mode' = "idle" /\ regs' = NoRegs /\ UNCHANGED ttbr0
             ELSE context_switch(current_proc', saved)

\* The timer interrupt: irq_dispatch, rtc_timer_fired, sched_tick.  From
\* kernel mode nothing is saved or restored.
TimerIrq ==
    /\ mode # "off"
    /\ sched_tick
    /\ \/ mode = "user" /\ irq_restore_user
       \/ mode \in {"read", "idle"} /\ UNCHANGED <<mode, regs, ttbr0, ctx>>
    /\ UNCHANGED <<next_pid, line>>

\* A UART or keyboard interrupt: the character may complete a console line.
InputIrq ==
    /\ mode # "off"
    /\ line' \in {line, TRUE}
    /\ UNCHANGED schedVars
    /\ \/ mode = "user" /\ irq_restore_user
       \/ mode \in {"read", "idle"} /\ UNCHANGED <<mode, regs, ttbr0, ctx>>
    /\ UNCHANGED next_pid

\* .Lsvc_spin / .Lirq_check see the current process runnable and restore it.
WaitDone ==
    /\ mode = "idle"
    /\ current_proc \notin suspended
    /\ context_switch(current_proc, ctx)
    /\ UNCHANGED <<schedVars, ctx, next_pid, line>>

Clock ==
    /\ mode # "off"
    /\ ClockAdvance
    /\ UNCHANGED kernVars

Exit == \E c \in Codes : svc_exit(c)
Join == \E t \in Pid : svc_join(t)
Sleep == \E d \in 0 .. MaxSleep : svc_sleep(d)
Exec == \E r \in ExecResults : svc_exec(r)

Next ==
    \/ Compute \/ PrefetchAbort
    \/ svc_getpid \/ svc_fork \/ svc_fork_oom \/ Exit \/ Join \/ Sleep \/ Exec
    \/ svc_read \/ svc_read_done
    \/ TimerIrq \/ InputIrq \/ WaitDone \/ Clock

Spec == Init /\ [][Next]_vars

\* The timer keeps firing while IRQs are unmasked, the counter keeps counting,
\* and the wait loops keep executing.  User programs owe nothing.
Fairness ==
    /\ WF_vars(TimerIrq)
    /\ WF_vars(Clock)
    /\ WF_vars(WaitDone)

FairSpec == Spec /\ Fairness

-----------------------------------------------------------------------------
(* Properties.                                                             *)

\* Every variable has its type; in particular every slot and context belongs
\* to a pid that was handed out.
TypeOK ==
    /\ SchedTypeOK
    /\ mode \in {"user", "read", "idle", "off"}
    /\ regs \in RegFile
    /\ ttbr0 \in Pid \cup {KernelTable}
    /\ ctx \in [Pid -> RegFile]
    /\ next_pid \in 2 .. MaxPid + 1
    /\ line \in BOOLEAN

\* The table never holds a process twice, holds only pids already handed out,
\* and holds current_proc for as long as the machine runs.
TableOK ==
    /\ \A i, k \in Slots : procs[i] = procs[k] /\ procs[i] # NoProc => i = k
    /\ \A p \in Table : p < next_pid
    /\ mode # "off" => current_proc \in Table

\* User code runs as the process current_proc says, that process is not
\* suspended, and TTBR0 never holds the page table of another process.
RunningIsCurrent ==
    mode = "user" => /\ regs.of = current_proc
                     /\ current_proc \notin suspended
                     /\ ttbr0 \in {current_proc, KernelTable}

\* The context saved for a process that is not running resumes that process:
\* no interrupt, yield or fork stores one process's registers in another's struct.
SavedContextIsOwn ==
    \A p \in Table : regs.of # p => ctx[p].of = p

\* Contexts are never mixed up: the trampolines save before current_proc may
\* move, and restore what belongs to it.
ContextsOK == RunningIsCurrent /\ SavedContextIsOwn

\* A process that waits in join or sleep is suspended, so neither the tick nor
\* a yield can pick it before what it waits for has happened.
BlockedIsSuspended ==
    \A p \in Table : join_target[p] # NoProc \/ wake_tick[p] # 0 => p \in suspended

\* Nobody waits in join for a process that is gone: svc_join checks the table
\* and process_exit releases every joiner, whatever happens in between.
JoinTargetsAlive ==
    \A p \in Table : join_target[p] # NoProc => join_target[p] \in Table

\* Whoever waits stays suspended, and waits for something that can happen.
WaitsOK == BlockedIsSuspended /\ JoinTargetsAlive

\* The kernel as its programs see it, in the terms of module Processes: the
\* registers of a process are in the CPU if it runs and in its struct if not.
ProcView ==
    [p \in Pid |-> IF p \notin Table THEN [r0 |-> 0, gpr |-> 0]
                   ELSE IF regs.of = p THEN [r0 |-> regs.r0, gpr |-> regs.gpr]
                   ELSE [r0 |-> ctx[p].r0, gpr |-> ctx[p].gpr]]
ProcJoins == [p \in Pid |-> IF p \in Table THEN join_target[p] ELSE NoProc]
ProcAsleep == {p \in Table : wake_tick[p] # 0}
ProcRunning == IF mode \in {"user", "read"} THEN regs.of ELSE NoProc

Promise == INSTANCE Processes WITH
    live <- Table, view <- ProcView, joins <- ProcJoins, asleep <- ProcAsleep,
    running <- ProcRunning

\* No process sees its registers change under it: a step of the kernel is a
\* step of the promise made to user programs, or invisible to them.
ImplementsPromise == Promise!Spec

\* The wait loop ends: once every process is suspended and one of them sleeps,
\* the timer brings the machine back to user mode.
SleepersWake ==
    (mode = "idle" /\ \E p \in Table : wake_tick[p] # 0) ~> (mode = "user")
=============================================================================
