---------------------------- MODULE KernelProofs ----------------------------
(***************************************************************************)
(* Proofs about Kernel for every table size, pid bound and set of system   *)
(* calls.                                                                  *)
(***************************************************************************)
EXTENDS Kernel, TLAPS

\* The slot arithmetic of the two scheduler loops stays inside the table.
LEMMA SlotArith ==
    ASSUME NEW x \in Nat
    PROVE  x % MaxProcs \in Slots
  BY SchedConstants DEF Slots

\* The loop of sched_tick, which stops one short of a full turn, never comes
\* back to the slot it started from.
LEMMA OtherSlot ==
    ASSUME NEW a \in Slots, NEW j \in 1 .. MaxProcs - 1
    PROVE  (a + j) % MaxProcs # a
  <1> DEFINE n == MaxProcs
  <1>0. n \in Nat /\ n >= 1 /\ a \in 0 .. n - 1 /\ j \in 1 .. n - 1
    BY SchedConstants DEF Slots
  <1> HIDE DEF n
  <1>1. (a + j) % n # a
    <2>1. CASE a + j < n
      BY <1>0, <2>1
    <2>2. CASE a + j >= n
      <3>1. PICK b \in 0 .. n - 1 : b = a + j - n
        BY <1>0, <2>2
      <3>2. (b + n) % n = b
        BY <1>0
      <3>3. QED  BY <1>0, <3>1, <3>2
    <2>3. QED  BY <1>0, <2>1, <2>2
  <1>2. QED  BY <1>1 DEF n

\* SlotOf returns a slot or MaxProcs, never a negative number.
LEMMA SlotOfNat ==
    ASSUME NEW tbl, NEW p
    PROVE  SlotOf(tbl, p) \in Nat
  <1>1. CASE \E i \in Slots : tbl[i] = p
    <2>1. (CHOOSE i \in Slots : tbl[i] = p) \in Slots
      BY <1>1
    <2>2. QED  BY <1>1, <2>1, SchedConstants DEF SlotOf, Slots
  <1>2. CASE ~ \E i \in Slots : tbl[i] = p
    BY <1>2, SchedConstants DEF SlotOf
  <1>3. QED  BY <1>1, <1>2

\* Whatever the scheduler loops pick is in the table and not suspended.
LEMMA PickedIsRunnable ==
    ASSUME NEW tbl, NEW susp, NEW cur \in Nat, NEW last \in Int, NEW p,
           FirstRunnable(tbl, susp, cur, last, p)
    PROVE  p \in Entries(tbl) /\ p \notin susp
  <1>1. PICK j \in 1 .. last : /\ p = tbl[(cur + j) % MaxProcs]
                               /\ p # NoProc /\ p \notin susp
    BY DEF FirstRunnable
  <1>2. (cur + j) % MaxProcs \in Slots
    BY SlotArith
  <1>3. QED  BY <1>1, <1>2 DEF Entries

\* The same for sched_pick_next, whose search starts at the current slot.
LEMMA NextIsRunnable ==
    ASSUME NEW tbl, NEW susp, NEW p, sched_pick_next(tbl, susp, p)
    PROVE  p \in Entries(tbl) /\ p \notin susp
  <1>1. SlotOf(tbl, current_proc) \in Nat
    BY SlotOfNat
  <1>2. MaxProcs \in Int
    BY SchedConstants
  <1>3. FirstRunnable(tbl, susp, SlotOf(tbl, current_proc), MaxProcs, p)
    BY DEF sched_pick_next
  <1>4. QED  BY <1>1, <1>2, <1>3, PickedIsRunnable

-----------------------------------------------------------------------------
(* Type correctness.                                                       *)

\* The tail of a system call keeps the CPU state well typed.
LEMMA TailType ==
    ASSUME TypeOK,
           NEW ret \in Pid \cup Vals \cup Codes \cup {0, Err},
           NEW tbl, NEW susp,
           NEW saved \in [Pid -> RegFile],
           NEW tt \in Pid \cup {KernelTable},
           svc_tail(ret, tbl, susp, saved, tt)
    PROVE  /\ mode' \in {"user", "idle"}
           /\ regs' \in RegFile
           /\ ttbr0' \in Pid \cup {KernelTable}
           /\ ctx' \in [Pid -> RegFile]
           /\ current_proc' \in Pid
  <1>0. /\ regs \in RegFile /\ current_proc \in Pid
        /\ [regs EXCEPT !.r0 = ret] \in RegFile
    BY DEF TypeOK, SchedTypeOK, RegFile
  <1>1. CASE current_proc \in susp /\ svc_yield(ret, tbl, susp, saved, tt)
    <2> DEFINE yielded == [saved EXCEPT ![current_proc] = [regs EXCEPT !.r0 = ret]]
    <2>1. yielded \in [Pid -> RegFile]
      BY <1>0
    <2>2. ctx' = yielded
      BY <1>1 DEF svc_yield
    <2>3. CASE \E p \in Pid : /\ sched_pick_next(tbl, susp, p)
                              /\ current_proc' = p
                              /\ context_switch(p, yielded)
      <3>1. PICK p \in Pid : current_proc' = p /\ context_switch(p, yielded)
        BY <2>3
      <3>2. yielded[p] \in RegFile
        BY <2>1
      <3>3. QED  BY <2>1, <2>2, <3>1, <3>2 DEF context_switch
    <2>4. CASE mode' = "idle" /\ regs' = NoRegs /\ ttbr0' = tt /\ UNCHANGED current_proc
      <3>1. NoRegs \in RegFile
        BY KernelConstants DEF NoRegs, RegFile
      <3>2. QED  BY <1>0, <2>1, <2>2, <2>4, <3>1
    <2>5. QED  BY <1>1, <2>3, <2>4 DEF svc_yield
  <1>2. CASE /\ current_proc \notin susp
             /\ mode' = "user" /\ regs' = [regs EXCEPT !.r0 = ret] /\ ttbr0' = tt
             /\ ctx' = saved
             /\ UNCHANGED current_proc
    BY <1>0, <1>2
  <1>3. QED  BY <1>1, <1>2 DEF svc_tail

\* What sched_tick leaves of the scheduler state is well typed.
LEMMA TickType ==
    ASSUME SchedTypeOK, sched_tick
    PROVE  SchedTypeOK'
  <1>1. wake_tick' \in [Pid -> 0 .. MaxSleep + 1]
    BY SchedConstants DEF SchedTypeOK, sched_tick
  <1>2. suspended' \subseteq Pid /\ current_proc' \in Pid
    BY DEF SchedTypeOK, sched_tick, Preempt
  <1>3. QED  BY <1>1, <1>2 DEF SchedTypeOK, sched_tick

\* The user-mode interrupt path keeps the CPU state well typed.
LEMMA IrqType ==
    ASSUME TypeOK, current_proc' \in Pid, irq_restore_user
    PROVE  /\ mode' \in {"user", "idle"}
           /\ regs' \in RegFile
           /\ ttbr0' \in Pid \cup {KernelTable}
           /\ ctx' \in [Pid -> RegFile]
  <1> DEFINE saved == [ctx EXCEPT ![current_proc] = regs]
  <1>1. saved \in [Pid -> RegFile] /\ ctx' = saved
    BY DEF TypeOK, irq_restore_user
  <1>2. NoRegs \in RegFile /\ saved[current_proc'] \in RegFile
    BY <1>1, KernelConstants DEF NoRegs, RegFile
  <1>3. QED  BY <1>1, <1>2 DEF irq_restore_user, context_switch, TypeOK

\* The initial states are well typed.
LEMMA InitType == Init => TypeOK
  <1> SUFFICES ASSUME Init PROVE TypeOK
    OBVIOUS
  <1>1. 1 \in Pid
    BY SchedConstants DEF Pid
  <1>2. SchedTypeOK
    <2>1. procs \in [Slots -> Pid \cup {NoProc}]
      BY <1>1 DEF Init
    <2>2. wake_tick \in [Pid -> 0 .. MaxSleep + 1]
      BY SchedConstants, KernelConstants DEF Init
    <2>3. join_target \in [Pid -> Pid \cup {NoProc}]
      BY KernelConstants DEF Init
    <2>4. QED  BY <1>1, <2>1, <2>2, <2>3 DEF Init, SchedTypeOK
  <1>3. NoRegs \in RegFile /\ regs \in RegFile
    BY <1>1, KernelConstants DEF NoRegs, RegFile, Init
  <1>4. ctx \in [Pid -> RegFile]
    <2>1. \A g \in Vals : [NoRegs EXCEPT !.gpr = g] \in RegFile
      BY <1>3 DEF NoRegs, RegFile
    <2>2. QED  BY <1>3, <2>1 DEF Init
  <1>5. /\ mode = "user" /\ ttbr0 = 1 /\ next_pid = 2 /\ line = FALSE
    BY DEF Init
  <1>6. next_pid \in 2 .. MaxPid + 1
    BY <1>5, SchedConstants
  <1>7. QED  BY <1>1, <1>2, <1>3, <1>4, <1>5, <1>6 DEF TypeOK

\* Every step keeps the types.
LEMMA NextType == TypeOK /\ [Next]_vars => TypeOK'
  <1> SUFFICES ASSUME TypeOK, [Next]_vars PROVE TypeOK'
    OBVIOUS
  <1> DEFINE Result == Pid \cup Vals \cup Codes \cup {0, Err}
  <1>0. /\ current_proc \in Pid /\ current_proc \in Result
        /\ 0 \in Result /\ Err \in Result
        /\ ctx \in [Pid -> RegFile] /\ regs \in RegFile
        /\ ttbr0 \in Pid \cup {KernelTable} /\ KernelTable \in Pid \cup {KernelTable}
        /\ NoRegs \in RegFile
        /\ \A p \in Pid : [NoRegs EXCEPT !.of = p] \in RegFile
    BY KernelConstants DEF TypeOK, SchedTypeOK, NoRegs, RegFile
  <1>1. ASSUME Compute PROVE TypeOK'
    <2>1. \A v \in Vals : [regs EXCEPT !.r0 = v, !.gpr = v] \in RegFile
      BY <1>0 DEF RegFile
    <2>2. QED  BY <1>1, <2>1 DEF Compute, TypeOK, SchedTypeOK, schedVars
  <1>2. ASSUME PrefetchAbort PROVE TypeOK'
    BY <1>2 DEF PrefetchAbort, TypeOK, SchedTypeOK, schedVars
  <1>3. ASSUME svc_getpid PROVE TypeOK'
    <2>1. svc_tail(current_proc, procs, suspended, ctx, ttbr0)
      BY <1>3 DEF svc_getpid
    <2>2. QED  BY <1>0, <1>3, <2>1, TailType DEF svc_getpid, TypeOK, SchedTypeOK
  <1>4. ASSUME svc_fork PROVE TypeOK'
    <2>0. next_pid \in Pid /\ next_pid' \in 2 .. MaxPid + 1 /\ line' = line
      BY <1>4, SchedConstants DEF svc_fork, TypeOK, Pid
    <2>1. CASE /\ sched_add(next_pid)
               /\ suspended' = suspended \ {next_pid}
               /\ wake_tick' = [wake_tick EXCEPT ![next_pid] = 0]
               /\ \E j \in UninitJoin : join_target' = [join_target EXCEPT ![next_pid] = j]
               /\ svc_tail(next_pid, procs', suspended',
                     [ctx EXCEPT ![next_pid] = [ctx[current_proc] EXCEPT !.of = next_pid,
                                                                         !.r0 = 0]],
                     ttbr0)
      <3>1. procs' \in [Slots -> Pid \cup {NoProc}]
        BY <2>0, <2>1 DEF sched_add, TypeOK, SchedTypeOK
      <3>2. join_target' \in [Pid -> Pid \cup {NoProc}]
        BY <2>0, <2>1, KernelConstants DEF TypeOK, SchedTypeOK
      <3>3. wake_tick' \in [Pid -> 0 .. MaxSleep + 1] /\ suspended' \subseteq Pid
        BY <2>0, <2>1, SchedConstants DEF TypeOK, SchedTypeOK
      <3>4. ctx[current_proc] \in RegFile
        BY <1>0
      <3>5. [ctx[current_proc] EXCEPT !.of = next_pid, !.r0 = 0] \in RegFile
        BY <2>0, <3>4 DEF RegFile
      <3>6. [ctx EXCEPT ![next_pid] = [ctx[current_proc] EXCEPT !.of = next_pid,
                                                                !.r0 = 0]]
               \in [Pid -> RegFile]
        BY <1>0, <3>5
      <3>7. next_pid \in Result
        BY <2>0
      <3>8. /\ mode' \in {"user", "idle"} /\ regs' \in RegFile
            /\ ttbr0' \in Pid \cup {KernelTable}
            /\ ctx' \in [Pid -> RegFile] /\ current_proc' \in Pid
        BY <1>0, <2>1, <3>6, <3>7, TailType
      <3>9. QED  BY <2>0, <3>1, <3>2, <3>3, <3>8 DEF TypeOK, SchedTypeOK
    <2>2. CASE /\ svc_tail(Err, procs, suspended, ctx, ttbr0)
               /\ UNCHANGED <<procs, suspended, join_target, wake_tick>>
      BY <1>0, <2>0, <2>2, TailType DEF TypeOK, SchedTypeOK
    <2>3. QED  BY <1>4, <2>1, <2>2 DEF svc_fork
  <1>5. ASSUME svc_fork_oom PROVE TypeOK'
    <2>1. svc_tail(Err, procs, suspended, ctx, ttbr0)
      BY <1>5 DEF svc_fork_oom
    <2>2. QED  BY <1>0, <1>5, <2>1, TailType DEF svc_fork_oom, TypeOK, SchedTypeOK
  <1>6. ASSUME Exit PROVE TypeOK'
    <2>1. PICK code \in Codes : svc_exit(code)
      BY <1>6 DEF Exit
    <2> DEFINE tbl   == sched_remove(current_proc)
               woken == Joiners(tbl, current_proc)
               susp  == (suspended \ woken) \ {current_proc}
               saved == [p \in Pid |-> IF p = current_proc THEN NoRegs
                                       ELSE IF p \in woken THEN [ctx[p] EXCEPT !.r0 = code]
                                       ELSE ctx[p]]
    <2>2. /\ procs' = tbl /\ suspended' = susp /\ ctx' = saved
          /\ join_target' = [p \in Pid |-> IF p \in woken \cup {current_proc}
                                             THEN NoProc ELSE join_target[p]]
          /\ wake_tick' = [wake_tick EXCEPT ![current_proc] = 0]
          /\ next_pid' = next_pid /\ line' = line
      BY <2>1 DEF svc_exit
    <2>3. procs' \in [Slots -> Pid \cup {NoProc}]
      BY <2>2 DEF sched_remove, TypeOK, SchedTypeOK
    <2>4. \A p \in Pid : [ctx[p] EXCEPT !.r0 = code] \in RegFile
      BY <1>0 DEF RegFile
    <2>5. saved \in [Pid -> RegFile]
      BY <1>0, <2>4
    <2>6. /\ mode' \in {"user", "off"} /\ regs' \in RegFile
          /\ ttbr0' \in Pid \cup {KernelTable} /\ current_proc' \in Pid
      <3>1. CASE \E p \in Pid : current_proc' = p /\ context_switch(p, saved)
        BY <2>5, <3>1 DEF context_switch
      <3>2. CASE mode' = "off" /\ regs' = NoRegs /\ UNCHANGED <<current_proc, ttbr0>>
        BY <1>0, <3>2
      <3>3. QED  BY <2>1, <3>1, <3>2 DEF svc_exit
    <2>7. /\ suspended' \subseteq Pid
          /\ join_target' \in [Pid -> Pid \cup {NoProc}]
          /\ wake_tick' \in [Pid -> 0 .. MaxSleep + 1]
      BY <2>2, SchedConstants DEF TypeOK, SchedTypeOK
    <2>8. QED  BY <2>2, <2>3, <2>5, <2>6, <2>7 DEF TypeOK, SchedTypeOK
  <1>7. ASSUME Join PROVE TypeOK'
    <2>1. PICK t \in Pid : svc_join(t)
      BY <1>7 DEF Join
    <2>2. /\ suspended' \subseteq Pid
          /\ join_target' \in [Pid -> Pid \cup {NoProc}]
          /\ UNCHANGED <<procs, wake_tick, next_pid, line>>
      BY <1>0, <2>1 DEF svc_join, TypeOK, SchedTypeOK
    <2>3. \E r \in Result : svc_tail(r, procs, suspended', ctx, ttbr0)
      BY <1>0, <2>1 DEF svc_join
    <2>4. PICK r \in Result : svc_tail(r, procs, suspended', ctx, ttbr0)
      BY <2>3
    <2>5. QED  BY <1>0, <2>2, <2>4, TailType DEF TypeOK, SchedTypeOK
  <1>8. ASSUME Sleep PROVE TypeOK'
    <2>1. PICK d \in 0 .. MaxSleep : svc_sleep(d)
      BY <1>8 DEF Sleep
    <2>2. wake_tick' \in [Pid -> 0 .. MaxSleep + 1]
      BY <2>1, SchedConstants DEF svc_sleep, Deadline, TypeOK, SchedTypeOK
    <2>3. /\ suspended' \subseteq Pid
          /\ UNCHANGED <<procs, join_target, next_pid, line>>
          /\ svc_tail(0, procs, suspended', ctx, ttbr0)
      BY <1>0, <2>1 DEF svc_sleep, TypeOK, SchedTypeOK
    <2>4. QED  BY <1>0, <2>2, <2>3, TailType DEF TypeOK, SchedTypeOK
  <1>9. ASSUME Exec PROVE TypeOK'
    <2>1. PICK result \in ExecResults : svc_exec(result)
      BY <1>9 DEF Exec
    <2>2. UNCHANGED <<procs, suspended, wake_tick, join_target, next_pid, line>>
      BY <2>1 DEF svc_exec, llf_load
    <2> DEFINE saved == [ctx EXCEPT ![current_proc] = [NoRegs EXCEPT !.of = current_proc]]
    <2>3. CASE ctx' = saved /\ context_switch(current_proc, saved) /\ UNCHANGED current_proc
      <3>1. saved \in [Pid -> RegFile] /\ saved[current_proc] \in RegFile
        BY <1>0
      <3>2. QED  BY <1>0, <2>2, <2>3, <3>1 DEF context_switch, TypeOK, SchedTypeOK
    <2>4. CASE svc_tail(0, procs, suspended, ctx, ttbr0)
      BY <1>0, <2>2, <2>4, TailType DEF TypeOK, SchedTypeOK
    <2>5. CASE svc_tail(0, procs, suspended, ctx, KernelTable)
      BY <1>0, <2>2, <2>5, TailType DEF TypeOK, SchedTypeOK
    <2>6. QED  BY <2>1, <2>3, <2>4, <2>5 DEF svc_exec, llf_load
  <1>10. ASSUME svc_read PROVE TypeOK'
    BY <1>10 DEF svc_read, TypeOK, SchedTypeOK, schedVars
  <1>11. ASSUME svc_read_done PROVE TypeOK'
    <2>1. svc_tail(0, procs, suspended, ctx, ttbr0)
      BY <1>11 DEF svc_read_done
    <2>2. QED  BY <1>0, <1>11, <2>1, TailType DEF svc_read_done, TypeOK, SchedTypeOK
  <1>12. ASSUME TimerIrq PROVE TypeOK'
    <2>1. SchedTypeOK'
      BY <1>12, TickType DEF TimerIrq, TypeOK
    <2>2. CASE irq_restore_user
      BY <1>12, <2>1, <2>2, IrqType DEF TimerIrq, TypeOK, SchedTypeOK
    <2>3. CASE UNCHANGED <<mode, regs, ttbr0, ctx>>
      BY <1>12, <2>1, <2>3 DEF TimerIrq, TypeOK
    <2>4. QED  BY <1>12, <2>2, <2>3 DEF TimerIrq
  <1>13. ASSUME InputIrq PROVE TypeOK'
    <2>1. SchedTypeOK' /\ current_proc' \in Pid
      BY <1>13 DEF InputIrq, TypeOK, SchedTypeOK, schedVars
    <2>2. CASE irq_restore_user
      BY <1>13, <2>1, <2>2, IrqType DEF InputIrq, TypeOK
    <2>3. CASE UNCHANGED <<mode, regs, ttbr0, ctx>>
      BY <1>13, <2>1, <2>3 DEF InputIrq, TypeOK
    <2>4. QED  BY <1>13, <2>2, <2>3 DEF InputIrq
  <1>14. ASSUME WaitDone PROVE TypeOK'
    BY <1>0, <1>14 DEF WaitDone, context_switch, TypeOK, SchedTypeOK, schedVars
  <1>15. ASSUME Clock PROVE TypeOK'
    <2>1. wake_tick' \in [Pid -> 0 .. MaxSleep + 1]
      BY <1>15, SchedConstants DEF Clock, ClockAdvance, TypeOK, SchedTypeOK
    <2>2. QED  BY <1>15, <2>1 DEF Clock, ClockAdvance, kernVars, TypeOK, SchedTypeOK
  <1>16. ASSUME UNCHANGED vars PROVE TypeOK'
    BY <1>16 DEF vars, TypeOK, SchedTypeOK
  <1>17. QED
    BY <1>1, <1>2, <1>3, <1>4, <1>5, <1>6, <1>7, <1>8, <1>9, <1>10, <1>11, <1>12,
       <1>13, <1>14, <1>15, <1>16 DEF Next

\* Type correctness of the kernel: no interleaving of system calls and
\* interrupts stores a pid, register file or deadline outside its range.
THEOREM TypeCorrect == Spec => []TypeOK
  BY InitType, NextType, PTL DEF Spec

-----------------------------------------------------------------------------
(* The process table.                                                      *)

\* While a process executes, in user mode or in a console read, current_proc
\* is not suspended: the tick hands over only to a runnable process.
CurrentRunnable == mode \in {"user", "read"} => current_proc \notin suspended

TableInv == TypeOK /\ TableOK /\ CurrentRunnable

\* After the tail of a system call current_proc is in the table, and runnable
\* when the tail returned to user mode.
LEMMA TailCurrent ==
    ASSUME NEW ret, NEW tbl, NEW susp, NEW saved, NEW tt,
           svc_tail(ret, tbl, susp, saved, tt),
           current_proc \in Entries(tbl)
    PROVE  /\ mode' \in {"user", "idle"}
           /\ current_proc' \in Entries(tbl)
           /\ mode' = "user" => current_proc' \notin susp
  <1>1. CASE \E p \in Pid : /\ sched_pick_next(tbl, susp, p)
                            /\ current_proc' = p
                            /\ mode' = "user"
    BY <1>1, NextIsRunnable
  <1>2. CASE mode' = "idle" /\ UNCHANGED current_proc
    BY <1>2
  <1>3. CASE current_proc \notin susp /\ mode' = "user" /\ UNCHANGED current_proc
    BY <1>3
  <1>4. QED  BY <1>1, <1>2, <1>3 DEF svc_tail, svc_yield, context_switch

\* The table holds no process twice.
Injective == \A i, k \in Slots : procs[i] = procs[k] /\ procs[i] # NoProc => i = k

\* sched_tick keeps current_proc in the table, and runnable if it was: it never
\* hands over to the process it has just marked suspended.
LEMMA TickCurrent ==
    ASSUME sched_tick, current_proc \in Table, Injective
    PROVE  /\ current_proc' \in Table
           /\ current_proc \notin suspended => current_proc' \notin suspended'
  <1> DEFINE susp == suspended \ Due
             cur  == SlotOf(procs, current_proc)
  <1>1. CASE \E p \in Pid : /\ FirstRunnable(procs, susp, cur, MaxProcs - 1, p)
                            /\ suspended' = susp \cup {current_proc}
                            /\ current_proc' = p
    <2>1. PICK p \in Pid : /\ FirstRunnable(procs, susp, cur, MaxProcs - 1, p)
                           /\ suspended' = susp \cup {current_proc}
                           /\ current_proc' = p
      BY <1>1
    <2>2. PICK j \in 1 .. MaxProcs - 1 : /\ p = procs[(cur + j) % MaxProcs]
                                         /\ p # NoProc /\ p \notin susp
      BY <2>1 DEF FirstRunnable
    <2>3. cur \in Slots /\ procs[cur] = current_proc
      BY DEF SlotOf, Table, Entries
    <2>4. (cur + j) % MaxProcs \in Slots
      BY <2>3, SlotArith DEF Slots
    <2>5. (cur + j) % MaxProcs # cur
      BY <2>3, OtherSlot
    <2>6. p # current_proc
      BY <2>2, <2>3, <2>4, <2>5 DEF Injective
    <2>7. p \in Table
      BY <2>2, <2>4 DEF Table, Entries
    <2>8. QED  BY <2>1, <2>2, <2>6, <2>7
  <1>2. CASE suspended' = susp /\ UNCHANGED current_proc
    BY <1>2
  <1>3. QED  BY <1>1, <1>2 DEF sched_tick, Preempt

\* An action that leaves the table alone and ends in the tail of a system call
\* keeps the table invariant.
LEMMA TailTable ==
    ASSUME TableInv, mode # "off", UNCHANGED <<procs, next_pid>>,
           NEW ret, NEW saved, NEW tt,
           svc_tail(ret, procs, suspended', saved, tt)
    PROVE  TableOK' /\ CurrentRunnable'
  <1>1. current_proc \in Entries(procs)
    BY DEF TableInv, TableOK, Table
  <1>2. /\ mode' \in {"user", "idle"} /\ current_proc' \in Entries(procs)
        /\ mode' = "user" => current_proc' \notin suspended'
    BY <1>1, TailCurrent
  <1>3. Table' = Table
    BY DEF Table, Entries
  <1>4. QED  BY <1>2, <1>3 DEF TableInv, TableOK, CurrentRunnable, Table

\* The initial states satisfy the table invariant.
LEMMA InitTable == Init => TableInv
  <1> SUFFICES ASSUME Init PROVE TableInv
    OBVIOUS
  <1>1. procs = [i \in Slots |-> IF i = 0 THEN 1 ELSE NoProc] /\ 0 \in Slots
    BY SchedConstants DEF Init, Slots
  <1>2. Table = {1}
    BY <1>1 DEF Table, Entries, NoProc
  <1>3. TableOK
    BY <1>1, <1>2 DEF Init, TableOK, NoProc
  <1>4. QED  BY <1>3, InitType DEF TableInv, CurrentRunnable, Init

\* Every step keeps the table invariant.
LEMMA NextTable == TableInv /\ [Next]_vars => TableInv'
  <1> SUFFICES ASSUME TableInv, [Next]_vars PROVE TableOK' /\ CurrentRunnable'
    BY NextType DEF TableInv
  <1>0. TypeOK /\ TableOK /\ CurrentRunnable /\ SchedTypeOK
    BY DEF TableInv, TypeOK
  <1> USE DEF TableOK, CurrentRunnable, Table
  <1>1. CASE Compute
    BY <1>0, <1>1 DEF Compute, CanRun, schedVars
  <1>2. CASE PrefetchAbort
    BY <1>0, <1>2 DEF PrefetchAbort, schedVars
  <1>3. CASE svc_getpid
    BY <1>3, TailTable DEF svc_getpid, Calls, CanRun
  <1>4. CASE svc_fork
    <2>0. mode = "user" /\ next_pid' = next_pid + 1 /\ next_pid \in Pid /\ next_pid \in Nat
      BY <1>0, <1>4 DEF svc_fork, Calls, CanRun, TypeOK, Pid
    <2>1. CASE /\ sched_add(next_pid)
               /\ suspended' = suspended \ {next_pid}
               /\ svc_tail(next_pid, procs', suspended',
                     [ctx EXCEPT ![next_pid] = [ctx[current_proc] EXCEPT !.of = next_pid,
                                                                         !.r0 = 0]],
                     ttbr0)
      <3>1. PICK i \in Slots : procs[i] = NoProc /\ procs' = [procs EXCEPT ![i] = next_pid]
        BY <2>1 DEF sched_add
      <3>2. procs \in [Slots -> Pid \cup {NoProc}]
        BY <1>0 DEF SchedTypeOK
      <3>3. next_pid \notin Entries(procs) /\ next_pid # NoProc
        BY <1>0, <2>0 DEF Pid, NoProc
      <3>4. Entries(procs') = Entries(procs) \cup {next_pid}
        BY <3>1, <3>2, <3>3 DEF Entries
      <3>5. \A k, m \in Slots : procs'[k] = procs'[m] /\ procs'[k] # NoProc => k = m
        BY <1>0, <3>1, <3>2, <3>3 DEF Entries
      <3>6. \A p \in Entries(procs') : p < next_pid'
        <4>1. \A p \in Entries(procs) : p \in Nat /\ p < next_pid
          BY <1>0, <3>2 DEF Entries, Pid
        <4>2. QED  BY <2>0, <3>4, <4>1
      <3>7. current_proc \in Entries(procs')
        BY <1>0, <2>0, <3>4
      <3>8. /\ mode' \in {"user", "idle"} /\ current_proc' \in Entries(procs')
            /\ mode' = "user" => current_proc' \notin suspended'
        BY <2>1, <3>7, TailCurrent
      <3>9. QED  BY <3>5, <3>6, <3>8
    <2>2. CASE /\ svc_tail(Err, procs, suspended, ctx, ttbr0)
               /\ UNCHANGED <<procs, suspended>>
      <3>1. /\ mode' \in {"user", "idle"} /\ current_proc' \in Entries(procs)
            /\ mode' = "user" => current_proc' \notin suspended
        BY <1>0, <2>0, <2>2, TailCurrent
      <3>2. \A p \in Entries(procs) : p \in Nat
        BY <1>0 DEF Entries, SchedTypeOK, Pid, NoProc
      <3>3. QED  BY <1>0, <2>0, <2>2, <3>1, <3>2
    <2>3. QED  BY <1>4, <2>1, <2>2 DEF svc_fork
  <1>5. CASE svc_fork_oom
    BY <1>5, TailTable DEF svc_fork_oom, Calls, CanRun
  <1>6. CASE Exit
    <2>1. PICK code \in Codes : svc_exit(code)
      BY <1>6 DEF Exit
    <2> DEFINE tbl == sched_remove(current_proc)
    <2>2. procs' = tbl /\ next_pid' = next_pid
      BY <2>1 DEF svc_exit
    <2>3. Entries(tbl) \subseteq Entries(procs)
      BY DEF Entries, sched_remove
    <2>4. \A i, k \in Slots : tbl[i] = tbl[k] /\ tbl[i] # NoProc => i = k
      BY <1>0 DEF sched_remove
    <2>5. \/ current_proc' \in Entries(tbl) /\ current_proc' \notin suspended'
          \/ mode' = "off"
      <3>1. CASE \E p \in Pid : sched_pick_next(tbl, suspended', p) /\ current_proc' = p
        BY <3>1, NextIsRunnable
      <3>2. CASE mode' = "off"
        BY <3>2
      <3>3. QED  BY <2>1, <3>1, <3>2 DEF svc_exit
    <2>6. QED  BY <1>0, <2>2, <2>3, <2>4, <2>5
  <1>7. CASE Join
    <2>1. PICK t \in Pid : svc_join(t)
      BY <1>7 DEF Join
    <2>2. CASE svc_tail(Err, procs, suspended', ctx, ttbr0)
      BY <2>1, <2>2, TailTable DEF svc_join, Calls, CanRun
    <2>3. CASE svc_tail(0, procs, suspended', ctx, ttbr0)
      BY <2>1, <2>3, TailTable DEF svc_join, Calls, CanRun
    <2>4. QED  BY <2>1, <2>2, <2>3 DEF svc_join
  <1>8. CASE Sleep
    BY <1>8, TailTable DEF Sleep, svc_sleep, Calls, CanRun
  <1>9. CASE Exec
    <2>1. PICK result \in ExecResults : svc_exec(result)
      BY <1>9 DEF Exec
    <2>2. /\ UNCHANGED <<procs, suspended, next_pid>>
          /\ mode = "user"
      BY <2>1 DEF svc_exec, llf_load, Calls, CanRun
    <2>3. CASE UNCHANGED current_proc /\ mode' = "user"
      BY <1>0, <2>2, <2>3
    <2>4. CASE \E tt : svc_tail(0, procs, suspended', ctx, tt)
      BY <2>2, <2>4, TailTable
    <2>5. QED  BY <2>1, <2>3, <2>4 DEF svc_exec, llf_load, context_switch
  <1>10. CASE svc_read
    BY <1>0, <1>10 DEF svc_read, Calls, CanRun, schedVars
  <1>11. CASE svc_read_done
    BY <1>11, TailTable DEF svc_read_done
  <1>12. CASE TimerIrq
    <2>0. sched_tick /\ mode # "off" /\ UNCHANGED <<procs, next_pid>>
      BY <1>12 DEF TimerIrq, sched_tick
    <2>1. /\ current_proc' \in Table
          /\ current_proc \notin suspended => current_proc' \notin suspended'
      BY <1>0, <2>0, TickCurrent DEF Injective
    <2>2. CASE mode = "user" /\ irq_restore_user
      BY <1>0, <2>0, <2>1, <2>2 DEF irq_restore_user, context_switch
    <2>3. CASE UNCHANGED mode
      BY <1>0, <2>0, <2>1, <2>3
    <2>4. QED  BY <1>12, <2>2, <2>3 DEF TimerIrq
  <1>13. CASE InputIrq
    <2>1. CASE mode = "user" /\ irq_restore_user
      BY <1>0, <1>13, <2>1 DEF InputIrq, irq_restore_user, context_switch, schedVars
    <2>2. CASE UNCHANGED mode
      BY <1>0, <1>13, <2>2 DEF InputIrq, schedVars
    <2>3. QED  BY <1>13, <2>1, <2>2 DEF InputIrq
  <1>14. CASE WaitDone
    BY <1>0, <1>14 DEF WaitDone, context_switch, schedVars
  <1>15. CASE Clock
    BY <1>0, <1>15 DEF Clock, ClockAdvance, kernVars
  <1>16. CASE UNCHANGED vars
    BY <1>0, <1>16 DEF vars
  <1>17. QED
    BY <1>1, <1>2, <1>3, <1>4, <1>5, <1>6, <1>7, <1>8, <1>9, <1>10, <1>11, <1>12,
       <1>13, <1>14, <1>15, <1>16 DEF Next

\* The process table never holds a process twice, never holds a pid that was
\* not handed out, and holds current_proc until the machine is off: for every
\* table size and set of system calls, console reads included.
THEOREM TableCorrect == Spec => []TableOK
  <1>1. TableInv => TableOK
    BY DEF TableInv
  <1>2. QED  BY <1>1, InitTable, NextTable, PTL DEF Spec

-----------------------------------------------------------------------------
(* Register contexts, for programs that make no console reads.             *)

OwnInv ==
    /\ TableInv
    /\ RunningIsCurrent
    /\ SavedContextIsOwn
    /\ mode # "read"
    /\ mode = "idle" => regs.of = NoProc

\* Leaving a system call keeps every context with its owner.
LEMMA TailOwn ==
    ASSUME OwnInv, mode = "user",
           NEW ret \in Pid \cup Vals \cup Codes \cup {0, Err},
           NEW saved \in [Pid -> RegFile],
           NEW tt \in {current_proc, KernelTable},
           \A p \in Entries(procs') : p \in Pid /\ (p # current_proc => saved[p].of = p),
           svc_tail(ret, procs', suspended', saved, tt)
    PROVE  /\ RunningIsCurrent' /\ SavedContextIsOwn' /\ mode' # "read"
           /\ mode' = "idle" => regs'.of = NoProc
  <1> DEFINE yielded == [saved EXCEPT ![current_proc] = [regs EXCEPT !.r0 = ret]]
  <1>0. /\ regs \in RegFile /\ regs.of = current_proc /\ current_proc \in Pid
        /\ [regs EXCEPT !.r0 = ret].of = current_proc
    BY DEF OwnInv, TableInv, TypeOK, SchedTypeOK, RunningIsCurrent, RegFile
  <1>1. \A p \in Entries(procs') : yielded[p].of = p
    BY <1>0
  <1>2. CASE \E p \in Pid : /\ sched_pick_next(procs', suspended', p)
                            /\ current_proc' = p
                            /\ context_switch(p, yielded)
                            /\ ctx' = yielded
    <2>1. PICK p \in Pid : /\ sched_pick_next(procs', suspended', p)
                           /\ current_proc' = p
                           /\ context_switch(p, yielded)
                           /\ ctx' = yielded
      BY <1>2
    <2>2. p \in Entries(procs') /\ p \notin suspended'
      BY <2>1, NextIsRunnable
    <2>3. QED
      BY <1>1, <2>1, <2>2 DEF context_switch, RunningIsCurrent, SavedContextIsOwn, Table
  <1>3. CASE mode' = "idle" /\ regs' = NoRegs /\ ctx' = yielded
    BY <1>1, <1>3 DEF NoRegs, RunningIsCurrent, SavedContextIsOwn, Table
  <1>4. CASE /\ current_proc \notin suspended'
             /\ mode' = "user" /\ regs' = [regs EXCEPT !.r0 = ret] /\ ttbr0' = tt
             /\ ctx' = saved
             /\ UNCHANGED current_proc
    BY <1>0, <1>4 DEF RunningIsCurrent, SavedContextIsOwn, Table
  <1>5. QED  BY <1>2, <1>3, <1>4 DEF svc_tail, svc_yield

\* An interrupt taken in user mode keeps every context with its owner.
LEMMA IrqOwn ==
    ASSUME OwnInv, mode = "user", irq_restore_user, procs' = procs,
           current_proc' \in Table, current_proc' \notin suspended'
    PROVE  /\ RunningIsCurrent' /\ SavedContextIsOwn' /\ mode' # "read"
           /\ mode' = "idle" => regs'.of = NoProc
  <1> DEFINE saved == [ctx EXCEPT ![current_proc] = regs]
  <1>0. /\ regs.of = current_proc /\ current_proc \in Pid /\ ctx \in [Pid -> RegFile]
        /\ Table \subseteq Pid
    BY DEF OwnInv, TableInv, TypeOK, SchedTypeOK, RunningIsCurrent, Table, Entries
  <1>1. \A p \in Table : saved[p].of = p
    BY <1>0 DEF OwnInv, SavedContextIsOwn
  <1>2. ctx' = saved /\ context_switch(current_proc', saved) /\ Table' = Table
    BY DEF irq_restore_user, Table
  <1>3. QED  BY <1>1, <1>2 DEF context_switch, RunningIsCurrent, SavedContextIsOwn

\* The initial states satisfy the context invariant.
LEMMA InitOwn == Init => OwnInv
  <1> SUFFICES ASSUME Init PROVE OwnInv
    OBVIOUS
  <1>1. TableInv
    BY InitTable
  <1>2. procs = [i \in Slots |-> IF i = 0 THEN 1 ELSE NoProc] /\ regs.of = 1
    BY DEF Init
  <1>3. Table \subseteq {1}
    BY <1>2 DEF Table, Entries
  <1>4. mode = "user" /\ current_proc = 1 /\ suspended = {} /\ ttbr0 = 1
    BY DEF Init
  <1>5. QED
    BY <1>1, <1>2, <1>3, <1>4 DEF OwnInv, RunningIsCurrent, SavedContextIsOwn

\* Without console reads every step keeps the context invariant.
LEMMA NextOwn ==
    ASSUME "read" \notin Syscalls, OwnInv, [Next]_vars
    PROVE  OwnInv'
  <1> DEFINE Goal == /\ RunningIsCurrent /\ SavedContextIsOwn /\ mode # "read"
                     /\ mode = "idle" => regs.of = NoProc
  <1> SUFFICES Goal'
    BY NextTable DEF OwnInv
  <1> DEFINE Result == Pid \cup Vals \cup Codes \cup {0, Err}
  <1>0. /\ TypeOK /\ TableInv /\ Goal
        /\ current_proc \in Pid /\ current_proc \in Result
        /\ 0 \in Result /\ Err \in Result
        /\ ctx \in [Pid -> RegFile] /\ regs \in RegFile
        /\ Table \subseteq Pid
        /\ mode = "user" => regs.of = current_proc /\ ttbr0 \in {current_proc, KernelTable}
        /\ mode # "off" => current_proc \in Table
    BY DEF OwnInv, TableInv, TableOK, TypeOK, SchedTypeOK, RunningIsCurrent, Table, Entries
  <1>a. mode = "user" => \A p \in Table : p \in Pid /\ (p # current_proc => ctx[p].of = p)
    BY <1>0 DEF SavedContextIsOwn
  <1>b. ASSUME mode = "user", NEW ret \in Result, NEW tt \in {current_proc, KernelTable},
               procs' = procs, svc_tail(ret, procs, suspended', ctx, tt)
        PROVE  Goal'
    BY <1>0, <1>a, <1>b, TailOwn DEF Table
  <1>1. CASE Compute
    <2>1. regs'.of = regs.of
      BY <1>0, <1>1 DEF Compute, RegFile
    <2>2. QED
      BY <1>0, <1>1, <2>1
      DEF Compute, schedVars, RunningIsCurrent, SavedContextIsOwn, Table
  <1>2. CASE PrefetchAbort
    BY <1>0, <1>2 DEF PrefetchAbort, schedVars, RunningIsCurrent, SavedContextIsOwn, Table
  <1>3. CASE svc_getpid
    BY <1>0, <1>3, <1>b DEF svc_getpid, Calls, CanRun
  <1>4. CASE svc_fork
    <2>0. mode = "user" /\ next_pid \in Pid /\ next_pid \in Result
      BY <1>0, <1>4 DEF svc_fork, Calls, CanRun, TypeOK, Pid
    <2> DEFINE child == [ctx[current_proc] EXCEPT !.of = next_pid, !.r0 = 0]
               saved == [ctx EXCEPT ![next_pid] = child]
    <2>1. CASE sched_add(next_pid) /\ svc_tail(next_pid, procs', suspended', saved, ttbr0)
      <3>1. ctx[current_proc] \in RegFile
        BY <1>0
      <3>2. child \in RegFile /\ child.of = next_pid
        BY <2>0, <3>1 DEF RegFile
      <3>3. saved \in [Pid -> RegFile]
        BY <1>0, <3>2
      <3>4. Entries(procs') \subseteq Table \cup {next_pid}
        BY <1>0, <2>1 DEF sched_add, Table, Entries, TypeOK, SchedTypeOK
      <3>5. \A p \in Entries(procs') : p \in Pid /\ (p # current_proc => saved[p].of = p)
        BY <1>0, <1>a, <2>0, <3>2, <3>4
      <3>6. ttbr0 \in {current_proc, KernelTable}
        BY <1>0, <2>0
      <3> HIDE DEF saved, child
      <3>7. QED  BY <2>0, <2>1, <3>3, <3>5, <3>6, TailOwn
    <2>2. CASE svc_tail(Err, procs, suspended, ctx, ttbr0) /\ UNCHANGED <<procs, suspended>>
      BY <1>0, <1>b, <2>0, <2>2
    <2>3. QED  BY <1>4, <2>1, <2>2 DEF svc_fork
  <1>5. CASE svc_fork_oom
    BY <1>0, <1>5, <1>b DEF svc_fork_oom, Calls, CanRun
  <1>6. CASE Exit
    <2>1. PICK code \in Codes : svc_exit(code)
      BY <1>6 DEF Exit
    <2> DEFINE tbl   == sched_remove(current_proc)
               woken == Joiners(tbl, current_proc)
               saved == [p \in Pid |-> IF p = current_proc THEN NoRegs
                                       ELSE IF p \in woken THEN [ctx[p] EXCEPT !.r0 = code]
                                       ELSE ctx[p]]
    <2>2. procs' = tbl /\ ctx' = saved /\ mode = "user"
      BY <2>1 DEF svc_exit, Calls, CanRun
    <2>3. Entries(tbl) \subseteq Table \ {current_proc}
      BY DEF Entries, Table, sched_remove
    <2>4. \A p \in Pid : [ctx[p] EXCEPT !.r0 = code].of = ctx[p].of
      BY <1>0 DEF RegFile
    <2>5. \A p \in Entries(tbl) : saved[p].of = p
      BY <1>0, <1>a, <2>2, <2>3, <2>4
    <2>6. CASE \E p \in Pid : /\ sched_pick_next(tbl, suspended', p)
                              /\ current_proc' = p
                              /\ context_switch(p, saved)
      <3>1. PICK p \in Pid : /\ sched_pick_next(tbl, suspended', p)
                             /\ current_proc' = p
                             /\ context_switch(p, saved)
        BY <2>6
      <3>2. p \in Entries(tbl) /\ p \notin suspended'
        BY <3>1, NextIsRunnable
      <3> HIDE DEF saved, tbl
      <3>3. QED
        BY <2>2, <2>5, <3>1, <3>2
        DEF context_switch, RunningIsCurrent, SavedContextIsOwn, Table
    <2>7. CASE mode' = "off" /\ regs' = NoRegs
      <3> HIDE DEF saved, tbl
      <3>1. QED  BY <2>2, <2>5, <2>7 DEF NoRegs, RunningIsCurrent, SavedContextIsOwn, Table
    <2>8. QED  BY <2>1, <2>6, <2>7 DEF svc_exit
  <1>7. CASE Join
    <2>1. PICK t \in Pid : svc_join(t)
      BY <1>7 DEF Join
    <2>2. /\ mode = "user" /\ procs' = procs
          /\ \E r \in Result : svc_tail(r, procs, suspended', ctx, ttbr0)
      BY <1>0, <2>1 DEF svc_join, Calls, CanRun
    <2>3. QED  BY <1>0, <1>b, <2>2
  <1>8. CASE Sleep
    BY <1>0, <1>8, <1>b DEF Sleep, svc_sleep, Calls, CanRun
  <1>9. CASE Exec
    <2>1. PICK result \in ExecResults : svc_exec(result)
      BY <1>9 DEF Exec
    <2>2. mode = "user" /\ UNCHANGED <<procs, suspended>>
      BY <2>1 DEF svc_exec, llf_load, Calls, CanRun
    <2> DEFINE fresh == [NoRegs EXCEPT !.of = current_proc]
               saved == [ctx EXCEPT ![current_proc] = fresh]
    <2>3. CASE ctx' = saved /\ context_switch(current_proc, saved) /\ UNCHANGED current_proc
      <3>1. fresh.of = current_proc
        BY DEF NoRegs
      <3>2. saved[current_proc] = fresh /\ \A p \in Table : saved[p].of = p
        BY <1>0, <1>a, <2>2, <3>1
      <3>3. current_proc \notin suspended
        BY <1>0, <2>2 DEF RunningIsCurrent
      <3> HIDE DEF saved, fresh
      <3>4. QED
        BY <2>2, <2>3, <3>1, <3>2, <3>3
        DEF context_switch, RunningIsCurrent, SavedContextIsOwn, Table
    <2>4. CASE svc_tail(0, procs, suspended, ctx, ttbr0)
      BY <1>0, <1>b, <2>2, <2>4
    <2>5. CASE svc_tail(0, procs, suspended, ctx, KernelTable)
      BY <1>0, <1>b, <2>2, <2>5
    <2>6. QED  BY <2>1, <2>3, <2>4, <2>5 DEF svc_exec, llf_load
  <1>10. CASE svc_read
    BY <1>10 DEF svc_read, Calls
  <1>11. CASE svc_read_done
    BY <1>0, <1>11 DEF svc_read_done
  <1>12. CASE TimerIrq
    <2>0. sched_tick /\ mode # "off" /\ procs' = procs
      BY <1>12 DEF TimerIrq, sched_tick
    <2>1. CASE mode = "user" /\ irq_restore_user
      <3>1. current_proc' \in Table /\ current_proc' \notin suspended'
        BY <1>0, <2>0, <2>1, TickCurrent
        DEF Injective, TableInv, TableOK, RunningIsCurrent
      <3>2. QED  BY <2>0, <2>1, <3>1, IrqOwn
    <2>2. CASE mode \in {"read", "idle"} /\ UNCHANGED <<mode, regs, ttbr0, ctx>>
      BY <1>0, <2>0, <2>2 DEF RunningIsCurrent, SavedContextIsOwn, Table
    <2>3. QED  BY <1>12, <2>1, <2>2 DEF TimerIrq
  <1>13. CASE InputIrq
    <2>0. UNCHANGED schedVars /\ mode # "off"
      BY <1>13 DEF InputIrq
    <2>1. CASE mode = "user" /\ irq_restore_user
      <3>1. /\ current_proc' \in Table /\ current_proc' \notin suspended'
            /\ procs' = procs
        BY <1>0, <2>0, <2>1 DEF schedVars, RunningIsCurrent
      <3>2. QED  BY <2>1, <3>1, IrqOwn
    <2>2. CASE mode \in {"read", "idle"} /\ UNCHANGED <<mode, regs, ttbr0, ctx>>
      BY <1>0, <2>0, <2>2 DEF schedVars, RunningIsCurrent, SavedContextIsOwn, Table
    <2>3. QED  BY <1>13, <2>1, <2>2 DEF InputIrq
  <1>14. CASE WaitDone
    BY <1>0, <1>14
    DEF WaitDone, context_switch, schedVars, RunningIsCurrent, SavedContextIsOwn, Table,
        Entries, NoProc
  <1>15. CASE Clock
    BY <1>0, <1>15
    DEF Clock, ClockAdvance, kernVars, RunningIsCurrent, SavedContextIsOwn, Table
  <1>16. CASE UNCHANGED vars
    BY <1>0, <1>16 DEF vars, RunningIsCurrent, SavedContextIsOwn, Table
  <1>17. QED
    BY <1>1, <1>2, <1>3, <1>4, <1>5, <1>6, <1>7, <1>8, <1>9, <1>10, <1>11, <1>12,
       <1>13, <1>14, <1>15, <1>16 DEF Next

\* As long as no program makes a console read, user code always runs as
\* current_proc, on its own page table or none, and every saved context
\* resumes the process it is stored with.
THEOREM ContextsCorrect ==
    ASSUME "read" \notin Syscalls
    PROVE  Spec => []ContextsOK
  <1>1. OwnInv => ContextsOK
    BY DEF OwnInv, ContextsOK
  <1>2. OwnInv /\ [Next]_vars => OwnInv'
    BY NextOwn
  <1>3. QED  BY <1>1, <1>2, InitOwn, PTL DEF Spec

-----------------------------------------------------------------------------
(* Joining and sleeping, when a fresh process_t starts with zero fields.   *)

\* Nobody sleeps and joins at once: either would clear the other's suspension.
OneWait == \A p \in Table : join_target[p] = NoProc \/ wake_tick[p] = 0

BlockInv ==
    /\ TableInv
    /\ BlockedIsSuspended
    /\ JoinTargetsAlive
    /\ OneWait

\* With zeroed structs the initial states satisfy the waiting invariant.
LEMMA InitBlock ==
    ASSUME UninitJoin = {0}, UninitWake = {0}, Init
    PROVE  BlockInv
  <1>1. TableInv
    BY InitTable
  <1>2. \A p \in Pid : wake_tick[p] = 0 /\ join_target[p] = NoProc
    BY DEF Init, NoProc
  <1>3. Table \subseteq Pid
    BY <1>1 DEF TableInv, TypeOK, SchedTypeOK, Table, Entries
  <1>4. QED
    BY <1>1, <1>2, <1>3 DEF BlockInv, BlockedIsSuspended, JoinTargetsAlive, OneWait

\* With zeroed structs every step keeps the waiting invariant.
LEMMA NextBlock ==
    ASSUME UninitJoin = {0}, BlockInv, [Next]_vars
    PROVE  BlockInv'
  <1> DEFINE Goal == BlockedIsSuspended /\ JoinTargetsAlive /\ OneWait
  <1> SUFFICES Goal'
    BY NextTable DEF BlockInv
  <1>0. /\ TypeOK /\ TableInv /\ Goal
        /\ Table \subseteq Pid /\ current_proc \in Pid
        /\ mode = "user" => current_proc \in Table /\ current_proc \notin suspended
        /\ join_target \in [Pid -> Pid \cup {NoProc}]
        /\ wake_tick \in [Pid -> 0 .. MaxSleep + 1]
    BY DEF BlockInv, TableInv, TableOK, CurrentRunnable, TypeOK, SchedTypeOK, Table, Entries
  <1>a. mode = "user" => join_target[current_proc] = NoProc /\ wake_tick[current_proc] = 0
    BY <1>0 DEF BlockedIsSuspended
  <1>b. ASSUME UNCHANGED <<procs, suspended, wake_tick, join_target>>
        PROVE  Goal'
    BY <1>0, <1>b DEF BlockedIsSuspended, JoinTargetsAlive, OneWait, Table
  <1>1. CASE Compute
    BY <1>1, <1>b DEF Compute, schedVars
  <1>2. CASE PrefetchAbort
    BY <1>2, <1>b DEF PrefetchAbort, schedVars
  <1>3. CASE svc_getpid
    BY <1>3, <1>b DEF svc_getpid
  <1>4. CASE svc_fork
    <2>0. mode = "user" /\ next_pid \in Pid
      BY <1>0, <1>4 DEF svc_fork, Calls, CanRun, TypeOK, Pid
    <2>1. CASE /\ sched_add(next_pid)
               /\ suspended' = suspended \ {next_pid}
               /\ wake_tick' = [wake_tick EXCEPT ![next_pid] = 0]
               /\ \E j \in UninitJoin : join_target' = [join_target EXCEPT ![next_pid] = j]
      <3>1. /\ Entries(procs') \subseteq Table \cup {next_pid}
            /\ Table \subseteq Entries(procs')
        BY <1>0, <2>0, <2>1 DEF sched_add, Table, Entries, TypeOK, SchedTypeOK
      <3>2. wake_tick'[next_pid] = 0 /\ join_target'[next_pid] = NoProc
        BY <1>0, <2>0, <2>1 DEF NoProc
      <3>3. \A p \in Table \ {next_pid} : /\ wake_tick'[p] = wake_tick[p]
                                          /\ join_target'[p] = join_target[p]
        BY <1>0, <2>1
      <3>4. QED
        BY <1>0, <2>1, <3>1, <3>2, <3>3
        DEF BlockedIsSuspended, JoinTargetsAlive, OneWait, Table
    <2>2. CASE UNCHANGED <<procs, suspended, join_target, wake_tick>>
      BY <2>2, <1>b
    <2>3. QED  BY <1>4, <2>1, <2>2 DEF svc_fork
  <1>5. CASE svc_fork_oom
    BY <1>5, <1>b DEF svc_fork_oom
  <1>6. CASE Exit
    <2>1. PICK code \in Codes : svc_exit(code)
      BY <1>6 DEF Exit
    <2> DEFINE tbl   == sched_remove(current_proc)
               woken == Joiners(tbl, current_proc)
    <2>2. /\ procs' = tbl
          /\ suspended' = (suspended \ woken) \ {current_proc}
          /\ join_target' = [p \in Pid |-> IF p \in woken \cup {current_proc}
                                             THEN NoProc ELSE join_target[p]]
          /\ wake_tick' = [wake_tick EXCEPT ![current_proc] = 0]
      BY <2>1 DEF svc_exit
    <2>3. Table' = Table \ {current_proc}
      BY <2>2 DEF Table, Entries, sched_remove, NoProc
    <2>4. woken = {q \in Table' : join_target[q] = current_proc}
      BY <2>2 DEF Joiners, Table
    <2>5. \A p \in Table' : /\ wake_tick'[p] = wake_tick[p]
                            /\ p \in woken => join_target'[p] = NoProc /\ wake_tick[p] = 0
                            /\ p \notin woken => /\ join_target'[p] = join_target[p]
                                                 /\ join_target[p] # current_proc
                                                 /\ p \in suspended => p \in suspended'
      BY <1>0, <2>2, <2>3, <2>4 DEF OneWait, Pid, NoProc
    <2> HIDE DEF tbl, woken
    <2>6. QED
      BY <1>0, <2>3, <2>5 DEF BlockedIsSuspended, JoinTargetsAlive, OneWait
  <1>7. CASE Join
    <2>1. PICK t \in Pid : svc_join(t)
      BY <1>7 DEF Join
    <2>2. mode = "user" /\ procs' = procs /\ wake_tick' = wake_tick
      BY <2>1 DEF svc_join, Calls, CanRun
    <2>3. CASE UNCHANGED <<join_target, suspended>>
      BY <2>2, <2>3, <1>b
    <2>4. CASE /\ sched_get(t)
               /\ join_target' = [join_target EXCEPT ![current_proc] = t]
               /\ suspended' = suspended \cup {current_proc}
      BY <1>0, <1>a, <2>2, <2>4
      DEF BlockedIsSuspended, JoinTargetsAlive, OneWait, Table, sched_get
    <2>5. QED  BY <2>1, <2>3, <2>4 DEF svc_join
  <1>8. CASE Sleep
    <2>1. PICK d \in 0 .. MaxSleep : svc_sleep(d)
      BY <1>8 DEF Sleep
    <2>2. /\ mode = "user" /\ UNCHANGED <<procs, join_target>>
          /\ suspended' = suspended \cup {current_proc}
          /\ \E w : wake_tick' = [wake_tick EXCEPT ![current_proc] = w]
      BY <2>1 DEF svc_sleep, Calls, CanRun
    <2>3. QED
      BY <1>0, <1>a, <2>2 DEF BlockedIsSuspended, JoinTargetsAlive, OneWait, Table
  <1>9. CASE Exec
    BY <1>9, <1>b DEF Exec, svc_exec, llf_load
  <1>10. CASE svc_read
    BY <1>10, <1>b DEF svc_read, schedVars
  <1>11. CASE svc_read_done
    BY <1>11, <1>b DEF svc_read_done
  <1>12. CASE TimerIrq
    <2>1. /\ UNCHANGED <<procs, join_target>>
          /\ wake_tick' = [p \in Pid |-> IF p \in Due THEN 0 ELSE wake_tick[p]]
          /\ suspended \ Due \subseteq suspended'
      BY <1>12 DEF TimerIrq, sched_tick, Preempt
    <2>2. \A p \in Due : wake_tick[p] # 0 /\ p \in Table
      BY DEF Due
    <2>3. QED
      BY <1>0, <2>1, <2>2 DEF BlockedIsSuspended, JoinTargetsAlive, OneWait, Table
  <1>13. CASE InputIrq
    BY <1>13, <1>b DEF InputIrq, schedVars
  <1>14. CASE WaitDone
    BY <1>14, <1>b DEF WaitDone, schedVars
  <1>15. CASE Clock
    <2>1. /\ UNCHANGED <<procs, suspended, join_target>>
          /\ \A p \in Pid : wake_tick[p] = 0 => wake_tick'[p] = 0
      BY <1>15 DEF Clock, ClockAdvance
    <2>2. QED
      <3>1. \A p \in Table : wake_tick'[p] # 0 => wake_tick[p] # 0
        BY <1>0, <2>1
      <3>2. QED
        BY <1>0, <2>1, <3>1 DEF BlockedIsSuspended, JoinTargetsAlive, OneWait, Table
  <1>16. CASE UNCHANGED vars
    BY <1>16, <1>b DEF vars
  <1>17. QED
    BY <1>1, <1>2, <1>3, <1>4, <1>5, <1>6, <1>7, <1>8, <1>9, <1>10, <1>11, <1>12,
       <1>13, <1>14, <1>15, <1>16 DEF Next

\* If the heap hands out zeroed process structs, a process that waits in join
\* or sleep stays suspended until its wait is over, and nobody ever waits for
\* a process that has exited: under every interleaving, console reads included.
THEOREM WaitingCorrect ==
    ASSUME UninitJoin = {0}, UninitWake = {0}
    PROVE  Spec => []WaitsOK
  <1>1. BlockInv => WaitsOK
    BY DEF BlockInv, WaitsOK
  <1>2. BlockInv /\ [Next]_vars => BlockInv'
    BY NextBlock
  <1>3. Init => BlockInv
    BY InitBlock
  <1>4. QED  BY <1>1, <1>2, <1>3, PTL DEF Spec

-----------------------------------------------------------------------------
(* The kernel implements Processes.                                        *)

RefInv == OwnInv /\ BlockInv

\* What the struct of a process holds of the registers its program sees.
SavedView(saved, p) == [r0 |-> saved[p].r0, gpr |-> saved[p].gpr]
NoView == [r0 |-> 0, gpr |-> 0]

\* The facts about a state that the steps below use.
LEMMA RefFacts ==
    ASSUME RefInv
    PROVE  /\ Table \subseteq Pid /\ current_proc \in Pid /\ NoProc \notin Table
           /\ regs \in RegFile /\ ctx \in [Pid -> RegFile]
           /\ join_target \in [Pid -> Pid \cup {NoProc}]
           /\ wake_tick \in [Pid -> 0 .. MaxSleep + 1]
           /\ mode \in {"user", "idle", "off"}
           /\ mode # "off" => current_proc \in Table
           /\ mode = "user" => /\ regs.of = current_proc /\ ProcRunning = current_proc
                               /\ current_proc \notin suspended
                               /\ join_target[current_proc] = NoProc
                               /\ wake_tick[current_proc] = 0
           /\ mode # "user" => ProcRunning = NoProc
           /\ \A p \in Table : regs.of # p => ctx[p].of = p
  <1>1. TypeOK /\ TableOK /\ RunningIsCurrent /\ SavedContextIsOwn /\ mode # "read"
    BY DEF RefInv, OwnInv, TableInv
  <1>2. Table \subseteq Pid /\ NoProc \notin Table
    BY <1>1 DEF TypeOK, SchedTypeOK, Table, Entries
  <1>3. mode = "user" => join_target[current_proc] = NoProc /\ wake_tick[current_proc] = 0
    BY <1>1 DEF RefInv, BlockInv, BlockedIsSuspended, RunningIsCurrent, TableOK
  <1>4. QED
    BY <1>1, <1>2, <1>3
    DEF TypeOK, SchedTypeOK, TableOK, RunningIsCurrent, SavedContextIsOwn, ProcRunning

\* The CPU belongs to a process that neither sleeps nor joins, or to none.
LEMMA RunningReady == RefInv => ProcRunning \in Promise!Ready \cup {NoProc}
  <1> SUFFICES ASSUME RefInv PROVE ProcRunning \in Promise!Ready \cup {NoProc}
    OBVIOUS
  <1>1. CASE mode = "user"
    BY <1>1, RefFacts DEF Promise!Ready, Promise!NoProc, ProcJoins, ProcAsleep, NoProc
  <1>2. CASE mode # "user"
    BY <1>2, RefFacts
  <1>3. QED  BY <1>1, <1>2

\* After a step the CPU belongs to such a process, or to none.
LEMMA Dispatched == RefInv' => Promise!Dispatch
  <1>1. (RefInv => ProcRunning \in Promise!Ready \cup {NoProc})'
    BY RunningReady, PTL
  <1>2. QED  BY <1>1 DEF Promise!Dispatch, Promise!NoProc, NoProc

\* With contexts saved by the trampolines, and the CPU holding one of them or
\* none, every program sees what its struct holds.
LEMMA StoredView ==
    ASSUME NEW saved, ctx' = saved, Table' \subseteq Pid,
           \/ regs' = NoRegs
           \/ \E q \in Pid : regs' = saved[q] /\ saved[q].of = q
    PROVE  ProcView' = [p \in Pid |-> IF p \notin Table' THEN NoView ELSE SavedView(saved, p)]
  <1>1. CASE regs' = NoRegs
    <2>1. \A p \in Pid : regs'.of # p
      BY <1>1 DEF NoRegs, NoProc, Pid
    <2>2. QED  BY <2>1 DEF ProcView, NoView, SavedView
  <1>2. CASE \E q \in Pid : regs' = saved[q] /\ saved[q].of = q
    BY <1>2 DEF ProcView, NoView, SavedView
  <1>3. QED  BY <1>1, <1>2

\* Setting r0 in the registers that one process sees.
LEMMA SetR0View ==
    ASSUME NEW a, NEW g, NEW v, current_proc \in Pid,
           ProcView = [p \in Pid |-> ProcView[p]], ProcView[current_proc] = [r0 |-> a, gpr |-> g]
    PROVE  [ProcView EXCEPT ![current_proc].r0 = v]
             = [p \in Pid |-> IF p = current_proc THEN [r0 |-> v, gpr |-> g] ELSE ProcView[p]]
  OBVIOUS

\* A system call that leaves the table and the saved contexts alone changes
\* nothing that programs see but the caller's r0.
LEMMA TailView ==
    ASSUME RefInv, mode = "user", NEW ret \in Pid \cup Vals \cup Codes \cup {0, Err}, NEW tt,
           procs' = procs, svc_tail(ret, procs, suspended', ctx, tt)
    PROVE  ProcView' = [p \in Pid |-> IF p = current_proc THEN [r0 |-> ret, gpr |-> regs.gpr]
                                       ELSE ProcView[p]]
  <1> DEFINE back == [regs EXCEPT !.r0 = ret]
             yielded == [ctx EXCEPT ![current_proc] = back]
  <1>0. /\ Table' = Table /\ Table \subseteq Pid /\ current_proc \in Table
        /\ regs.of = current_proc /\ regs \in RegFile /\ ctx \in [Pid -> RegFile]
        /\ \A p \in Table : p # current_proc => ctx[p].of = p
    BY RefFacts DEF Table
  <1>1. /\ back.of = current_proc /\ back.r0 = ret /\ back.gpr = regs.gpr
        /\ yielded[current_proc] = back
        /\ \A p \in Table : p # current_proc => yielded[p] = ctx[p]
    BY <1>0 DEF RegFile
  <1>a. /\ ProcView = [p \in Pid |-> ProcView[p]]
        /\ ProcView[current_proc] = [r0 |-> regs.r0, gpr |-> regs.gpr]
        /\ \A p \in Table : p # current_proc => ProcView[p] = SavedView(ctx, p)
        /\ \A p \in Pid : p \notin Table => ProcView[p] = NoView
    BY <1>0 DEF ProcView, NoView, SavedView
  <1>b. SUFFICES ProcView' = [p \in Pid |-> IF p \notin Table THEN NoView
                                            ELSE IF p = current_proc THEN [r0 |-> ret, gpr |-> regs.gpr]
                                            ELSE SavedView(ctx, p)]
    BY <1>0, <1>a
  <1>2. CASE ctx' = yielded /\ \/ regs' = NoRegs
                               \/ \E q \in Table : regs' = yielded[q]
    <2>1. ProcView' = [p \in Pid |-> IF p \notin Table THEN NoView ELSE SavedView(yielded, p)]
      <3>1. \A q \in Table : yielded[q].of = q
        BY <1>0, <1>1
      <3> HIDE DEF yielded, back
      <3>2. QED  BY <1>0, <1>2, <3>1, StoredView
    <2>2. QED  BY <1>0, <1>1, <2>1 DEF SavedView
  <1>3. CASE ctx' = ctx /\ regs' = back
    BY <1>0, <1>1, <1>3 DEF ProcView, NoView, SavedView
  <1>4. QED
    BY <1>2, <1>3, NextIsRunnable DEF svc_tail, svc_yield, context_switch, Table

\* A system call that only returns a value, to a caller that goes on.
LEMMA ReturnStep ==
    ASSUME RefInv, RefInv', mode = "user", NEW ret \in Pid \cup {0, Err}, NEW tt,
           UNCHANGED <<procs, suspended, wake_tick, join_target>>,
           svc_tail(ret, procs, suspended, ctx, tt)
    PROVE  Promise!Compute
  <1>1. ProcView' = [p \in Pid |-> IF p = current_proc THEN [r0 |-> ret, gpr |-> regs.gpr]
                                     ELSE ProcView[p]]
    BY TailView
  <1>2. /\ Table' = Table /\ ProcJoins' = ProcJoins /\ ProcAsleep' = ProcAsleep
        /\ ProcRunning = current_proc /\ current_proc # NoProc
        /\ regs.of = current_proc
    BY RefFacts DEF Table, ProcJoins, ProcAsleep
  <1>3. ProcRunning' = ProcRunning
    BY <1>2, RefFacts DEF svc_tail, ProcRunning, RegFile
  <1>4. /\ ProcView[ProcRunning] = [r0 |-> regs.r0, gpr |-> regs.gpr]
        /\ regs.gpr \in Vals /\ current_proc \in Pid
    BY <1>2, RefFacts DEF ProcView, RegFile
  <1>5. [ProcView EXCEPT ![ProcRunning] = [r0 |-> ret, gpr |-> regs.gpr]]
          = [p \in Pid |-> IF p = current_proc THEN [r0 |-> ret, gpr |-> regs.gpr]
                           ELSE ProcView[p]]
    BY <1>2, <1>4 DEF ProcView
  <1>6. ProcView' = [ProcView EXCEPT ![ProcRunning] = [r0 |-> ret, gpr |-> regs.gpr]]
    BY <1>1, <1>5, Zenon
  <1>7. ret \in Vals \cup Pid \cup {0, Promise!Err} /\ ProcView[ProcRunning].gpr = regs.gpr
    BY <1>4 DEF Promise!Err, Err
  <1>8. \E r \in Vals \cup Pid \cup {0, Promise!Err}, g \in Vals :
           /\ g = ProcView[ProcRunning].gpr \/ r \in Vals
           /\ ProcView' = [ProcView EXCEPT ![ProcRunning] = [r0 |-> r, gpr |-> g]]
    BY <1>4, <1>6, <1>7, Zenon
  <1>9. QED
    BY <1>2, <1>3, <1>8, Zenon DEF Promise!Compute, Promise!NoProc, NoProc

\* A step that changes nothing that programs see, except that sleepers wake up
\* and that the CPU changes hands.
LEMMA ScheduleStep ==
    ASSUME RefInv', UNCHANGED <<Table, ProcView, ProcJoins>>, ProcAsleep' \subseteq ProcAsleep
    PROVE  Promise!Schedule
  BY Dispatched DEF Promise!Schedule

\* The trampoline of an interrupt leaves every program its registers.
LEMMA IrqView ==
    ASSUME RefInv, mode = "user", procs' = procs, irq_restore_user,
           current_proc' \in Table, current_proc' \notin suspended'
    PROVE  ProcView' = ProcView
  <1> DEFINE saved == [ctx EXCEPT ![current_proc] = regs]
  <1>0. /\ Table' = Table /\ Table \subseteq Pid /\ current_proc \in Table
        /\ regs.of = current_proc /\ ctx \in [Pid -> RegFile]
        /\ \A p \in Table : p # current_proc => ctx[p].of = p
    BY RefFacts DEF Table
  <1>1. /\ saved[current_proc] = regs
        /\ \A p \in Table : p # current_proc => saved[p] = ctx[p]
        /\ \A p \in Table : saved[p].of = p
    BY <1>0
  <1>2. ctx' = saved /\ regs' = saved[current_proc']
    BY DEF irq_restore_user, context_switch
  <1>3. ProcView = [p \in Pid |-> IF p \notin Table THEN NoView ELSE SavedView(saved, p)]
    BY <1>0, <1>1 DEF ProcView, NoView, SavedView
  <1> HIDE DEF saved
  <1>4. ProcView' = [p \in Pid |-> IF p \notin Table' THEN NoView ELSE SavedView(saved, p)]
    BY <1>0, <1>1, <1>2, StoredView
  <1>5. QED  BY <1>0, <1>3, <1>4, Zenon

\* Waiting and waking leave every program its registers.
LEMMA SameView ==
    ASSUME UNCHANGED <<procs, regs, ctx>>
    PROVE  UNCHANGED <<Table, ProcView>>
  BY DEF ProcView, Table

\* The program computes.
LEMMA ComputeStep ==
    ASSUME RefInv, Compute
    PROVE  Promise!Compute
  <1>1. PICK v \in Vals : regs' = [regs EXCEPT !.r0 = v, !.gpr = v]
    BY DEF Compute
  <1>2. /\ UNCHANGED <<procs, ctx, mode, join_target, wake_tick>> /\ mode = "user"
        /\ Table' = Table /\ ProcJoins' = ProcJoins /\ ProcAsleep' = ProcAsleep
    BY DEF Compute, CanRun, schedVars, Table, ProcJoins, ProcAsleep
  <1>3. /\ ProcRunning = current_proc /\ current_proc \in Pid /\ current_proc # NoProc
        /\ regs.of = current_proc /\ current_proc \in Table /\ regs \in RegFile
    BY <1>2, RefFacts
  <1>4. regs'.of = regs.of /\ regs'.r0 = v /\ regs'.gpr = v
    BY <1>1, <1>3 DEF RegFile
  <1>5. ProcRunning' = ProcRunning
    BY <1>2, <1>4 DEF ProcRunning
  <1>6. ProcView' = [p \in Pid |-> IF p = current_proc THEN [r0 |-> v, gpr |-> v] ELSE ProcView[p]]
    BY <1>2, <1>3, <1>4 DEF ProcView
  <1>7. [ProcView EXCEPT ![ProcRunning] = [r0 |-> v, gpr |-> v]]
          = [p \in Pid |-> IF p = current_proc THEN [r0 |-> v, gpr |-> v] ELSE ProcView[p]]
    BY <1>3 DEF ProcView
  <1>8. ProcView' = [ProcView EXCEPT ![ProcRunning] = [r0 |-> v, gpr |-> v]]
    BY <1>6, <1>7, Zenon
  <1>9. \E r \in Vals \cup Pid \cup {0, Promise!Err}, g \in Vals :
           /\ g = ProcView[ProcRunning].gpr \/ r \in Vals
           /\ ProcView' = [ProcView EXCEPT ![ProcRunning] = [r0 |-> r, gpr |-> g]]
    BY <1>8, Zenon
  <1>10. QED
    BY <1>2, <1>3, <1>5, <1>9, Zenon DEF Promise!Compute, Promise!NoProc, NoProc

\* A system call that blocks its caller: what the other two lemmas share.
LEMMA BlockView ==
    ASSUME RefInv, mode = "user", procs' = procs, NEW tt,
           svc_tail(0, procs, suspended', ctx, tt)
    PROVE  /\ Promise!SetR0(ProcRunning, 0) /\ Table' = Table
           /\ ProcRunning = current_proc /\ ProcRunning # Promise!NoProc
  <1>1. ProcView' = [p \in Pid |-> IF p = current_proc THEN [r0 |-> 0, gpr |-> regs.gpr]
                                     ELSE ProcView[p]]
    BY TailView
  <1>2. /\ Table' = Table /\ ProcRunning = current_proc /\ current_proc # NoProc
        /\ regs.of = current_proc /\ current_proc \in Table /\ current_proc \in Pid
    BY RefFacts DEF Table
  <1>3. /\ ProcView[current_proc] = [r0 |-> regs.r0, gpr |-> regs.gpr]
        /\ ProcView = [p \in Pid |-> ProcView[p]]
    BY <1>2 DEF ProcView
  <1>4. [ProcView EXCEPT ![current_proc].r0 = 0]
          = [p \in Pid |-> IF p = current_proc THEN [r0 |-> 0, gpr |-> regs.gpr]
                           ELSE ProcView[p]]
    BY <1>2, <1>3, SetR0View
  <1>5. ProcView' = [ProcView EXCEPT ![ProcRunning].r0 = 0]
    BY <1>1, <1>2, <1>4, Zenon
  <1>6. QED  BY <1>2, <1>5 DEF Promise!SetR0, Promise!NoProc, NoProc

\* svc_sleep is a step of the promise.
LEMMA SleepStep ==
    ASSUME RefInv, RefInv', Sleep
    PROVE  Promise!Sleep
  <1>1. PICK d \in 0 .. MaxSleep : svc_sleep(d)
    BY DEF Sleep
  <1>2. /\ mode = "user" /\ UNCHANGED <<procs, join_target>>
        /\ svc_tail(0, procs, suspended', ctx, ttbr0)
        /\ wake_tick' = [wake_tick EXCEPT ![current_proc] = d + 1]
    BY <1>1 DEF svc_sleep, Calls, CanRun, Deadline
  <1>3. /\ Promise!SetR0(ProcRunning, 0) /\ Table' = Table
        /\ ProcRunning = current_proc /\ ProcRunning # Promise!NoProc
    BY <1>2, BlockView
  <1>4. ProcAsleep' = ProcAsleep \cup {ProcRunning}
    BY <1>2, <1>3, RefFacts DEF ProcAsleep
  <1>5. ProcJoins' = ProcJoins
    BY <1>2, <1>3 DEF ProcJoins
  <1>6. QED  BY <1>3, <1>4, <1>5, Dispatched DEF Promise!Sleep

\* svc_join of a live process is a step of the promise.
LEMMA JoinStep ==
    ASSUME RefInv, RefInv', NEW t \in Pid, sched_get(t), svc_join(t)
    PROVE  Promise!Join
  <1>2. /\ mode = "user" /\ UNCHANGED <<procs, wake_tick>>
        /\ svc_tail(0, procs, suspended', ctx, ttbr0)
        /\ join_target' = [join_target EXCEPT ![current_proc] = t]
    BY DEF svc_join, Calls, CanRun
  <1>3. /\ Promise!SetR0(ProcRunning, 0) /\ Table' = Table
        /\ ProcRunning = current_proc /\ ProcRunning # Promise!NoProc
    BY <1>2, BlockView
  <1>4. ProcAsleep' = ProcAsleep
    BY <1>2, <1>3 DEF ProcAsleep
  <1>5. /\ current_proc \in Pid /\ current_proc \in Table
        /\ join_target \in [Pid -> Pid \cup {NoProc}]
    BY <1>2, RefFacts
  <1>6. [ProcJoins EXCEPT ![ProcRunning] = t]
          = [p \in Pid |-> IF p = current_proc THEN t ELSE ProcJoins[p]]
    BY <1>3, <1>5 DEF ProcJoins
  <1>7. ProcJoins' = [p \in Pid |-> IF p = current_proc THEN t ELSE ProcJoins[p]]
    BY <1>2, <1>3, <1>5 DEF ProcJoins
  <1>8. t \in Table /\ ProcJoins' = [ProcJoins EXCEPT ![ProcRunning] = t]
    BY <1>6, <1>7, Zenon DEF sched_get
  <1>9. QED  BY <1>3, <1>4, <1>8, Dispatched, Zenon DEF Promise!Join

\* A successful exec is a step of the promise.
LEMMA ExecStep ==
    ASSUME RefInv, RefInv', svc_exec("ok")
    PROVE  Promise!Exec
  <1> DEFINE fresh == [NoRegs EXCEPT !.of = current_proc]
             saved == [ctx EXCEPT ![current_proc] = fresh]
  <1>1. /\ mode = "user" /\ UNCHANGED <<procs, suspended, wake_tick, join_target, current_proc>>
        /\ ctx' = saved /\ regs' = saved[current_proc] /\ mode' = "user"
    BY DEF svc_exec, context_switch, Calls, CanRun
  <1>2. /\ Table' = Table /\ Table \subseteq Pid /\ current_proc \in Table
        /\ ctx \in [Pid -> RegFile] /\ regs.of = current_proc
        /\ ProcRunning = current_proc /\ current_proc # NoProc
    BY <1>1, RefFacts DEF Table
  <1>3. /\ saved[current_proc] = fresh /\ fresh.of = current_proc
        /\ fresh.r0 = 0 /\ fresh.gpr = 0
        /\ \A p \in Table : p # current_proc => saved[p] = ctx[p]
    BY <1>2 DEF NoRegs
  <1>4. ProcJoins' = ProcJoins /\ ProcAsleep' = ProcAsleep
    BY <1>1, <1>2 DEF ProcJoins, ProcAsleep
  <1>5. ProcRunning' = ProcRunning
    BY <1>1, <1>2, <1>3 DEF ProcRunning
  <1> HIDE DEF fresh, saved
  <1>6. ProcView' = [p \in Pid |-> IF p = current_proc THEN NoView ELSE ProcView[p]]
    BY <1>1, <1>2, <1>3 DEF ProcView, NoView
  <1>7. [ProcView EXCEPT ![ProcRunning] = Promise!Blank]
          = [p \in Pid |-> IF p = current_proc THEN NoView ELSE ProcView[p]]
    BY <1>2 DEF ProcView, NoView, Promise!Blank
  <1>8. ProcView' = [ProcView EXCEPT ![ProcRunning] = Promise!Blank]
    BY <1>6, <1>7, Zenon
  <1>9. QED
    BY <1>2, <1>4, <1>5, <1>8 DEF Promise!Exec, Promise!NoProc, NoProc

\* A fork that finds a slot is a step of the promise: only the caller's r0 and
\* the new process change.
LEMMA ForkStep ==
    ASSUME RefInv, RefInv', svc_fork, sched_add(next_pid), UninitJoin = {0},
           suspended' = suspended \ {next_pid},
           wake_tick' = [wake_tick EXCEPT ![next_pid] = 0],
           \E j \in UninitJoin : join_target' = [join_target EXCEPT ![next_pid] = j],
           svc_tail(next_pid, procs', suspended',
               [ctx EXCEPT ![next_pid] = [ctx[current_proc] EXCEPT !.of = next_pid, !.r0 = 0]],
               ttbr0)
    PROVE  Promise!Fork
  <1> DEFINE c     == next_pid
             child == [ctx[current_proc] EXCEPT !.of = c, !.r0 = 0]
             saved == [ctx EXCEPT ![c] = child]
             after == [p \in Pid |-> IF p = current_proc THEN [r0 |-> c, gpr |-> regs.gpr]
                                     ELSE IF p = c THEN [r0 |-> 0, gpr |-> child.gpr]
                                     ELSE ProcView[p]]
  <1>1. /\ mode = "user" /\ Table \subseteq Pid /\ current_proc \in Table
        /\ regs.of = current_proc /\ regs \in RegFile /\ ctx \in [Pid -> RegFile]
        /\ current_proc \notin suspended /\ current_proc \in Pid
        /\ ProcRunning = current_proc /\ current_proc # NoProc
        /\ wake_tick \in [Pid -> 0 .. MaxSleep + 1]
        /\ join_target \in [Pid -> Pid \cup {NoProc}]
        /\ c \in Pid /\ c # NoProc
    BY RefFacts DEF svc_fork, Calls, CanRun, RefInv, OwnInv, TableInv, TypeOK, Pid, NoProc
  <1>2. c \notin Table
    BY <1>1 DEF RefInv, OwnInv, TableInv, TableOK, Pid
  <1>3. Table' = Table \cup {c}
    <2>1. PICK i \in Slots : procs[i] = NoProc /\ procs' = [procs EXCEPT ![i] = c]
      BY DEF sched_add
    <2>2. procs \in [Slots -> Pid \cup {NoProc}]
      BY DEF RefInv, OwnInv, TableInv, TypeOK, SchedTypeOK
    <2>3. QED  BY <1>1, <2>1, <2>2 DEF Table, Entries
  <1>4. ctx[current_proc] \in RegFile
    BY <1>1
  <1>5. child.r0 = 0 /\ child.gpr \in Vals /\ child.of = c
    BY <1>4 DEF RegFile
  <1>6. /\ ctx' = saved /\ mode' = "user" /\ regs' = [regs EXCEPT !.r0 = c]
    BY <1>1 DEF svc_tail
  <1>7. /\ saved[c] = child /\ \A p \in Table : saved[p] = ctx[p]
        /\ regs'.of = current_proc /\ regs'.r0 = c /\ regs'.gpr = regs.gpr
    BY <1>1, <1>2, <1>6 DEF RegFile
  <1>8. ProcJoins' = ProcJoins
    <2>1. join_target' = [join_target EXCEPT ![c] = NoProc]
      BY DEF NoProc
    <2>2. QED  BY <1>1, <1>2, <1>3, <2>1 DEF ProcJoins
  <1>9. ProcAsleep' = ProcAsleep
    BY <1>1, <1>2, <1>3 DEF ProcAsleep
  <1>10. ProcRunning' = ProcRunning
    BY <1>1, <1>6, <1>7 DEF ProcRunning
  <1>11. /\ ProcView[current_proc] = [r0 |-> regs.r0, gpr |-> regs.gpr]
         /\ ProcView = [p \in Pid |-> ProcView[p]]
    BY <1>1 DEF ProcView
  <1> HIDE DEF child, saved
  <1>12. ProcView' = after
    BY <1>1, <1>2, <1>3, <1>5, <1>6, <1>7 DEF ProcView
  <1>13. [ProcView EXCEPT ![current_proc].r0 = c, ![c] = [r0 |-> 0, gpr |-> child.gpr]] = after
    <2> DEFINE called == [ProcView EXCEPT ![current_proc].r0 = c]
    <2>1. called = [p \in Pid |-> IF p = current_proc THEN [r0 |-> c, gpr |-> regs.gpr]
                                  ELSE ProcView[p]]
      BY <1>1, <1>11, SetR0View
    <2> HIDE DEF called
    <2>2. [called EXCEPT ![c] = [r0 |-> 0, gpr |-> child.gpr]] = after
      BY <1>1, <1>2, <2>1
    <2>3. QED  BY <2>2 DEF called
  <1>14. ProcView' = [ProcView EXCEPT ![ProcRunning].r0 = c, ![c] = [r0 |-> 0, gpr |-> child.gpr]]
    BY <1>1, <1>12, <1>13, Zenon
  <1>15. c \in Pid \ Table
    BY <1>1, <1>2
  <1> HIDE DEF c
  <1>16. \E d \in Pid \ Table, g \in Vals :
            /\ Table' = Table \cup {d}
            /\ ProcView' = [ProcView EXCEPT ![ProcRunning].r0 = d, ![d] = [r0 |-> 0, gpr |-> g]]
    BY <1>3, <1>5, <1>14, <1>15, Zenon
  <1>17. QED
    BY <1>1, <1>8, <1>9, <1>10, <1>16, Zenon DEF Promise!Fork, Promise!NoProc, NoProc

\* process_exit is a step of the promise: the joiners get the code, everyone
\* else keeps its registers.
LEMMA ExitStep ==
    ASSUME RefInv, RefInv', Exit
    PROVE  Promise!Exit
  <1>1. PICK code \in Codes : svc_exit(code)
    BY DEF Exit
  <1> DEFINE tbl   == sched_remove(current_proc)
             woken == Joiners(tbl, current_proc)
             saved == [p \in Pid |-> IF p = current_proc THEN NoRegs
                                     ELSE IF p \in woken THEN [ctx[p] EXCEPT !.r0 = code]
                                     ELSE ctx[p]]
  <1>2. /\ procs' = tbl /\ ctx' = saved /\ mode = "user"
        /\ join_target' = [p \in Pid |-> IF p \in woken \cup {current_proc}
                                           THEN NoProc ELSE join_target[p]]
        /\ wake_tick' = [wake_tick EXCEPT ![current_proc] = 0]
    BY <1>1 DEF svc_exit, Calls, CanRun
  <1>3. /\ Table \subseteq Pid /\ current_proc \in Table /\ current_proc \in Pid
        /\ regs.of = current_proc /\ ctx \in [Pid -> RegFile]
        /\ ProcRunning = current_proc /\ current_proc # NoProc
        /\ wake_tick \in [Pid -> 0 .. MaxSleep + 1]
        /\ join_target[current_proc] = NoProc /\ wake_tick[current_proc] = 0
        /\ \A p \in Table : p # current_proc => ctx[p].of = p
    BY <1>2, RefFacts
  <1>4. Table' = Table \ {current_proc} /\ Entries(tbl) = Table'
    BY <1>2 DEF Table, Entries, sched_remove, NoProc
  <1>5. woken = {q \in Table' : join_target[q] = current_proc}
    BY <1>4 DEF Joiners
  <1>6. ProcAsleep' = ProcAsleep
    BY <1>2, <1>3, <1>4 DEF ProcAsleep
  <1>7. ProcJoins' = [p \in Pid |-> IF ProcJoins[p] = ProcRunning THEN NoProc ELSE ProcJoins[p]]
    BY <1>2, <1>3, <1>4, <1>5 DEF ProcJoins
  <1>8. \A p \in Pid : /\ [ctx[p] EXCEPT !.r0 = code].of = ctx[p].of
                       /\ [ctx[p] EXCEPT !.r0 = code].r0 = code
                       /\ [ctx[p] EXCEPT !.r0 = code].gpr = ctx[p].gpr
    BY <1>3 DEF RegFile
  <1>9. \A p \in Table' : /\ saved[p].of = p
                          /\ saved[p].gpr = ctx[p].gpr
                          /\ saved[p].r0 = IF p \in woken THEN code ELSE ctx[p].r0
    BY <1>3, <1>4, <1>8
  <1>10. regs' = NoRegs \/ \E q \in Pid : regs' = saved[q] /\ saved[q].of = q
    <2>1. CASE \E p \in Pid : sched_pick_next(tbl, suspended', p) /\ context_switch(p, saved)
      <3>1. PICK p \in Pid : sched_pick_next(tbl, suspended', p) /\ context_switch(p, saved)
        BY <2>1
      <3>2. p \in Table'
        BY <1>4, <3>1, NextIsRunnable
      <3>3. QED  BY <1>9, <3>1, <3>2 DEF context_switch
    <2>2. CASE regs' = NoRegs
      BY <2>2
    <2>3. QED  BY <1>1, <2>1, <2>2 DEF svc_exit
  <1> HIDE DEF tbl, saved
  <1>11. ProcView' = [p \in Pid |-> IF p \notin Table' THEN NoView ELSE SavedView(saved, p)]
    BY <1>2, <1>3, <1>4, <1>10, StoredView
  <1>12. \A p \in Pid : /\ p \in Table /\ p # current_proc => ProcView[p] = SavedView(ctx, p)
                        /\ p \notin Table => ProcView[p] = NoView /\ ProcJoins[p] = NoProc
                        /\ p \in Table => ProcJoins[p] = join_target[p]
    BY <1>3 DEF ProcView, ProcJoins, NoView, SavedView
  <1>a. /\ ProcRunning = current_proc /\ current_proc # NoProc
        /\ ProcJoins[current_proc] = NoProc
    BY <1>3, <1>12
  <1> DEFINE Seen(p) == CASE p = ProcRunning -> Promise!Blank
                          [] ProcJoins[p] = ProcRunning -> [ProcView[p] EXCEPT !.r0 = code]
                          [] OTHER -> ProcView[p]
  <1>13. ASSUME NEW p \in Pid
         PROVE  (IF p \notin Table' THEN NoView ELSE SavedView(saved, p)) = Seen(p)
    <2>1. CASE p = current_proc
      <3>1. Seen(p) = Promise!Blank /\ p \notin Table'
        BY <1>4, <1>a, <2>1
      <3>2. QED  BY <3>1, Zenon DEF NoView, Promise!Blank
    <2>2. CASE p # current_proc /\ p \notin Table
      <3>1. p \notin Table' /\ ProcView[p] = NoView /\ ProcJoins[p] # ProcRunning
        BY <1>4, <1>12, <1>a, <2>2, Zenon
      <3>2. Seen(p) = ProcView[p]
        BY <1>3, <2>2, <3>1
      <3>3. QED  BY <3>1, <3>2, Zenon
    <2>3. CASE p # current_proc /\ p \in Table /\ join_target[p] = current_proc
      <3>1. p \in Table' /\ saved[p].gpr = ctx[p].gpr /\ saved[p].r0 = code
        BY <1>4, <1>5, <1>9, <2>3
      <3>2. ProcView[p] = SavedView(ctx, p) /\ ProcJoins[p] = ProcRunning
        BY <1>12, <1>a, <2>3, Zenon
      <3>3. [ProcView[p] EXCEPT !.r0 = code] = [r0 |-> code, gpr |-> ctx[p].gpr]
        BY <3>2 DEF SavedView
      <3>4. Seen(p) = [ProcView[p] EXCEPT !.r0 = code]
        BY <1>3, <2>3, <3>2
      <3> HIDE DEF Seen
      <3>5. QED  BY <3>1, <3>3, <3>4 DEF SavedView
    <2>4. CASE p # current_proc /\ p \in Table /\ join_target[p] # current_proc
      <3>1. p \in Table' /\ saved[p].gpr = ctx[p].gpr /\ saved[p].r0 = ctx[p].r0
        BY <1>4, <1>5, <1>9, <2>4
      <3>2. ProcView[p] = SavedView(ctx, p) /\ ProcJoins[p] # ProcRunning
        BY <1>12, <1>a, <2>4, Zenon
      <3>3. Seen(p) = ProcView[p]
        BY <1>3, <2>4, <3>2
      <3> HIDE DEF Seen
      <3>4. QED  BY <3>1, <3>2, <3>3 DEF SavedView
    <2>5. QED  BY <2>1, <2>2, <2>3, <2>4
  <1>14. ProcView' = [p \in Pid |-> Seen(p)]
    <2> HIDE DEF Seen
    <2>1. QED  BY <1>11, <1>13
  <1>15. \E d \in Codes :
           ProcView' = [p \in Pid |-> CASE p = ProcRunning -> Promise!Blank
                                        [] ProcJoins[p] = ProcRunning -> [ProcView[p] EXCEPT !.r0 = d]
                                        [] OTHER -> ProcView[p]]
    BY <1>14, Zenon
  <1>16. QED
    BY <1>3, <1>4, <1>6, <1>7, <1>15, Dispatched, Zenon DEF Promise!Exit, Promise!NoProc, NoProc

\* The initial states of the kernel are initial states of the promise.
LEMMA InitPromise ==
    ASSUME Init, UninitJoin = {0}, UninitWake = {0}
    PROVE  Promise!Init
  <1>1. /\ procs = [i \in Slots |-> IF i = 0 THEN 1 ELSE NoProc] /\ 0 \in Slots
        /\ 1 \in Pid /\ mode = "user" /\ regs = [of |-> 1, r0 |-> 0, gpr |-> 0]
        /\ \A p \in Pid : wake_tick[p] = 0 /\ join_target[p] = NoProc
    BY SchedConstants DEF Init, Slots, Pid, NoProc
  <1>2. Table = {1}
    BY <1>1 DEF Table, Entries, NoProc
  <1>3. ProcView = [p \in Pid |-> Promise!Blank]
    BY <1>1, <1>2 DEF ProcView, Promise!Blank
  <1>4. ProcJoins = [p \in Pid |-> Promise!NoProc] /\ ProcAsleep = {} /\ ProcRunning = 1
    BY <1>1, <1>2 DEF ProcJoins, ProcAsleep, ProcRunning, Promise!NoProc, NoProc
  <1>5. QED  BY <1>2, <1>3, <1>4, Zenon DEF Promise!Init

\* Every step of the kernel is a step of the promise or invisible to it.
LEMMA NextPromise ==
    ASSUME "read" \notin Syscalls, UninitJoin = {0}, RefInv, RefInv', [Next]_vars
    PROVE  [Promise!Next]_(Promise!vars)
  <1> SUFFICES Promise!Next \/ UNCHANGED <<Table, ProcView, ProcJoins, ProcAsleep, ProcRunning>>
    BY DEF Promise!vars
  <1> USE DEF Promise!Next
  <1>0. ASSUME mode = "user", NEW ret \in Pid \cup {0, Err}, NEW tt,
               UNCHANGED <<procs, suspended, wake_tick, join_target>>,
               svc_tail(ret, procs, suspended, ctx, tt)
        PROVE  Promise!Next
    BY <1>0, ReturnStep
  <1>1. CASE Compute
    BY <1>1, ComputeStep
  <1>2. CASE PrefetchAbort
    <2>1. UNCHANGED <<procs, regs, ctx, join_target, wake_tick>>
      BY <1>2 DEF PrefetchAbort, schedVars
    <2>2. UNCHANGED <<Table, ProcView, ProcJoins>> /\ ProcAsleep' = ProcAsleep
      BY <2>1, SameView DEF ProcJoins, ProcAsleep
    <2>3. QED  BY <2>2, ScheduleStep
  <1>3. CASE svc_getpid
    BY <1>0, <1>3, RefFacts DEF svc_getpid, Calls, CanRun
  <1>4. CASE svc_fork
    <2>1. CASE svc_tail(Err, procs, suspended, ctx, ttbr0)
                 /\ UNCHANGED <<procs, suspended, join_target, wake_tick>>
      BY <1>0, <1>4, <2>1 DEF svc_fork, Calls, CanRun
    <2>2. QED  BY <1>4, <2>1, ForkStep DEF svc_fork
  <1>5. CASE svc_fork_oom
    BY <1>0, <1>5 DEF svc_fork_oom, Calls, CanRun
  <1>6. CASE Exit
    BY <1>6, ExitStep
  <1>7. CASE Join
    <2>1. PICK t \in Pid : svc_join(t)
      BY <1>7 DEF Join
    <2>2. CASE sched_get(t)
      BY <2>1, <2>2, JoinStep
    <2>3. CASE ~ sched_get(t)
      BY <1>0, <2>1, <2>3 DEF svc_join, Calls, CanRun
    <2>4. QED  BY <2>2, <2>3
  <1>8. CASE Sleep
    BY <1>8, SleepStep
  <1>9. CASE Exec
    <2>1. PICK result \in ExecResults : svc_exec(result)
      BY <1>9 DEF Exec
    <2>2. mode = "user" /\ UNCHANGED <<procs, suspended, wake_tick, join_target>>
      BY <2>1 DEF svc_exec, Calls, CanRun
    <2>3. CASE result = "ok"
      BY <2>1, <2>3, ExecStep
    <2>4. CASE svc_tail(0, procs, suspended, ctx, ttbr0)
      BY <1>0, <2>2, <2>4
    <2>5. CASE svc_tail(0, procs, suspended, ctx, KernelTable)
      BY <1>0, <2>2, <2>5
    <2>6. QED  BY <2>1, <2>3, <2>4, <2>5 DEF svc_exec, llf_load
  <1>10. CASE svc_read
    BY <1>10 DEF svc_read, Calls
  <1>11. CASE svc_read_done
    BY <1>11, RefFacts DEF svc_read_done
  <1>a. ASSUME mode # "off", procs' = procs, join_target' = join_target,
               ProcAsleep' \subseteq ProcAsleep,
               mode = "user" => current_proc' \in Table /\ current_proc' \notin suspended',
               \/ mode = "user" /\ irq_restore_user
               \/ UNCHANGED <<mode, regs, ttbr0, ctx>>
        PROVE  Promise!Next
    <2>1. Table' = Table /\ ProcJoins' = ProcJoins
      BY <1>a DEF Table, ProcJoins
    <2>2. ProcView' = ProcView
      BY <1>a, IrqView, SameView
    <2>3. QED  BY <1>a, <2>1, <2>2, ScheduleStep
  <1>12. CASE TimerIrq
    <2>1. sched_tick /\ mode # "off"
      BY <1>12 DEF TimerIrq
    <2>2. UNCHANGED <<procs, join_target>> /\ Table' = Table
      BY <2>1 DEF sched_tick, Table
    <2>3. ProcAsleep' \subseteq ProcAsleep
      BY <2>1, <2>2, RefFacts DEF sched_tick, ProcAsleep
    <2>4. mode = "user" => current_proc' \in Table /\ current_proc' \notin suspended'
      BY <2>1, RefFacts, TickCurrent DEF RefInv, OwnInv, TableInv, TableOK, Injective
    <2>5. QED  BY <1>12, <1>a, <2>1, <2>2, <2>3, <2>4 DEF TimerIrq
  <1>13. CASE InputIrq
    <2>1. UNCHANGED schedVars /\ mode # "off"
      BY <1>13 DEF InputIrq
    <2>2. ProcAsleep' = ProcAsleep
      BY <2>1 DEF schedVars, ProcAsleep, Table
    <2>3. mode = "user" => current_proc' \in Table /\ current_proc' \notin suspended'
      BY <2>1, RefFacts DEF schedVars
    <2>4. QED  BY <1>13, <1>a, <2>1, <2>2, <2>3 DEF InputIrq, schedVars
  <1>14. CASE WaitDone
    <2>1. /\ mode = "idle" /\ context_switch(current_proc, ctx)
          /\ UNCHANGED schedVars /\ ctx' = ctx
      BY <1>14 DEF WaitDone
    <2>2. /\ regs.of = NoProc /\ Table \subseteq Pid /\ Table' = Table
          /\ current_proc \in Table
      BY <2>1, RefFacts DEF RefInv, OwnInv, schedVars, Table
    <2>3. \A p \in Pid : regs.of # p
      BY <2>2 DEF Pid, NoProc
    <2>4. ctx[current_proc].of = current_proc
      BY <2>2, <2>3, RefFacts
    <2>5. ProcView = [p \in Pid |-> IF p \notin Table THEN NoView ELSE SavedView(ctx, p)]
      BY <2>3 DEF ProcView, NoView, SavedView
    <2>6. ProcView' = [p \in Pid |-> IF p \notin Table' THEN NoView ELSE SavedView(ctx, p)]
      BY <2>1, <2>2, <2>4, StoredView DEF context_switch
    <2>7. ProcView' = ProcView
      BY <2>2, <2>5, <2>6, Zenon
    <2>8. ProcJoins' = ProcJoins /\ ProcAsleep' = ProcAsleep
      BY <2>1, <2>2 DEF ProcJoins, ProcAsleep, schedVars
    <2>9. QED  BY <2>2, <2>7, <2>8, ScheduleStep
  <1>15. CASE Clock
    <2>1. UNCHANGED <<procs, join_target, regs, ctx>>
      BY <1>15 DEF Clock, ClockAdvance, kernVars
    <2>2. UNCHANGED <<Table, ProcView, ProcJoins>>
      BY <2>1, SameView DEF ProcJoins
    <2>3. \A p \in Table : wake_tick'[p] # 0 => wake_tick[p] # 0
      BY <1>15, RefFacts DEF Clock, ClockAdvance
    <2>4. ProcAsleep' \subseteq ProcAsleep
      BY <2>2, <2>3 DEF ProcAsleep
    <2>5. QED  BY <2>2, <2>4, ScheduleStep
  <1>16. CASE UNCHANGED vars
    <2>1. UNCHANGED <<procs, regs, ctx, mode, join_target, wake_tick>>
      BY <1>16 DEF vars
    <2>2. QED  BY <2>1, SameView DEF ProcJoins, ProcAsleep, ProcRunning, Table
  <1>17. QED
    BY <1>1, <1>2, <1>3, <1>4, <1>5, <1>6, <1>7, <1>8, <1>9, <1>10, <1>11, <1>12,
       <1>13, <1>14, <1>15, <1>16 DEF Next

\* As long as no program makes a console read and structs come zeroed, the
\* kernel keeps the promise of module Processes: no switch, interrupt, yield,
\* fork, exec or exit changes a register under a program that does not expect
\* it, joiners get the exit code, and sleepers and joiners do not run.
THEOREM KernelImplements ==
    ASSUME "read" \notin Syscalls, UninitJoin = {0}, UninitWake = {0}
    PROVE  Spec => ImplementsPromise
  <1>1. Init => RefInv /\ Promise!Init
    BY InitOwn, InitBlock, InitPromise DEF RefInv
  <1>2. RefInv /\ [Next]_vars => RefInv'
    BY NextOwn, NextBlock DEF RefInv
  <1>3. RefInv /\ RefInv' /\ [Next]_vars => [Promise!Next]_(Promise!vars)
    BY NextPromise
  <1>4. QED
    BY <1>1, <1>2, <1>3, PTL DEF Spec, ImplementsPromise, Promise!Spec
=============================================================================
