----------------------------- MODULE Scheduler -----------------------------
(***************************************************************************)
(* The process table and the round-robin scheduler of src/kernel/          *)
(* scheduler.c.                                                            *)
(*                                                                         *)
(* A process_t is identified with its pid: pids are never reused, and two  *)
(* structs in the table never share one.  The fields the scheduler reads   *)
(* (suspended, wake_tick, join_target) are therefore indexed by pid.       *)
(*                                                                         *)
(* Time.  The code compares wake_tick with the free-running CNTPCT counter.*)
(* Only the distance to the deadline matters, so wake_tick[p] holds that   *)
(* distance: 0 when the process does not sleep (as in the code), 1 when    *)
(* the deadline is due (now >= wake_tick), k + 1 when k units are left.    *)
(***************************************************************************)
EXTENDS Integers, FiniteSets

CONSTANTS
    MaxProcs,     \* MAX_PROCESSES: slots in the table
    MaxPid,       \* bound on the pids handed out in a behaviour
    MaxSleep      \* bound on the argument of sleep, in units

ASSUME SchedConstants ==
    /\ MaxProcs \in Nat /\ MaxProcs >= 1
    /\ MaxPid \in Nat /\ MaxPid >= 1
    /\ MaxSleep \in Nat

Slots == 0 .. MaxProcs - 1
Pid == 1 .. MaxPid
NoProc == 0              \* an empty slot; also "no pid" in join_target

VARIABLES
    procs,         \* the table: slot -> pid, or NoProc
    current_proc,  \* the pid whose struct current_proc points to
    suspended,     \* the pids whose suspended flag is non-zero
    wake_tick,     \* pid -> distance to the sleep deadline, 0 = not sleeping
    join_target    \* pid -> the pid it joins, 0 = not joining

schedVars == <<procs, current_proc, suspended, wake_tick, join_target>>

\* The processes a table holds.
Entries(tbl) == {tbl[i] : i \in Slots} \ {NoProc}
Table == Entries(procs)

\* sched_get: the lookup by pid that every syscall on another process makes.
sched_get(pid) == pid \in Table

\* The slot of p, or MaxProcs when p is not in the table.  tbl is the table
\* at the point of the handler where the code searches it.
SlotOf(tbl, p) ==
    IF \E i \in Slots : tbl[i] = p
      THEN CHOOSE i \in Slots : tbl[i] = p
      ELSE MaxProcs

\* Mutant of sched_add: the slot is not tested, the first one is overwritten.
SchedAddOverwrite(p) == procs' = [procs EXCEPT ![0] = p]

\* sched_add stores p in the first free slot.  It fails on a full table.
sched_add(p) ==
    \E i \in Slots :
        /\ procs[i] = NoProc
        /\ \A k \in Slots : k < i => procs[k] # NoProc
        /\ procs' = [procs EXCEPT ![i] = p]

TableFull == \A i \in Slots : procs[i] # NoProc

\* The table sched_remove leaves behind.
sched_remove(pid) == [i \in Slots |-> IF procs[i] = pid THEN NoProc ELSE procs[i]]

\* Mutants of Joiners: the loop stops after one process; any joiner is woken.
JoinersFirst(tbl, pid) ==
    {q \in Pid : /\ \E i \in Slots : /\ tbl[i] = q /\ join_target[q] = pid
                                    /\ \A k \in 0 .. i - 1 :
                                           tbl[k] # NoProc => join_target[tbl[k]] # pid}
JoinersOfAny(tbl, pid) ==
    {q \in Entries(tbl) : join_target[q] # NoProc}

\* The processes sched_wake_joiners wakes: those whose join_target is pid.
\* It looks at nothing else, so neither at suspended.
Joiners(tbl, pid) ==
    {q \in Entries(tbl) : join_target[q] = pid}

\* p is the first runnable process of the slots cur+1, ..., cur+last, taken
\* modulo the table size: the loop of sched_pick_next and of sched_tick.
FirstRunnable(tbl, susp, cur, last, p) ==
    \E j \in 1 .. last :
        /\ p = tbl[(cur + j) % MaxProcs]
        /\ p # NoProc /\ p \notin susp
        /\ \A k \in 1 .. j - 1 :
               tbl[(cur + k) % MaxProcs] \in susp \cup {NoProc}

\* sched_pick_next returns p.  It visits every slot, its own last.
sched_pick_next(tbl, susp, p) ==
    FirstRunnable(tbl, susp, SlotOf(tbl, current_proc), MaxProcs, p)

\* sched_pick_next returns nullptr.
NoneRunnable(tbl, susp) == Entries(tbl) \subseteq susp

\* Mutant of Due: the scan skips the current process.
DueOthers == {p \in Table \ {current_proc} : wake_tick[p] = 1}

\* The processes whose deadline has passed.
Due == {p \in Table : wake_tick[p] = 1}

\* What sched_tick does after waking the due sleepers: susp is the suspended
\* set by then.  The preempted process is marked suspended.
Preempt(susp) ==
    LET cur == SlotOf(procs, current_proc)
        Next(p) == cur # MaxProcs /\ FirstRunnable(procs, susp, cur, MaxProcs - 1, p)
    IN  \/ \E p \in Pid :
              /\ Next(p)
              /\ suspended' = susp \cup {current_proc}
              /\ current_proc' = p
        \/ /\ \A p \in Pid : ~Next(p)
           /\ suspended' = susp
           /\ UNCHANGED current_proc

\* The timer callback.
sched_tick ==
    /\ wake_tick' = [p \in Pid |-> IF p \in Due THEN 0 ELSE wake_tick[p]]
    /\ Preempt(suspended \ Due)
    /\ UNCHANGED <<procs, join_target>>

\* CNTPCT advances by one unit: every pending deadline comes closer.
ClockAdvance ==
    /\ \E p \in Table : wake_tick[p] > 1
    /\ wake_tick' = [p \in Pid |-> IF wake_tick[p] > 1 THEN wake_tick[p] - 1
                                                       ELSE wake_tick[p]]
    /\ UNCHANGED <<procs, current_proc, suspended, join_target>>

SchedTypeOK ==
    /\ procs \in [Slots -> Pid \cup {NoProc}]
    /\ current_proc \in Pid
    /\ suspended \subseteq Pid
    /\ wake_tick \in [Pid -> 0 .. MaxSleep + 1]
    /\ join_target \in [Pid -> Pid \cup {NoProc}]
=============================================================================
