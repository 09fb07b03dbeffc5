----------------------------- MODULE Processes -----------------------------
(***************************************************************************)
(* What the kernel promises its user programs.  Each process is a virtual  *)
(* CPU: nobody but the process itself changes its registers, except that   *)
(* the result of a system call appears in r0 and that exec starts afresh.  *)
(* A process that joins another gets the code the other exits with; a      *)
(* process that sleeps or joins does not run.                              *)
(*                                                                         *)
(* One liberty is written into the promise because process_fork takes it:  *)
(* the registers a forked child starts with, other than r0, are arbitrary. *)
(***************************************************************************)
EXTENDS Integers

CONSTANTS Pid, Vals, Codes

NoProc == 0
Err == -1
Blank == [r0 |-> 0, gpr |-> 0]

VARIABLES
    live,     \* the processes that exist
    view,     \* process -> the registers its program sees
    joins,    \* process -> the process it waits for, or NoProc
    asleep,   \* the processes that sleep
    running   \* the process in user mode, or NoProc

vars == <<live, view, joins, asleep, running>>

Ready == {p \in live : joins[p] = NoProc /\ p \notin asleep}

Init ==
    /\ live = {1}
    /\ view = [p \in Pid |-> Blank]
    /\ joins = [p \in Pid |-> NoProc]
    /\ asleep = {}
    /\ running = 1

\* The CPU goes to a process that can run, or to none.
Dispatch == running' \in (Ready' \cup {NoProc})

SetR0(p, v) == view' = [view EXCEPT ![p].r0 = v]

\* The running program changes its registers, or makes a system call that
\* only returns a value.
Compute ==
    /\ running # NoProc
    /\ \E r \in Vals \cup Pid \cup {0, Err}, g \in Vals :
           /\ g = view[running].gpr \/ r \in Vals
           /\ view' = [view EXCEPT ![running] = [r0 |-> r, gpr |-> g]]
    /\ UNCHANGED <<live, joins, asleep, running>>

Fork ==
    /\ running # NoProc
    /\ \E c \in Pid \ live, g \in Vals :
           /\ live' = live \cup {c}
           /\ view' = [view EXCEPT ![running].r0 = c, ![c] = [r0 |-> 0, gpr |-> g]]
    /\ UNCHANGED <<joins, asleep, running>>

\* Everyone who waits for the exiting process gets its code and is released.
Exit ==
    /\ running # NoProc
    /\ live' = live \ {running}
    /\ \E c \in Codes :
           view' = [p \in Pid |-> CASE p = running        -> Blank
                                    [] joins[p] = running -> [view[p] EXCEPT !.r0 = c]
                                    [] OTHER              -> view[p]]
    /\ joins' = [p \in Pid |-> IF joins[p] = running THEN NoProc ELSE joins[p]]
    /\ UNCHANGED asleep
    /\ Dispatch

Join ==
    /\ running # NoProc
    /\ \E t \in live : joins' = [joins EXCEPT ![running] = t]
    /\ SetR0(running, 0)
    /\ UNCHANGED <<live, asleep>>
    /\ Dispatch

Sleep ==
    /\ running # NoProc
    /\ asleep' = asleep \cup {running}
    /\ SetR0(running, 0)
    /\ UNCHANGED <<live, joins>>
    /\ Dispatch

Exec ==
    /\ running # NoProc
    /\ view' = [view EXCEPT ![running] = Blank]
    /\ UNCHANGED <<live, joins, asleep, running>>

\* Sleepers wake up and the CPU may be given to another process.
Schedule ==
    /\ asleep' \subseteq asleep
    /\ UNCHANGED <<live, view, joins>>
    /\ Dispatch

Next == Compute \/ Fork \/ Exit \/ Join \/ Sleep \/ Exec \/ Schedule

Spec == Init /\ [][Next]_vars
=============================================================================
