------------------------------ MODULE Dispatcher ------------------------------
(***************************************************************************)
(* What preemptive multitasking promises to the threads of the kernel,     *)
(* without process slots, stacks, interrupts or an order of service:       *)
(* exactly one thread runs; a thread that stopped running without leaving  *)
(* can always be continued, and is in the end, unless the one thread that  *)
(* may do so has stopped the machine.  It is the specification that        *)
(* Multitasking implements.                                                *)
(***************************************************************************)

CONSTANTS
    Tasks,      \* the processes that may be created
    Boot,       \* the thread that creates them and then leaves
    First,      \* the process Boot hands the CPU to
    Stopper     \* the process that may stop the machine

VARIABLES
    running,    \* the thread that has the CPU, or "stopped"
    ready       \* the threads that wait for it

Init == running = Boot /\ ready = {}

\* Boot makes a process known to the scheduler.
Create(t) ==
    /\ running = Boot
    /\ t \notin ready
    /\ ready' = ready \cup {t}
    /\ UNCHANGED running

\* The running thread is preempted in favour of one that waits.
Dispatch(t) ==
    /\ running # "stopped"
    /\ t \in ready
    /\ running' = t
    /\ ready' = (ready \ {t}) \cup {running}

\* Boot gives the CPU away for good.
Leave ==
    /\ running = Boot
    /\ First \in ready
    /\ running' = First
    /\ ready' = ready \ {First}

\* Nobody runs any more.
Stop ==
    /\ running = Stopper
    /\ running' = "stopped"
    /\ UNCHANGED ready

Next ==
    \/ Leave \/ Stop
    \/ \E t \in Tasks : Create(t)
    \/ \E t \in Tasks \cup {Boot} : Dispatch(t)

Spec == Init /\ [][Next]_<<running, ready>>

FairSpec ==
    /\ Spec
    /\ \A t \in Tasks \cup {Boot} : WF_<<running, ready>>(Dispatch(t))

=============================================================================
