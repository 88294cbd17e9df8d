---------------------------- MODULE Multitasking ----------------------------
(***************************************************************************)
(* Preemptive multitasking of the LabOS Agarta kernel, from the call of    *)
(* process_init() in kernel_main onwards: the process table (process.c),   *)
(* the round-robin scheduler the timer interrupt calls (scheduler.c,       *)
(* pit.c), the stack switch (context_switch.asm), interrupt entry, end of  *)
(* interrupt and exit (idt.c, idt.asm), the two kernel tasks (kernel.c),   *)
(* the entry into ring 3 and the system calls made there (userspace/).     *)
(*                                                                         *)
(* There is one CPU.  A "thread" is a flow of control with a stack of its  *)
(* own; a "slot" is an entry of process_table[].  The two are not the same *)
(* thing in this code: kernel_main keeps running for a few instructions    *)
(* after it has given its slot up, and that is where the hard cases are.   *)
(*                                                                         *)
(* A saved stack pointer is abstracted to the thread whose frame it points *)
(* to; "Null" if it was never written; "Stale" if the frame it points to   *)
(* has been popped since, so that the memory there may hold anything.      *)
(* A slot's pid is its index, which is what process_create stores.         *)
(*                                                                         *)
(* The operators named after another one, like Eoi_wrong_line after Eoi,   *)
(* are that one with a plausible programming mistake.  No specification    *)
(* uses them: they are there to show that a property notices the mistake.  *)
(***************************************************************************)
EXTENDS Integers, Sequences

CONSTANTS
    MaxProcesses,     \* MAX_PROCESSES, 16 in the code
    StackBudgets,     \* how many kernel stacks the heap may have left
    HandoffQuiet,     \* TRUE: no timer tick lands in the handoff window
    UserCalls         \* what the loaded program does in ring 3

ASSUME MaxProcessesAssumption == MaxProcesses \in Nat /\ MaxProcesses >= 2
ASSUME StackBudgetsAssumption == StackBudgets \subseteq Nat
ASSUME HandoffQuietAssumption == HandoffQuiet \in BOOLEAN
ASSUME UserCallsAssumption    == UserCalls \subseteq {"write", "bad", "exit", "fault"}

Slots == 0 .. MaxProcesses - 1
NULL  == -1

Tasks   == {"task_a", "task_b", "userspace_init"}
Threads == Tasks \cup {"kernel_main"}

\* The entry points of kernel_main's process_create calls, in order.
Entry == <<"task_a", "task_b", "userspace_init">>

VARIABLES
    state,      \* process_table[i].state
    esp,        \* process_table[i].esp
    page_dir,   \* whether process_table[i].page_dir has been written
    current,    \* current_process
    cpu,        \* the thread whose stack the CPU is on, or "Wild"
    iflag,      \* the interrupt flag in EFLAGS
    inService,  \* the 8259's in-service register: 0 timer, 1 keyboard
    mode,       \* per thread: what runs on top of its stack
    unfinished, \* per thread: interrupt exits the top of its stack interrupted
    pc,         \* per thread: where its own code is
    k,          \* which process_create call kernel_main is at
    proc,       \* process_create's proc
    ta,         \* kernel_main's ta (and p, which is a copy of it)
    prev,       \* kernel_main's prev
    new_esp,    \* the argument context_switch loads for kernel_main
    stacks      \* kernel stacks the heap can still hand out

table   == <<state, esp, page_dir, current>>
locals  == <<k, proc, ta, prev, new_esp>>
machine == <<cpu, iflag, inService, mode, unfinished>>
vars    == <<table, machine, pc, locals, stacks>>

-----------------------------------------------------------------------------
(* Reset.  BSS is zero, so every slot reads P_READY (0) until process_init *)
(* has run; interrupts have been on since initIdt.                         *)

Init ==
    /\ state = [s \in Slots |-> "READY"]
    /\ esp = [s \in Slots |-> "Null"]
    /\ page_dir = [s \in Slots |-> FALSE]
    /\ current = NULL
    /\ cpu = "kernel_main"
    /\ iflag = TRUE
    /\ inService = {}
    /\ mode = [t \in Threads |-> "code"]
    /\ unfinished = [t \in Threads |-> 0]
    /\ pc = [t \in Threads |-> IF t = "kernel_main" THEN "process_init" ELSE "entry"]
    /\ k = 1
    /\ proc = NULL /\ ta = NULL /\ prev = NULL
    /\ new_esp = "Null"
    /\ stacks \in StackBudgets

Executes(t, label) == cpu = t /\ mode[t] = "code" /\ pc[t] = label
Goto(t, label)     == pc' = [pc EXCEPT ![t] = label]
KernelAt(label)    == Executes("kernel_main", label)
KernelGoto(label)  == Goto("kernel_main", label)

-----------------------------------------------------------------------------
(* process.c.  No interrupt handler looks at the table before process_init *)
(* sets current_process in its last statement, so that it is one action.   *)

process_init ==
    /\ KernelAt("process_init")
    /\ state' = [s \in Slots |-> IF s = 0 THEN "RUNNING" ELSE "DEAD"]
    /\ esp' = [esp EXCEPT ![0] = "Null"]
    /\ page_dir' = [page_dir EXCEPT ![0] = TRUE]
    /\ current' = 0
    /\ KernelGoto("find_slot")
    /\ UNCHANGED <<machine, locals, stacks>>

\* process_create returns r to kernel_main, which keeps the first result it
\* needs and tests none of them.
ReturnProcess(r) ==
    /\ k' = k + 1
    /\ ta' = IF k = 1 THEN r ELSE ta
    /\ KernelGoto(IF k < Len(Entry) THEN "find_slot" ELSE "read_current")
    /\ UNCHANGED <<prev, new_esp>>

FirstDead(s) == state[s] = "DEAD" /\ \A r \in 0 .. s - 1 : state[r] # "DEAD"

\* Marks the slot as taken while it has no stack yet.
FindSlot_early ==
    /\ KernelAt("find_slot")
    /\ \E s \in Slots :
          /\ FirstDead(s)
          /\ proc' = s
          /\ state' = [state EXCEPT ![s] = "READY"]
    /\ KernelGoto("build_stack")
    /\ UNCHANGED <<esp, page_dir, current, machine, k, ta, prev, new_esp, stacks>>

\* The first P_DEAD slot; its state is left as it is.
FindSlot ==
    /\ KernelAt("find_slot")
    /\ \/ /\ \E s \in Slots : FirstDead(s) /\ proc' = s
          /\ KernelGoto("build_stack")
          /\ UNCHANGED <<k, ta, prev, new_esp>>
       \/ /\ \A s \in Slots : state[s] # "DEAD"
          /\ proc' = NULL
          /\ ReturnProcess(NULL)
    /\ UNCHANGED <<table, machine, stacks>>

\* Does not test kmalloc's result.
BuildStack_unchecked ==
    /\ KernelAt("build_stack")
    /\ IF stacks > 0
       THEN stacks' = stacks - 1 /\ esp' = [esp EXCEPT ![proc] = Entry[k]]
       ELSE UNCHANGED <<stacks, esp>>
    /\ KernelGoto("set_ready")
    /\ UNCHANGED <<state, page_dir, current, machine, locals>>

\* kmalloc of the kernel stack, the five words built on it, and proc->esp.
BuildStack ==
    /\ KernelAt("build_stack")
    /\ \/ /\ stacks > 0
          /\ stacks' = stacks - 1
          /\ esp' = [esp EXCEPT ![proc] = Entry[k]]
          /\ KernelGoto("set_ready")
          /\ UNCHANGED <<k, ta, prev, new_esp>>
       \/ /\ stacks = 0
          /\ ReturnProcess(NULL)
          /\ UNCHANGED <<esp, stacks>>
    /\ UNCHANGED <<state, page_dir, current, machine, proc>>

\* From here on the next tick may dispatch the process.
SetReady ==
    /\ KernelAt("set_ready")
    /\ state' = [state EXCEPT ![proc] = "READY"]
    /\ KernelGoto("set_page_dir")
    /\ UNCHANGED <<esp, page_dir, current, machine, locals, stacks>>

\* Forgets the page directory.
SetPageDir_forgotten ==
    /\ KernelAt("set_page_dir")
    /\ ReturnProcess(proc)
    /\ UNCHANGED <<table, machine, proc, stacks>>

SetPageDir ==
    /\ KernelAt("set_page_dir")
    /\ page_dir' = [page_dir EXCEPT ![proc] = TRUE]
    /\ ReturnProcess(proc)
    /\ UNCHANGED <<state, esp, current, machine, proc, stacks>>

process_create == FindSlot \/ BuildStack \/ SetReady \/ SetPageDir

-----------------------------------------------------------------------------
(* context_switch.asm.  The frame the CPU continues from is popped: every  *)
(* other pointer to it is stale from then on.                              *)

\* pop the frame f points to, when the saved pointers are e and n.
SwitchTo(f, e, n) ==
    IF f \in Threads
    THEN /\ cpu' = f
         /\ esp' = [s \in Slots |-> IF e[s] = f THEN "Stale" ELSE e[s]]
         /\ new_esp' = IF n = f THEN "Stale" ELSE n
    ELSE /\ cpu' = "Wild"
         /\ esp' = e
         /\ new_esp' = n

-----------------------------------------------------------------------------
(* kernel_main hands the CPU to task_a with interrupts on.  p is ta.       *)

ReadCurrent ==
    /\ KernelAt("read_current")
    /\ prev' = current
    /\ KernelGoto("set_current")
    /\ UNCHANGED <<table, machine, k, proc, ta, new_esp, stacks>>

SetCurrent ==
    /\ KernelAt("set_current")
    /\ current' = ta
    /\ KernelGoto("kill_prev")
    /\ UNCHANGED <<state, esp, page_dir, machine, locals, stacks>>

\* Yields instead of leaving the table.
KillPrev_yield ==
    /\ KernelAt("kill_prev")
    /\ state' = [state EXCEPT ![prev] = "READY"]
    /\ KernelGoto("run_p")
    /\ UNCHANGED <<esp, page_dir, current, machine, locals, stacks>>

KillPrev ==
    /\ KernelAt("kill_prev")
    /\ state' = [state EXCEPT ![prev] = "DEAD"]
    /\ KernelGoto("run_p")
    /\ UNCHANGED <<esp, page_dir, current, machine, locals, stacks>>

\* Forgets p->state.
RunP_forgotten ==
    /\ KernelAt("run_p")
    /\ KernelGoto("push_args")
    /\ UNCHANGED <<table, machine, locals, stacks>>

\* With p = 0 the store goes to address 16, outside the table.
RunP ==
    /\ KernelAt("run_p")
    /\ state' = [s \in Slots |-> IF s = ta THEN "RUNNING" ELSE state[s]]
    /\ KernelGoto("push_args")
    /\ UNCHANGED <<esp, page_dir, current, machine, locals, stacks>>

\* The arguments are read before the call; with p = 0 they are garbage.
PushArgs ==
    /\ KernelAt("push_args")
    /\ new_esp' = IF ta = NULL THEN "Stale" ELSE esp[ta]
    /\ KernelGoto("save_esp")
    /\ UNCHANGED <<table, machine, k, proc, ta, prev, stacks>>

SaveEsp ==
    /\ KernelAt("save_esp")
    /\ esp' = [esp EXCEPT ![prev] = "kernel_main"]
    /\ KernelGoto("load_esp")
    /\ UNCHANGED <<state, page_dir, current, machine, locals, stacks>>

LoadEsp ==
    /\ KernelAt("load_esp")
    /\ SwitchTo(new_esp, esp, new_esp)
    /\ KernelGoto("gone")
    /\ UNCHANGED <<state, page_dir, current, iflag, inService, mode, unfinished,
                   k, proc, ta, prev, stacks>>

Handoff == ReadCurrent \/ SetCurrent \/ KillPrev \/ RunP \/ PushArgs
           \/ SaveEsp \/ LoadEsp

\* current_process is already p, but p->esp has not been read yet.
HandoffWindow == {"kill_prev", "run_p", "push_args"}

-----------------------------------------------------------------------------
(* The created processes.  A process dispatched for the first time by the  *)
(* timer starts with interrupts off.                                       *)

TaskSti(t) ==
    /\ Executes(t, "entry")
    /\ iflag' = TRUE
    /\ Goto(t, "loop")
    /\ UNCHANGED <<table, cpu, inService, mode, unfinished, locals, stacks>>

\* userspace_init: esp0 for the TSS, then iretd with IF set in the image.
jump_usermode ==
    /\ Executes("userspace_init", "entry")
    /\ iflag' = TRUE
    /\ Goto("userspace_init", "ring3")
    /\ UNCHANGED <<table, cpu, inService, mode, unfinished, locals, stacks>>

\* int 0x80 and faults go through interrupt gates.  sys_exit_handler and
\* panic end in for(;;) with interrupts off.
UserTrap(call) ==
    /\ Executes("userspace_init", "ring3")
    /\ iflag' = FALSE
    /\ mode' = [mode EXCEPT !["userspace_init"] =
                   IF call \in {"write", "bad"} THEN "syscall" ELSE "halt"]
    /\ UNCHANGED <<table, cpu, inService, unfinished, pc, locals, stacks>>

UserReturn ==
    /\ cpu = "userspace_init" /\ mode[cpu] = "syscall"
    /\ iflag' = TRUE
    /\ mode' = [mode EXCEPT ![cpu] = "code"]
    /\ UNCHANGED <<table, cpu, inService, unfinished, pc, locals, stacks>>

-----------------------------------------------------------------------------
(* Interrupts.  A non-specific end of interrupt clears the in-service bit  *)
(* of the highest priority, which is the lowest number.                    *)

\* Always names the keyboard's line.
Eoi_wrong_line(S) == S \ {1}

Eoi(S) == IF 0 \in S THEN S \ {0} ELSE S \ {1}

\* The 8259 raises irq unless one of its priority or higher is in service.
\* The handoff may return into the exit path of a handler with interrupts on:
\* that path can be interrupted again.
Interrupt(irq, handler) ==
    /\ cpu \in Threads
    /\ iflag
    /\ inService \cap 0 .. irq = {}
    /\ inService' = inService \cup {irq}
    /\ iflag' = FALSE
    /\ mode' = [mode EXCEPT ![cpu] = handler]
    /\ unfinished' = IF mode[cpu] = "code" THEN unfinished
                     ELSE [unfinished EXCEPT ![cpu] = @ + 1]
    /\ UNCHANGED <<table, cpu, pc, locals, stacks>>

Tick ==
    /\ HandoffQuiet => ~ (cpu = "kernel_main" /\ pc["kernel_main"] \in HandoffWindow)
    /\ Interrupt(0, "irq0")

\* keyboard_irq runs to its end with interrupts off and touches nothing here.
KeyPress == Interrupt(1, "irq_exit")

\* How many slots after current_process the scan meets slot s.
Distance(s) == (s + MaxProcesses - current) % MaxProcesses

\* Scans from slot 0, not from the current one.
pick_next_process_priority(next) ==
    /\ next # current
    /\ state[next] = "READY"
    /\ \A s \in 0 .. next - 1 : s # current => state[s] # "READY"

\* Stops at the end of the table.
pick_next_process_no_wrap(next) ==
    /\ next > current
    /\ state[next] = "READY"
    /\ \A s \in current + 1 .. next - 1 : state[s] # "READY"

pick_next_process(next) ==
    /\ next # current
    /\ state[next] = "READY"
    /\ \A s \in Slots \ {current} : Distance(s) < Distance(next) => state[s] # "READY"

NoneReady == \A s \in Slots \ {current} : state[s] # "READY"

\* Leaves the old process marked running.
schedule_keeps_running ==
    /\ current # NULL
    /\ \E next \in Slots :
          /\ pick_next_process(next)
          /\ current' = next
          /\ state' = [state EXCEPT ![next] = "RUNNING"]
          /\ SwitchTo(esp[next], [esp EXCEPT ![current] = cpu], new_esp)
    /\ UNCHANGED page_dir

schedule ==
    \/ /\ current = NULL \/ NoneReady
       /\ UNCHANGED <<table, cpu, new_esp>>
    \/ /\ current # NULL
       /\ \E next \in Slots :
             /\ pick_next_process(next)
             /\ current' = next
             /\ state' = [state EXCEPT ![next] = "RUNNING", ![current] = "READY"]
             /\ SwitchTo(esp[next], [esp EXCEPT ![current] = cpu], new_esp)
       /\ UNCHANGED page_dir

\* Leaves the end of interrupt to irq_handler.
onIrq0_late_eoi ==
    /\ cpu \in Threads /\ mode[cpu] = "irq0"
    /\ mode' = [mode EXCEPT ![cpu] = "irq_exit"]
    /\ schedule
    /\ UNCHANGED <<inService, iflag, unfinished, pc, k, proc, ta, prev, stacks>>

\* Lets interrupts in while it schedules.
onIrq0_sti ==
    /\ cpu \in Threads /\ mode[cpu] = "irq0"
    /\ inService' = Eoi(inService)
    /\ iflag' = TRUE
    /\ mode' = [mode EXCEPT ![cpu] = "irq_exit"]
    /\ schedule
    /\ UNCHANGED <<unfinished, pc, k, proc, ta, prev, stacks>>

\* The first end of interrupt is sent before schedule(), because schedule()
\* may return on another stack.
onIrq0 ==
    /\ cpu \in Threads /\ mode[cpu] = "irq0"
    /\ inService' = Eoi(inService)
    /\ mode' = [mode EXCEPT ![cpu] = "irq_exit"]
    /\ schedule
    /\ UNCHANGED <<iflag, unfinished, pc, k, proc, ta, prev, stacks>>

\* The rest of irq_handler, and the stub's sti and iret.
irq_exit ==
    /\ cpu \in Threads /\ mode[cpu] = "irq_exit"
    /\ inService' = Eoi(inService)
    /\ iflag' = TRUE
    /\ IF unfinished[cpu] = 0
       THEN mode' = [mode EXCEPT ![cpu] = "code"] /\ UNCHANGED unfinished
       ELSE unfinished' = [unfinished EXCEPT ![cpu] = @ - 1] /\ UNCHANGED mode
    /\ UNCHANGED <<table, cpu, pc, locals, stacks>>

-----------------------------------------------------------------------------

CodeStep ==
    \/ process_init \/ process_create \/ Handoff
    \/ TaskSti("task_a") \/ TaskSti("task_b") \/ jump_usermode

HandlerStep == onIrq0 \/ irq_exit \/ UserReturn

Next ==
    \/ CodeStep
    \/ HandlerStep
    \/ Tick
    \/ KeyPress
    \/ \E call \in UserCalls : UserTrap(call)

Spec == Init /\ [][Next]_vars

\* With interrupts off the CPU goes on; with interrupts on, they are slow
\* enough for the code they interrupt to go on; the 8254 keeps its rate, and
\* a tick that finds interrupts off stays latched in the 8259 until they are on.
CpuStep(interruptible) == iflag = interruptible /\ (CodeStep \/ HandlerStep)

FairSpec ==
    Spec /\ WF_vars(CpuStep(FALSE)) /\ SF_vars(CpuStep(TRUE)) /\ SF_vars(Tick)

-----------------------------------------------------------------------------
(* Properties.                                                             *)

Labels == {"process_init", "find_slot", "build_stack", "set_ready",
           "set_page_dir", "read_current", "set_current", "kill_prev", "run_p",
           "push_args", "save_esp", "load_esp", "gone",
           "entry", "loop", "ring3"}

\* Every variable keeps its type (process.h's process_t, the EFLAGS bit, the
\* 8259 register and kernel_main's locals).
TypeOK ==
    /\ state \in [Slots -> {"READY", "RUNNING", "DEAD"}]
    /\ esp \in [Slots -> Threads \cup {"Null", "Stale"}]
    /\ page_dir \in [Slots -> BOOLEAN]
    /\ current \in Slots \cup {NULL}
    /\ cpu \in Threads \cup {"Wild"}
    /\ iflag \in BOOLEAN
    /\ inService \subseteq {0, 1}
    /\ mode \in [Threads -> {"code", "irq0", "irq_exit", "syscall", "halt"}]
    /\ unfinished \in [Threads -> Nat]
    /\ pc \in [Threads -> Labels]
    /\ k \in 1 .. Len(Entry) + 1
    /\ proc \in Slots \cup {NULL}
    /\ ta \in Slots \cup {NULL}
    /\ prev \in Slots \cup {NULL}
    /\ new_esp \in Threads \cup {"Null", "Stale"}
    /\ stacks \in Nat

\* Code never runs with interrupts on while the 8259 still has one of them in
\* service: otherwise that line, and every lower one, is silent for ever.  It
\* is onIrq0's own end of interrupt, before schedule() leaves for a process
\* that has never been interrupted, that makes it true (pit.c:27).
InterruptsAcknowledged == iflag => inService = {}

\* No stack holds more than two unfinished handlers: KERNEL_STACK_SIZE is 4096
\* bytes, and nothing else limits how deep interrupts nest (idt.asm:117-143).
NestingBounded == \A t \in Threads : unfinished[t] <= 1

\* The scheduler never continues from a stack pointer that is not a live frame
\* (scheduler.c:18, kernel.c:236), unless kernel_main got no first process.
NoWildJump == cpu = "Wild" => ta = NULL

\* Ring 3 has made the kernel spin with interrupts off.
Halted == cpu \in Threads /\ mode[cpu] = "halt"

\* The frame kernel_main is about to switch to, once ta has left the table.
HandoffFrame ==
    CASE pc["kernel_main"] = "push_args" /\ ta # NULL     -> esp[ta]
      [] pc["kernel_main"] \in {"save_esp", "load_esp"}   -> new_esp
      [] OTHER                                            -> "Null"

Dispatchable(t) ==
    \/ \E s \in Slots : state[s] = "READY" /\ esp[s] = t
    \/ HandoffFrame = t

Alive(t) == cpu = t \/ Dispatchable(t)

\* A thread that runs or can be dispatched keeps doing so: no switch loses a
\* context, whatever slot it was saved in.  Only kernel_main leaves, when it
\* has handed the CPU over.
ContextNeverLost ==
    [][\A t \in Threads :
          Alive(t) => Alive(t)' \/ (t = "kernel_main" /\ pc'[t] = "gone")]_vars

\* No frame is the saved context of two slots the scheduler may pick, and none
\* belongs to the thread that is running (the stack would be shared).
ContextsExclusive ==
    current # NULL =>
        \A s \in Slots : state[s] = "READY" =>
            /\ esp[s] \in Threads \ {cpu}
            /\ \A r \in Slots : state[r] = "READY" /\ esp[r] = esp[s] => r = s


\* current_process is the one slot marked P_RUNNING, but for the two stores
\* with which kernel_main moves the mark to p (kernel.c:232-234).
OneRunning ==
    (current # NULL /\ pc["kernel_main"] \notin {"kill_prev", "run_p"}) =>
        \A s \in Slots : state[s] = "RUNNING" <=> s = current

\* A slot the scheduler may pick, or that runs, has a page directory
\* (process.h:19), but for the one process_create is still at: between its two
\* last stores (process.c:57-58) a tick may dispatch a process without one.
OnlyNewestLacksPageDir ==
    current # NULL =>
        \A s \in Slots : state[s] # "DEAD" /\ ~ page_dir[s] =>
            s = proc /\ pc["kernel_main"] = "set_page_dir"

\* What the handoff loads as the new stack pointer is task_a's "Saved kernel
\* stack pointer" (process.h:18), whenever the timer interrupts it.
HandoffLoadsSavedStack ==
    KernelAt("load_esp") /\ ta # NULL => new_esp \in Threads

\* The boot ends: kernel_main gets through process creation and the handoff
\* although every created process may preempt it (kernel.c:223-236), unless
\* the program in ring 3 exits or faults before it has (handlers.c:23).
HandoffDone == <>(pc["kernel_main"] = "gone" \/ Halted)

\* Round robin starves nobody: a process that can be dispatched runs
\* (pick_next_process), and every created process runs again and again, until
\* the program in ring 3 exits or faults and stops all of them.
NoStarvation == \A t \in Threads : Dispatchable(t) ~> cpu = t \/ Halted

\* The keyboard cannot keep the CPU in handlers: the interrupted code is
\* always returned to.
HandlersReturn ==
    \A t \in Threads : mode[t] \in {"irq0", "irq_exit", "syscall"} ~> mode[t] = "code" \/ Halted

-----------------------------------------------------------------------------
(* The inductive invariant: what interrupts and the boot sequence keep true *)
(* between any two steps, and from which the safety properties follow.      *)

K == pc["kernel_main"]

Creating      == {"find_slot", "build_stack", "set_ready", "set_page_dir"}
BeforeHandoff == Creating \cup {"read_current", "set_current"}
KernelLabels  == BeforeHandoff \cup HandoffWindow
                 \cup {"process_init", "save_esp", "load_esp", "gone"}

\* How the in-service register, the interrupt flag and the handlers go together.
InterruptInv ==
    /\ 0 \in inService <=> (cpu \in Threads /\ mode[cpu] = "irq0")
    /\ 1 \in inService => cpu \in Threads /\ mode[cpu] = "irq_exit"
    /\ iflag => inService = {}
    /\ iflag /\ cpu \in Threads => /\ mode[cpu] \in {"code", "irq_exit"}
                                   /\ mode[cpu] = "irq_exit" => K = "gone" /\ unfinished[cpu] = 0
    /\ \A t \in Threads \ {cpu} : mode[t] \in {"code", "irq_exit"}
    /\ \A t \in Threads : unfinished[t] > 0 => K = "gone" /\ unfinished[t] = 1

\* Slot s is the one thread t runs in or waits in.
Waits(t, s) == state[s] = "READY" /\ esp[s] = t
Owns(t, s)  == IF cpu = t THEN current = s ELSE Waits(t, s)
Unborn(t)   == cpu # t /\ \A s \in Slots : ~ Waits(t, s)

CreateInv ==
    /\ K \in KernelLabels
    /\ K = "process_init" => current = NULL /\ cpu = "kernel_main" /\ ta = NULL /\ k = 1
    /\ K \in BeforeHandoff =>
          /\ current # NULL
          /\ Owns("kernel_main", 0)
          /\ ta # NULL => ta # 0 /\ Owns("task_a", ta)
    /\ K \in Creating =>
          /\ k \in 1 .. Len(Entry)
          /\ k = 1 => ta = NULL
          /\ \A i \in k .. Len(Entry) : Unborn(Entry[i]) \/ (K = "set_page_dir" /\ i = k)
    /\ K \in {"build_stack", "set_ready"} => proc \in Slots /\ state[proc] = "DEAD"
    /\ K = "set_ready" => esp[proc] = Entry[k]
    /\ K = "set_page_dir" => proc \in Slots \ {0} /\ (k = 1 => Owns("task_a", proc))

HandoffInv ==
    /\ K \in {"set_current", "save_esp", "load_esp"} \cup HandoffWindow => prev = 0
    /\ K \in HandoffWindow =>
          /\ cpu = "kernel_main" /\ mode["kernel_main"] # "irq0"
          /\ current = ta
    /\ K = "kill_prev" => \A s \in Slots : state[s] = "RUNNING" <=> s = 0
    /\ K = "run_p" => \A s \in Slots : state[s] # "RUNNING"
    /\ K \in {"kill_prev", "run_p"} /\ ta # NULL => ta # 0 /\ Waits("task_a", ta)
    /\ K \in {"run_p", "push_args", "save_esp"} => state[0] = "DEAD" /\ ta # 0
    /\ K = "push_args" /\ ta # NULL => esp[ta] = "task_a" /\ Unborn("task_a")
    /\ K \in {"save_esp", "load_esp"} /\ ta # NULL =>
          new_esp = "task_a" /\ Owns("kernel_main", ta) /\ Unborn("task_a")
    /\ K \in {"save_esp", "load_esp"} /\ ta = NULL => new_esp = "Stale"
    /\ K \in {"save_esp", "load_esp", "gone"} =>
          IF ta = NULL THEN current = NULL /\ cpu \in {"kernel_main", "Wild"}
                       ELSE current # NULL

SafeSwitching == CreateInv /\ HandoffInv /\ OneRunning /\ ContextsExclusive /\ NoWildJump

Inv == TypeOK /\ InterruptInv /\ SafeSwitching

-----------------------------------------------------------------------------
(* What multitasking promises, without slots, stacks or interrupts.        *)

Abstract == INSTANCE Dispatcher WITH
    running <- IF Halted THEN "stopped" ELSE cpu,
    ready   <- {t \in Threads \ {cpu} : Dispatchable(t)},
    Boot    <- "kernel_main",
    First   <- "task_a",
    Stopper <- "userspace_init"

DispatcherSpec == Abstract!FairSpec

\* The part of it that says what the dispatcher may never do.
DispatcherSafety == Abstract!Spec

=============================================================================
