------------------------- MODULE MultitaskingProofs -------------------------
(***************************************************************************)
(* Theorems about Multitasking for any number of process slots, any heap   *)
(* and any program in ring 3.                                              *)
(***************************************************************************)
EXTENDS Multitasking, TLAPS

-----------------------------------------------------------------------------
(* The three process_create calls.                                         *)

LEMMA EntryFacts ==
    /\ Len(Entry) = 3
    /\ Entry[1] = "task_a" /\ Entry[2] = "task_b" /\ Entry[3] = "userspace_init"
    /\ \A i \in 1 .. Len(Entry) : Entry[i] \in Tasks
    /\ \A i, j \in 1 .. Len(Entry) : Entry[i] = Entry[j] => i = j
BY DEF Entry, Tasks

-----------------------------------------------------------------------------
(* Type correctness.  k stays in range because kernel_main makes as many   *)
(* calls as there are entries.                                             *)

TypeInv == TypeOK /\ (K \in Creating \cup {"process_init"} => k \in 1 .. Len(Entry))

LEMMA TypeInvInit == Init => TypeInv
BY EntryFacts, MaxProcessesAssumption, StackBudgetsAssumption
   DEF Init, TypeInv, TypeOK, K, Creating, Slots, NULL, Threads, Tasks, Labels

LEMMA SwitchToTypes ==
    ASSUME NEW f, NEW e \in [Slots -> Threads \cup {"Null", "Stale"}],
           NEW n \in Threads \cup {"Null", "Stale"}, SwitchTo(f, e, n)
    PROVE  /\ cpu' \in Threads \cup {"Wild"}
           /\ esp' \in [Slots -> Threads \cup {"Null", "Stale"}]
           /\ new_esp' \in Threads \cup {"Null", "Stale"}
BY DEF SwitchTo

LEMMA ScheduleTypes ==
    ASSUME TypeOK, cpu \in Threads, schedule
    PROVE  /\ state' \in [Slots -> {"READY", "RUNNING", "DEAD"}]
           /\ esp' \in [Slots -> Threads \cup {"Null", "Stale"}]
           /\ page_dir' = page_dir
           /\ current' \in Slots \cup {NULL}
           /\ cpu' \in Threads \cup {"Wild"}
           /\ new_esp' \in Threads \cup {"Null", "Stale"}
<1>1. CASE (current = NULL \/ NoneReady) /\ UNCHANGED <<table, cpu, new_esp>>
  BY <1>1 DEF TypeOK, table
<1>2. ASSUME NEW next \in Slots,
             current' = next,
             state' = [state EXCEPT ![next] = "RUNNING", ![current] = "READY"],
             SwitchTo(esp[next], [esp EXCEPT ![current] = cpu], new_esp),
             page_dir' = page_dir
      PROVE  /\ state' \in [Slots -> {"READY", "RUNNING", "DEAD"}]
             /\ esp' \in [Slots -> Threads \cup {"Null", "Stale"}]
             /\ page_dir' = page_dir
             /\ current' \in Slots \cup {NULL}
             /\ cpu' \in Threads \cup {"Wild"}
             /\ new_esp' \in Threads \cup {"Null", "Stale"}
  <2>1. [esp EXCEPT ![current] = cpu] \in [Slots -> Threads \cup {"Null", "Stale"}]
    BY DEF TypeOK
  <2> QED BY <1>2, <2>1, SwitchToTypes DEF TypeOK
<1> QED BY <1>1, <1>2 DEF schedule

\* Moving a thread's program counter.
LEMMA GotoFacts ==
    ASSUME pc \in [Threads -> Labels], NEW t \in Threads, NEW label \in Labels, Goto(t, label)
    PROVE  /\ pc' \in [Threads -> Labels]
           /\ pc'[t] = label
           /\ \A u \in Threads \ {t} : pc'[u] = pc[u]
BY DEF Goto

LEMMA KernelGotoFacts ==
    ASSUME pc \in [Threads -> Labels], NEW label \in Labels, KernelGoto(label)
    PROVE  /\ pc' \in [Threads -> Labels]
           /\ K' = label
           /\ \A u \in Tasks : pc'[u] = pc[u]
<1>1. "kernel_main" \in Threads /\ \A u \in Tasks : u \in Threads \ {"kernel_main"}
  BY DEF Threads, Tasks
<1> QED BY <1>1, GotoFacts DEF KernelGoto, K

LEMMA TypeInvNext == TypeInv /\ [Next]_vars => TypeInv'
<1> SUFFICES ASSUME TypeInv, [Next]_vars PROVE TypeInv'
  OBVIOUS
<1> USE DEF TypeInv
<1>0. pc \in [Threads -> Labels] /\ \A l \in KernelLabels : l \in Labels
  BY DEF TypeOK, KernelLabels, BeforeHandoff, Creating, HandoffWindow, Labels
<1>1. CASE process_init
  <2>1. pc' \in [Threads -> Labels] /\ K' = "find_slot"
    BY <1>0, <1>1, KernelGotoFacts DEF process_init, Labels
  <2>2. k' \in 1 .. Len(Entry) /\ current' \in Slots
    BY <1>1, MaxProcessesAssumption
       DEF process_init, locals, K, KernelAt, Executes, Slots
  <2> QED
    BY <1>1, <2>1, <2>2 DEF process_init, TypeOK, machine, locals
<1>2. CASE FindSlot
  BY <1>2, EntryFacts
     DEF FindSlot, ReturnProcess, KernelAt, KernelGoto, Executes, Goto, TypeOK, table, machine,
         NULL, Labels, Threads, Tasks, K, Creating
<1>3. CASE BuildStack
  BY <1>3, EntryFacts
     DEF BuildStack, ReturnProcess, KernelAt, KernelGoto, Executes, Goto, TypeOK, machine,
         NULL, Labels, Threads, Tasks, K, Creating
<1>4. CASE SetReady
  <2>1. pc' \in [Threads -> Labels] /\ K' = "set_page_dir" /\ K = "set_ready"
    BY <1>0, <1>4, KernelGotoFacts DEF SetReady, Labels, KernelAt, Executes, K
  <2> QED
    BY <1>4, <2>1 DEF SetReady, TypeOK, machine, locals, Creating
<1>5. CASE SetPageDir
  <2>1. /\ pc' \in [Threads -> Labels] /\ K = "set_page_dir"
        /\ K' = IF k < Len(Entry) THEN "find_slot" ELSE "read_current"
    BY <1>0, <1>5, KernelGotoFacts DEF SetPageDir, ReturnProcess, Labels, KernelAt, Executes, K
  <2>2. k \in 1 .. Len(Entry) /\ k' = k + 1
    BY <1>5, <2>1 DEF SetPageDir, ReturnProcess, Creating
  <2>3. k' \in 1 .. Len(Entry) + 1 /\ (K' \in Creating => k' \in 1 .. Len(Entry))
    BY <2>1, <2>2, EntryFacts DEF Creating
  <2> QED
    BY <1>5, <2>1, <2>3 DEF SetPageDir, ReturnProcess, TypeOK, machine
<1>6. CASE ReadCurrent \/ SetCurrent \/ KillPrev \/ RunP \/ PushArgs \/ SaveEsp
  <2>1. /\ pc' \in [Threads -> Labels]
        /\ K' \in {"set_current", "kill_prev", "run_p", "push_args", "save_esp", "load_esp"}
    BY <1>0, <1>6, KernelGotoFacts
       DEF ReadCurrent, SetCurrent, KillPrev, RunP, PushArgs, SaveEsp, Labels
  <2>2. state' \in [Slots -> {"READY", "RUNNING", "DEAD"}]
    BY <1>6 DEF ReadCurrent, SetCurrent, KillPrev, RunP, PushArgs, SaveEsp, TypeOK, table
  <2>3. esp' \in [Slots -> Threads \cup {"Null", "Stale"}]
    BY <1>6 DEF ReadCurrent, SetCurrent, KillPrev, RunP, PushArgs, SaveEsp, TypeOK, table, Threads
  <2>4. new_esp' \in Threads \cup {"Null", "Stale"}
    BY <1>6 DEF ReadCurrent, SetCurrent, KillPrev, RunP, PushArgs, SaveEsp, TypeOK, locals, NULL
  <2> QED
    BY <1>6, <2>1, <2>2, <2>3, <2>4
       DEF ReadCurrent, SetCurrent, KillPrev, RunP, PushArgs, SaveEsp, TypeOK, table, machine,
           locals, Creating
<1>7. CASE LoadEsp
  <2>1. /\ cpu' \in Threads \cup {"Wild"}
        /\ esp' \in [Slots -> Threads \cup {"Null", "Stale"}]
        /\ new_esp' \in Threads \cup {"Null", "Stale"}
    BY <1>7, SwitchToTypes DEF LoadEsp, TypeOK
  <2>2. pc' \in [Threads -> Labels] /\ K' = "gone"
    BY <1>0, <1>7, KernelGotoFacts DEF LoadEsp, Labels
  <2> QED
    BY <1>7, <2>1, <2>2 DEF LoadEsp, TypeOK, Creating
<1>8. CASE TaskSti("task_a") \/ TaskSti("task_b") \/ jump_usermode
  <2>1. pc' \in [Threads -> Labels] /\ K' = K
    BY <1>8 DEF TaskSti, jump_usermode, Goto, TypeOK, Labels, Threads, Tasks, K
  <2> QED
    BY <1>8, <2>1 DEF TaskSti, jump_usermode, TypeOK, table, locals
<1>8a. CASE UserReturn
  BY <1>8a DEF UserReturn, TypeOK, table, locals, K
<1>9. CASE onIrq0
  <2>1. cpu \in Threads /\ schedule
    BY <1>9 DEF onIrq0
  <2>2. inService' \subseteq {0, 1}
    BY <1>9 DEF onIrq0, Eoi, TypeOK
  <2>3. mode' \in [Threads -> {"code", "irq0", "irq_exit", "syscall", "halt"}]
    BY <1>9 DEF onIrq0, TypeOK
  <2> QED
    BY <1>9, <2>1, <2>2, <2>3, ScheduleTypes DEF onIrq0, TypeOK, K
<1>10. CASE irq_exit
  <2>1. inService' \subseteq {0, 1}
    BY <1>10 DEF irq_exit, Eoi, TypeOK
  <2>2. mode' \in [Threads -> {"code", "irq0", "irq_exit", "syscall", "halt"}]
    BY <1>10 DEF irq_exit, TypeOK
  <2>3. unfinished' \in [Threads -> Nat]
    <3>1. cpu \in Threads /\ unfinished \in [Threads -> Nat]
      BY <1>10 DEF irq_exit, TypeOK
    <3>2. CASE unfinished[cpu] = 0
      BY <1>10, <3>1, <3>2 DEF irq_exit
    <3>3. CASE unfinished[cpu] # 0
      <4>1. unfinished[cpu] - 1 \in Nat
        BY <3>1, <3>3
      <4>2. unfinished' = [unfinished EXCEPT ![cpu] = unfinished[cpu] - 1]
        BY <1>10, <3>3 DEF irq_exit
      <4> QED BY <3>1, <4>1, <4>2
    <3> QED BY <3>2, <3>3
  <2> QED
    BY <1>10, <2>1, <2>2, <2>3 DEF irq_exit, TypeOK, table, locals, K
<1>11. ASSUME NEW irq \in {0, 1}, NEW handler \in {"irq0", "irq_exit"}, Interrupt(irq, handler)
       PROVE  TypeInv'
  <2>1. mode' \in [Threads -> {"code", "irq0", "irq_exit", "syscall", "halt"}]
    BY <1>11 DEF Interrupt, TypeOK
  <2>2. unfinished' \in [Threads -> Nat]
    BY <1>11 DEF Interrupt, TypeOK
  <2> QED
    BY <1>11, <2>1, <2>2 DEF Interrupt, TypeOK, table, locals, K
<1>12. ASSUME NEW call \in UserCalls, UserTrap(call) PROVE TypeInv'
  BY <1>12 DEF UserTrap, Executes, TypeOK, table, locals, K
<1>13. CASE UNCHANGED vars
  BY <1>13 DEF vars, table, machine, locals, TypeOK, K
<1> QED
  BY <1>1, <1>2, <1>3, <1>4, <1>5, <1>6, <1>7, <1>8, <1>8a, <1>9, <1>10, <1>11, <1>12, <1>13
     DEF Next, CodeStep, HandlerStep, process_create, Handoff, Tick, KeyPress

\* Every variable keeps its type.
THEOREM TypeCorrect == Spec => []TypeOK
<1>1. Spec => []TypeInv
  BY TypeInvInit, TypeInvNext, PTL DEF Spec
<1> QED
  BY <1>1, PTL DEF TypeInv

-----------------------------------------------------------------------------
(* Page directories.  A tick may land anywhere, also in the handoff: what  *)
(* can be dispatched without a page directory is only the process that     *)
(* kernel_main is still creating, and what ta names is complete.           *)

PageDirInv ==
    /\ K \in BeforeHandoff => current # NULL
    /\ ta # NULL => page_dir[ta]
    /\ current # NULL => \A s \in Slots : ~ page_dir[s] =>
          \/ state[s] = "DEAD" /\ s # current
          \/ s = proc /\ K = "set_page_dir"

LEMMA PageDirInit == Init => PageDirInv
BY DEF Init, PageDirInv, K, Threads, Tasks, BeforeHandoff, Creating

LEMMA PageDirNext == TypeOK /\ PageDirInv /\ [Next]_vars => PageDirInv'
<1> SUFFICES ASSUME TypeOK, PageDirInv, [Next]_vars PROVE PageDirInv'
  OBVIOUS
<1> USE DEF PageDirInv
<1>0. /\ pc \in [Threads -> Labels] /\ "kernel_main" \in Threads
      /\ \A l \in BeforeHandoff : l \in Labels
  BY DEF TypeOK, Threads, BeforeHandoff, Creating, Labels
<1>1. CASE process_init
  <2>1. K' = "find_slot"
    BY <1>0, <1>1, KernelGotoFacts DEF process_init, Labels
  <2>2. /\ current' = 0 /\ 0 # NULL
        /\ \A s \in Slots : state'[s] = IF s = 0 THEN "RUNNING" ELSE "DEAD"
        /\ \A s \in Slots : page_dir'[s] = IF s = 0 THEN TRUE ELSE page_dir[s]
    BY <1>1 DEF process_init, TypeOK, NULL
  <2>3. ta' # NULL => page_dir'[ta']
    BY <1>1, <2>2 DEF process_init, locals, TypeOK
  <2> QED BY <2>1, <2>2, <2>3
<1>2. CASE FindSlot
  <2>1. K = "find_slot" /\ K' # "set_page_dir"
    BY <1>0, <1>2, KernelGotoFacts DEF FindSlot, ReturnProcess, KernelAt, Executes, K, Labels
  <2>2. current # NULL /\ UNCHANGED <<state, page_dir, current>>
    BY <1>2, <2>1 DEF FindSlot, table, BeforeHandoff, Creating
  <2>3. ta' = NULL \/ ta' = ta
    BY <1>2 DEF FindSlot, ReturnProcess
  <2> QED BY <2>1, <2>2, <2>3
<1>3. CASE BuildStack
  <2>1. K = "build_stack" /\ K' # "set_page_dir"
    BY <1>0, <1>3, KernelGotoFacts DEF BuildStack, ReturnProcess, KernelAt, Executes, K, Labels
  <2>2. current # NULL /\ UNCHANGED <<state, page_dir, current>>
    BY <1>3, <2>1 DEF BuildStack, BeforeHandoff, Creating
  <2>3. ta' = NULL \/ ta' = ta
    BY <1>3 DEF BuildStack, ReturnProcess
  <2> QED BY <2>1, <2>2, <2>3
<1>4. CASE SetReady
  <2>1. K = "set_ready" /\ K' = "set_page_dir"
    BY <1>0, <1>4, KernelGotoFacts DEF SetReady, KernelAt, Executes, K, Labels
  <2>2. current # NULL /\ UNCHANGED <<page_dir, current, proc, ta>>
    BY <1>4, <2>1 DEF SetReady, locals, BeforeHandoff, Creating
  <2>3. \A s \in Slots : s # proc => state'[s] = state[s]
    BY <1>4 DEF SetReady, TypeOK
  <2> QED BY <2>1, <2>2, <2>3
<1>5. CASE SetPageDir
  <2>1. K = "set_page_dir" /\ K' # "set_page_dir"
    BY <1>0, <1>5, KernelGotoFacts DEF SetPageDir, ReturnProcess, KernelAt, Executes, K, Labels
  <2>2. current # NULL /\ UNCHANGED <<state, current, proc>>
    BY <1>5, <2>1 DEF SetPageDir, BeforeHandoff, Creating
  <2>3. \A s \in Slots : page_dir'[s] = IF s = proc THEN TRUE ELSE page_dir[s]
    BY <1>5 DEF SetPageDir, TypeOK
  <2>4. ta' = proc \/ ta' = ta
    BY <1>5 DEF SetPageDir, ReturnProcess
  <2>5. ta' # NULL => page_dir'[ta']
    BY <2>3, <2>4 DEF TypeOK
  <2> QED BY <2>1, <2>2, <2>3, <2>5
<1>6. CASE ReadCurrent \/ SetCurrent
  <2>1. K \in BeforeHandoff /\ K # "set_page_dir" /\ K' \in {"set_current", "kill_prev"}
    BY <1>0, <1>6, KernelGotoFacts
       DEF ReadCurrent, SetCurrent, KernelAt, Executes, K, Labels, BeforeHandoff
  <2>2. UNCHANGED <<state, page_dir, ta>>
    BY <1>6 DEF ReadCurrent, SetCurrent, table, locals
  <2>3. \/ current' = current
        \/ current' = ta /\ K' = "kill_prev"
    BY <1>0, <1>6, KernelGotoFacts DEF ReadCurrent, SetCurrent, table, Labels
  <2>4. "kill_prev" \notin BeforeHandoff
    BY DEF BeforeHandoff, Creating
  <2> QED BY <2>1, <2>2, <2>3, <2>4
<1>7. CASE KillPrev \/ RunP \/ PushArgs \/ SaveEsp \/ LoadEsp
  <2>1. K # "set_page_dir" /\ K' \notin BeforeHandoff /\ K' # "set_page_dir"
    BY <1>0, <1>7, KernelGotoFacts
       DEF KillPrev, RunP, PushArgs, SaveEsp, LoadEsp, KernelAt, Executes, K, Labels,
           BeforeHandoff, Creating
  <2>2. UNCHANGED <<page_dir, current, ta>>
    BY <1>7 DEF KillPrev, RunP, PushArgs, SaveEsp, LoadEsp, table, locals
  <2>3. \A s \in Slots : state'[s] \in {state[s], "DEAD"} \/ s = ta
    BY <1>7 DEF KillPrev, RunP, PushArgs, SaveEsp, LoadEsp, table, TypeOK
  <2>4. NULL \notin Slots
    BY MaxProcessesAssumption DEF NULL, Slots
  <2> QED BY <2>1, <2>2, <2>3, <2>4
<1>8. CASE onIrq0
  <2>1. UNCHANGED <<pc, proc, ta, page_dir>>
    BY <1>8 DEF onIrq0, schedule, table
  <2>2. CASE UNCHANGED <<state, current>>
    BY <2>1, <2>2 DEF K
  <2>3. CASE ~ UNCHANGED <<state, current>>
    <3>1. PICK next \in Slots :
             /\ pick_next_process(next)
             /\ current' = next
             /\ state' = [state EXCEPT ![next] = "RUNNING", ![current] = "READY"]
      BY <1>8, <2>3 DEF onIrq0, schedule, table
    <3>2. current # NULL /\ current \in Slots /\ next # NULL /\ state[next] = "READY"
      BY <1>8, <2>3, <3>1 DEF onIrq0, schedule, table, TypeOK, pick_next_process, Slots, NULL
    <3>3. \A s \in Slots \ {next, current} : state'[s] = state[s]
      BY <3>1, <3>2 DEF TypeOK
    <3> QED BY <2>1, <3>1, <3>2, <3>3 DEF K
  <2> QED BY <2>2, <2>3
<1>9. CASE TaskSti("task_a") \/ TaskSti("task_b") \/ jump_usermode
  <2>1. K' = K
    BY <1>0, <1>9, GotoFacts DEF TaskSti, jump_usermode, Labels, Threads, Tasks, K
  <2> QED BY <1>9, <2>1 DEF TaskSti, jump_usermode, table, locals
<1>10. CASE irq_exit \/ UserReturn \/ Tick \/ KeyPress \/ \E call \in UserCalls : UserTrap(call)
  <2>1. UNCHANGED <<table, pc, locals>>
    BY <1>10 DEF irq_exit, UserReturn, Tick, KeyPress, Interrupt, UserTrap
  <2> QED BY <2>1 DEF table, locals, K
<1>11. CASE UNCHANGED vars
  BY <1>11 DEF vars, table, locals, K
<1> QED
  BY <1>1, <1>2, <1>3, <1>4, <1>5, <1>6, <1>7, <1>8, <1>9, <1>10, <1>11
     DEF Next, CodeStep, HandlerStep, process_create, Handoff

\* Wherever ticks fall, every slot the scheduler may pick, or that runs, has a
\* page directory, except the one process_create is about to give it to.
THEOREM OnlyNewest == Spec => []OnlyNewestLacksPageDir
<1>1. PageDirInv => OnlyNewestLacksPageDir
  BY DEF PageDirInv, OnlyNewestLacksPageDir, K
<1> QED
  BY <1>1, TypeCorrect, PageDirInit, PageDirNext, PTL DEF Spec

-----------------------------------------------------------------------------
(* Interrupts: the in-service register, the flag and the handlers.         *)

LEMMA InterruptInvInit == Init => InterruptInv
BY DEF Init, InterruptInv, Threads, Tasks

\* What a switch of stacks does to the CPU.
LEMMA SwitchToCpu ==
    ASSUME NEW f, NEW e, NEW n, SwitchTo(f, e, n)
    PROVE  cpu' \in Threads => cpu' = f /\ f \in Threads
BY DEF SwitchTo, Threads, Tasks

\* A step of kernel_main's own code that stays on its stack.
LEMMA KernelStepInterruptInv ==
    ASSUME TypeOK, InterruptInv, NEW label \in KernelLabels \ {"gone"}, KernelAt(label),
           UNCHANGED machine
    PROVE  InterruptInv'
<1>1. cpu = "kernel_main" /\ cpu \in Threads /\ mode[cpu] = "code" /\ K # "gone"
  BY DEF KernelAt, Executes, K, Threads, KernelLabels, BeforeHandoff, Creating, HandoffWindow
<1>2. \A t \in Threads : ~ (unfinished[t] > 0)
  BY <1>1 DEF InterruptInv
<1> QED
  BY <1>1, <1>2 DEF InterruptInv, machine

LEMMA InterruptInvNext == TypeOK /\ InterruptInv /\ [Next]_vars => InterruptInv'
<1> SUFFICES ASSUME TypeOK, InterruptInv, [Next]_vars PROVE InterruptInv'
  OBVIOUS
<1>1. CASE process_init \/ process_create \/ ReadCurrent \/ SetCurrent \/ KillPrev \/ RunP
           \/ PushArgs \/ SaveEsp
  <2>1. UNCHANGED machine
    BY <1>1 DEF process_init, process_create, FindSlot, BuildStack, SetReady, SetPageDir,
                ReadCurrent, SetCurrent, KillPrev, RunP, PushArgs, SaveEsp
  <2>2. \E label \in KernelLabels \ {"gone"} : KernelAt(label)
    BY <1>1 DEF process_init, process_create, FindSlot, BuildStack, SetReady, SetPageDir,
                ReadCurrent, SetCurrent, KillPrev, RunP, PushArgs, SaveEsp,
                KernelLabels, BeforeHandoff, Creating, HandoffWindow
  <2> QED BY <2>1, <2>2, KernelStepInterruptInv
<1>2. CASE LoadEsp
  <2>1. cpu = "kernel_main" /\ cpu \in Threads /\ mode[cpu] = "code" /\ K = "load_esp"
    BY <1>2 DEF LoadEsp, KernelAt, Executes, K, Threads
  <2>2. inService = {}
    BY <2>1 DEF InterruptInv, TypeOK
  <2>3. \A t \in Threads : unfinished[t] = 0 /\ mode[t] \in {"code", "irq_exit"}
    BY <2>1 DEF InterruptInv, TypeOK
  <2>4. K' = "gone"
    BY <1>2, KernelGotoFacts DEF LoadEsp, TypeOK, Labels
  <2> QED
    BY <1>2, <2>2, <2>3, <2>4 DEF LoadEsp, InterruptInv
<1>3. CASE TaskSti("task_a") \/ TaskSti("task_b") \/ jump_usermode
  <2>1. K' = K /\ cpu \in Threads /\ mode[cpu] = "code"
    BY <1>3 DEF TaskSti, jump_usermode, Executes, Goto, TypeOK, K, Threads, Tasks
  <2>2. inService = {}
    BY <2>1 DEF InterruptInv, TypeOK
  <2> QED
    BY <1>3, <2>1, <2>2 DEF TaskSti, jump_usermode, InterruptInv
<1>4. CASE UserReturn
  <2>1. cpu \in Threads /\ mode[cpu] = "syscall"
    BY <1>4 DEF UserReturn, Threads, Tasks
  <2>2. inService = {}
    BY <2>1 DEF InterruptInv, TypeOK
  <2> QED
    BY <1>4, <2>1, <2>2 DEF UserReturn, InterruptInv, TypeOK, K
<1>5. CASE onIrq0
  <2>1. cpu \in Threads /\ mode[cpu] = "irq0" /\ mode' = [mode EXCEPT ![cpu] = "irq_exit"]
    BY <1>5 DEF onIrq0
  <2>2. inService = {0} /\ iflag = FALSE
    BY <2>1 DEF InterruptInv, TypeOK
  <2>3. inService' = {} /\ iflag' = FALSE /\ UNCHANGED <<unfinished, pc>>
    BY <1>5, <2>2 DEF onIrq0, Eoi
  <2>4. \A t \in Threads : mode'[t] \in {"code", "irq_exit"}
    BY <2>1 DEF InterruptInv, TypeOK
  <2> QED
    BY <2>3, <2>4 DEF InterruptInv, K
<1>6. CASE irq_exit
  <2>1. cpu \in Threads /\ mode[cpu] = "irq_exit"
    BY <1>6 DEF irq_exit
  <2>2. inService' = {}
    BY <1>6, <2>1 DEF irq_exit, Eoi, InterruptInv, TypeOK
  <2>3. CASE unfinished[cpu] = 0
    BY <1>6, <2>1, <2>2, <2>3 DEF irq_exit, InterruptInv, TypeOK, K
  <2>4. CASE unfinished[cpu] # 0
    <3>1. unfinished[cpu] > 0
      BY <2>1, <2>4 DEF TypeOK
    <3>2. K = "gone" /\ unfinished[cpu] = 1
      BY <2>1, <3>1 DEF InterruptInv
    <3>3. /\ unfinished' = [unfinished EXCEPT ![cpu] = 0]
          /\ UNCHANGED <<mode, cpu, pc>>
      BY <1>6, <3>2 DEF irq_exit
    <3>4. \A t \in Threads : unfinished'[t] = IF t = cpu THEN 0 ELSE unfinished[t]
      BY <3>3 DEF TypeOK
    <3> QED
      BY <1>6, <2>1, <2>2, <3>2, <3>3, <3>4 DEF irq_exit, InterruptInv, K
  <2> QED BY <2>3, <2>4
<1>7. ASSUME NEW irq \in {0, 1},
             NEW handler \in {"irq0", "irq_exit"}, handler = "irq0" <=> irq = 0,
             Interrupt(irq, handler)
      PROVE  InterruptInv'
  <2>1. cpu \in Threads /\ iflag = TRUE /\ inService = {} /\ mode[cpu] \in {"code", "irq_exit"}
    BY <1>7 DEF Interrupt, InterruptInv, TypeOK
  <2>2. /\ inService' = {irq} /\ iflag' = FALSE /\ UNCHANGED <<cpu, pc>>
        /\ mode' = [mode EXCEPT ![cpu] = handler]
    BY <1>7, <2>1 DEF Interrupt
  <2>3. \A t \in Threads : mode'[t] = IF t = cpu THEN handler ELSE mode[t]
    BY <2>2 DEF TypeOK
  <2>4. \A t \in Threads : unfinished'[t] > 0 => K = "gone" /\ unfinished'[t] = 1
    <3>1. CASE mode[cpu] = "code"
      BY <1>7, <3>1 DEF Interrupt, InterruptInv
    <3>2. CASE mode[cpu] = "irq_exit"
      <4>1. K = "gone" /\ unfinished[cpu] = 0
        BY <2>1, <3>2 DEF InterruptInv
      <4>2. unfinished' = [unfinished EXCEPT ![cpu] = 1]
        BY <1>7, <3>2, <4>1 DEF Interrupt
      <4>3. \A t \in Threads : unfinished'[t] = IF t = cpu THEN 1 ELSE unfinished[t]
        BY <4>2 DEF TypeOK
      <4> QED BY <4>1, <4>3 DEF InterruptInv
    <3> QED BY <2>1, <3>1, <3>2
  <2> QED
    BY <1>7, <2>1, <2>2, <2>3, <2>4 DEF InterruptInv, K
<1>8. ASSUME NEW call \in UserCalls, UserTrap(call) PROVE InterruptInv'
  <2>1. cpu = "userspace_init" /\ cpu \in Threads /\ mode[cpu] = "code"
    BY <1>8 DEF UserTrap, Executes, Threads, Tasks
  <2>2. inService = {}
    BY <2>1 DEF InterruptInv, TypeOK
  <2>3. \A t \in Threads : t # cpu => mode'[t] = mode[t]
    BY <1>8, <2>1 DEF UserTrap, TypeOK
  <2>4. mode'[cpu] \in {"syscall", "halt"}
    BY <1>8, <2>1 DEF UserTrap, TypeOK
  <2> QED
    BY <1>8, <2>1, <2>2, <2>3, <2>4 DEF UserTrap, InterruptInv, K
<1>9. CASE UNCHANGED vars
  BY <1>9 DEF vars, machine, InterruptInv, K
<1> QED
  BY <1>1, <1>2, <1>3, <1>4, <1>5, <1>6, <1>7, <1>8, <1>9
     DEF Next, CodeStep, HandlerStep, Handoff, Tick, KeyPress

\* Code never runs with interrupts on while the 8259 waits for an end of
\* interrupt, however ticks and keys fall.
THEOREM Acknowledged == Spec => []InterruptsAcknowledged
<1>1. Spec => [](TypeOK /\ InterruptInv)
  BY TypeCorrect, InterruptInvInit, InterruptInvNext, PTL DEF Spec
<1>2. TypeOK /\ InterruptInv => InterruptsAcknowledged
  BY DEF InterruptInv, InterruptsAcknowledged
<1> QED BY <1>1, <1>2, PTL

\* At most two handlers are unfinished on any stack.
THEOREM Nesting == Spec => []NestingBounded
<1>1. Spec => [](TypeOK /\ InterruptInv)
  BY TypeCorrect, InterruptInvInit, InterruptInvNext, PTL DEF Spec
<1>2. TypeOK /\ InterruptInv => NestingBounded
  <2> SUFFICES ASSUME TypeOK, InterruptInv, NEW t \in Threads PROVE unfinished[t] <= 1
    BY DEF NestingBounded
  <2>1. unfinished[t] \in Nat
    BY DEF TypeOK
  <2> QED BY <2>1 DEF InterruptInv
<1> QED BY <1>1, <1>2, PTL

-----------------------------------------------------------------------------
(* Safe switching, if no tick lands in the handoff window.                 *)

LEMMA SlotFacts == 0 \in Slots /\ NULL \notin Slots
BY MaxProcessesAssumption DEF Slots, NULL

LEMMA ThreadFacts ==
    /\ Tasks \subseteq Threads /\ "kernel_main" \in Threads \ Tasks /\ "task_a" \in Tasks
    /\ "Wild" \notin Threads /\ "Stale" \notin Threads /\ "Null" \notin Threads
BY DEF Threads, Tasks

LEMMA SafeInit == Init => SafeSwitching
<1> SUFFICES ASSUME Init PROVE SafeSwitching
  OBVIOUS
<1>1. K = "process_init" /\ current = NULL /\ cpu = "kernel_main" /\ ta = NULL /\ k = 1
  BY DEF Init, K, Threads
<1>2. CreateInv
  BY <1>1 DEF CreateInv, Creating, BeforeHandoff, KernelLabels
<1>3. HandoffInv
  BY <1>1 DEF HandoffInv, HandoffWindow
<1>4. OneRunning /\ ContextsExclusive /\ NoWildJump
  BY <1>1 DEF OneRunning, ContextsExclusive, NoWildJump
<1> QED BY <1>2, <1>3, <1>4 DEF SafeSwitching

\* What changes neither the table, the CPU's stack nor kernel_main.
LEMMA SafeUnchanged ==
    ASSUME SafeSwitching, UNCHANGED <<table, cpu, locals>>, K' = K,
           K \in HandoffWindow => mode'["kernel_main"] # "irq0"
    PROVE  SafeSwitching'
<1>1. UNCHANGED <<state, esp, page_dir, current, cpu, k, proc, ta, prev, new_esp>>
  BY DEF table, locals
<1>2. \A t, s : (Owns(t, s)' <=> Owns(t, s)) /\ (Waits(t, s)' <=> Waits(t, s))
  BY <1>1 DEF Owns, Waits
<1>3. \A t : Unborn(t)' <=> Unborn(t)
  BY <1>1 DEF Unborn, Waits
<1>4. CreateInv'
  BY <1>1, <1>2, <1>3 DEF SafeSwitching, CreateInv
<1>5. HandoffInv'
  BY <1>1, <1>2, <1>3 DEF SafeSwitching, HandoffInv
<1>6. OneRunning' /\ ContextsExclusive' /\ NoWildJump'
  BY <1>1 DEF SafeSwitching, OneRunning, ContextsExclusive, NoWildJump, K
<1> QED BY <1>4, <1>5, <1>6 DEF SafeSwitching

\* schedule() leaves the running thread's context in its slot and continues
\* the one the picked slot holds: everything a slot stands for is kept.
LEMMA SwitchKeepsContexts ==
    ASSUME TypeOK, ContextsExclusive, current \in Slots, cpu \in Threads,
           \A s \in Slots : state[s] = "RUNNING" <=> s = current,
           NEW next \in Slots, pick_next_process(next),
           current' = next,
           state' = [state EXCEPT ![next] = "RUNNING", ![current] = "READY"],
           SwitchTo(esp[next], [esp EXCEPT ![current] = cpu], new_esp)
    PROVE  /\ cpu' = esp[next] /\ cpu' \in Threads \ {cpu}
           /\ \A s \in Slots : state'[s] = "RUNNING" <=> s = current'
           /\ \A s \in Slots : state[s] = "DEAD" =>
                 state'[s] = "DEAD" /\ (esp[s] # cpu' => esp'[s] = esp[s])
           /\ new_esp # cpu' => new_esp' = new_esp
           /\ ContextsExclusive'
           /\ \A t \in Threads, s \in Slots : Owns(t, s) => Owns(t, s)'
           /\ \A t \in Threads : Unborn(t) => Unborn(t)'
<1>1. state[next] = "READY" /\ next # current /\ current # NULL
  BY SlotFacts DEF pick_next_process
<1>2. esp[next] \in Threads \ {cpu}
  BY <1>1 DEF ContextsExclusive
<1>3. /\ cpu' = esp[next]
      /\ esp' = [s \in Slots |-> IF [esp EXCEPT ![current] = cpu][s] = esp[next]
                                 THEN "Stale" ELSE [esp EXCEPT ![current] = cpu][s]]
      /\ new_esp' = IF new_esp = esp[next] THEN "Stale" ELSE new_esp
  BY <1>2 DEF SwitchTo
<1>4. \A s \in Slots : esp'[s] = IF s = current THEN cpu
                                 ELSE IF esp[s] = esp[next] THEN "Stale" ELSE esp[s]
  BY <1>2, <1>3 DEF TypeOK
<1>5. \A s \in Slots : state'[s] = IF s = current THEN "READY"
                                   ELSE IF s = next THEN "RUNNING" ELSE state[s]
  BY <1>1 DEF TypeOK
<1>6. \A s \in Slots : state[s] = "READY" /\ s # next => esp[s] # esp[next]
  BY <1>1 DEF ContextsExclusive
<1>7. ContextsExclusive'
  <2>1. ASSUME NEW s \in Slots, state'[s] = "READY"
        PROVE  /\ esp'[s] \in Threads \ {cpu'}
               /\ s = current => esp'[s] = cpu
               /\ s # current => state[s] = "READY" /\ s # next /\ esp'[s] = esp[s]
                                 /\ esp[s] # cpu
    BY <1>1, <1>2, <1>3, <1>4, <1>5, <1>6, <2>1 DEF ContextsExclusive
  <2>2. ASSUME NEW s \in Slots, NEW r \in Slots, state'[s] = "READY", state'[r] = "READY",
               esp'[r] = esp'[s]
        PROVE  r = s
    BY <1>1, <2>1, <2>2 DEF ContextsExclusive
  <2> QED BY <2>1, <2>2 DEF ContextsExclusive
<1>8. ASSUME NEW t \in Threads, NEW s \in Slots, Owns(t, s) PROVE Owns(t, s)'
  <2>1. CASE cpu = t
    BY <1>1, <1>2, <1>3, <1>4, <1>5, <1>8, <2>1 DEF Owns, Waits
  <2>2. CASE cpu # t
    <3>1. state[s] = "READY" /\ esp[s] = t
      BY <1>8, <2>2 DEF Owns, Waits
    <3>2. CASE s = next
      BY <1>3, <3>1, <3>2 DEF Owns
    <3>3. CASE s # next
      BY <1>1, <1>3, <1>4, <1>5, <1>6, <3>1, <3>3 DEF Owns, Waits
    <3> QED BY <3>2, <3>3
  <2> QED BY <2>1, <2>2
<1>9. ASSUME NEW t \in Threads, Unborn(t) PROVE Unborn(t)'
  BY <1>1, <1>3, <1>4, <1>5, <1>9, ThreadFacts DEF Unborn, Waits
<1>10. \A s \in Slots : state'[s] = "RUNNING" <=> s = current'
  BY <1>1, <1>5
<1>11. \A s \in Slots : state[s] = "DEAD" =>
          state'[s] = "DEAD" /\ (esp[s] # cpu' => esp'[s] = esp[s])
  BY <1>1, <1>3, <1>4, <1>5
<1> QED
  BY <1>2, <1>3, <1>7, <1>8, <1>9, <1>10, <1>11

\* Where kernel_main is when it executes, and which slot it then has.
LEMMA KernelExecutes ==
    ASSUME TypeOK, SafeSwitching, NEW label, KernelAt(label)
    PROVE  /\ K = label /\ cpu = "kernel_main" /\ mode["kernel_main"] = "code"
           /\ K \in BeforeHandoff => current = 0 /\ (ta # NULL => ta # 0 /\ Waits("task_a", ta))
BY ThreadFacts DEF KernelAt, Executes, K, SafeSwitching, CreateInv, Owns

LEMMA SafeProcessInit == TypeOK /\ SafeSwitching /\ process_init => SafeSwitching'
<1> SUFFICES ASSUME TypeOK, SafeSwitching, process_init PROVE SafeSwitching'
  OBVIOUS
<1>1. K = "process_init" /\ cpu = "kernel_main" /\ ta = NULL /\ k = 1
  BY KernelExecutes DEF process_init, SafeSwitching, CreateInv
<1>2. K' = "find_slot"
  BY KernelGotoFacts DEF process_init, TypeOK, Labels
<1>3. cpu' = cpu /\ ta' = NULL /\ k' = 1 /\ current' = 0 /\ current' # NULL
  BY <1>1 DEF process_init, machine, locals, NULL
<1>4. \A s \in Slots : state'[s] = IF s = 0 THEN "RUNNING" ELSE "DEAD"
  BY DEF process_init
<1>5. \A t \in Tasks : Unborn(t)'
  BY <1>1, <1>3, <1>4, ThreadFacts DEF Unborn, Waits
<1>6. CreateInv'
  BY <1>1, <1>2, <1>3, <1>5, EntryFacts
     DEF CreateInv, Owns, KernelLabels, BeforeHandoff, Creating
<1>7. HandoffInv'
  BY <1>2, <1>3 DEF HandoffInv, HandoffWindow
<1>8. OneRunning' /\ ContextsExclusive' /\ NoWildJump'
  BY <1>2, <1>3, <1>4 DEF OneRunning, ContextsExclusive, NoWildJump
<1> QED BY <1>6, <1>7, <1>8 DEF SafeSwitching

\* process_create returning r to kernel_main, with no call left or one more.
LEMMA SafeReturnProcess ==
    ASSUME TypeOK, SafeSwitching, K \in Creating, cpu = "kernel_main",
           NEW r \in Slots \cup {NULL}, ReturnProcess(r),
           UNCHANGED <<state, esp, current, cpu>>,
           k = 1 /\ r # NULL => r # 0 /\ Waits("task_a", r),
           \A i \in k + 1 .. Len(Entry) : Unborn(Entry[i])
    PROVE  SafeSwitching'
<1>1. k \in 1 .. Len(Entry) /\ k' = k + 1 /\ prev' = prev /\ new_esp' = new_esp
  BY DEF SafeSwitching, CreateInv, ReturnProcess
<1>2. K' = IF k < Len(Entry) THEN "find_slot" ELSE "read_current"
  BY KernelGotoFacts DEF ReturnProcess, TypeOK, Labels
<1>3. /\ current = 0 /\ current # NULL
      /\ ta # NULL => ta # 0 /\ Waits("task_a", ta)
      /\ k = 1 => ta = NULL
  BY ThreadFacts DEF SafeSwitching, CreateInv, BeforeHandoff, Owns
<1>4. ta' = IF k = 1 THEN r ELSE ta
  BY DEF ReturnProcess
<1>5. \A t, s : (Owns(t, s)' <=> Owns(t, s)) /\ (Waits(t, s)' <=> Waits(t, s))
  BY DEF Owns, Waits
<1>6. \A t : Unborn(t)' <=> Unborn(t)
  BY DEF Unborn, Waits
<1>7. ta' # NULL => ta' # 0 /\ Owns("task_a", ta)'
  <2>1. ta' # NULL => ta' # 0 /\ Waits("task_a", ta')
    BY <1>3, <1>4
  <2>2. cpu' # "task_a"
    BY ThreadFacts
  <2> QED BY <2>1, <2>2 DEF Owns, Waits
<1>8. Owns("kernel_main", 0)'
  BY <1>3, <1>5 DEF Owns
<1>9. CreateInv'
  BY <1>1, <1>2, <1>3, <1>6, <1>7, <1>8, EntryFacts
     DEF CreateInv, KernelLabels, BeforeHandoff, Creating
<1>10. HandoffInv'
  BY <1>2, <1>3 DEF HandoffInv, HandoffWindow
<1>11. OneRunning' /\ ContextsExclusive' /\ NoWildJump'
  BY <1>2, <1>3, ThreadFacts
     DEF SafeSwitching, OneRunning, ContextsExclusive, NoWildJump, Creating, K
<1> QED BY <1>9, <1>10, <1>11 DEF SafeSwitching

LEMMA SafeFindSlot == TypeOK /\ SafeSwitching /\ FindSlot => SafeSwitching'
<1> SUFFICES ASSUME TypeOK, SafeSwitching, FindSlot PROVE SafeSwitching'
  OBVIOUS
<1>1. K = "find_slot" /\ cpu = "kernel_main" /\ K \in Creating
  BY KernelExecutes DEF FindSlot, Creating
<1>2. UNCHANGED <<state, esp, current, cpu>>
  BY DEF FindSlot, table, machine
<1>3. \A i \in k .. Len(Entry) : Unborn(Entry[i])
  BY <1>1 DEF SafeSwitching, CreateInv
<1>4. k \in 1 .. Len(Entry)
  BY <1>1 DEF SafeSwitching, CreateInv
<1>5. CASE ReturnProcess(NULL)
  <2>1. \A i \in k + 1 .. Len(Entry) : Unborn(Entry[i])
    BY <1>3, <1>4, EntryFacts
  <2> QED BY <1>1, <1>2, <1>5, <2>1, SafeReturnProcess
<1>6. ASSUME NEW s \in Slots, FirstDead(s), proc' = s,
             KernelGoto("build_stack"), UNCHANGED <<k, ta, prev, new_esp>>
      PROVE  SafeSwitching'
  <2>1. K' = "build_stack"
    BY <1>6, KernelGotoFacts DEF TypeOK, Labels
  <2>2. state[s] = "DEAD"
    BY <1>6 DEF FirstDead
  <2>3. \A t, r : (Owns(t, r)' <=> Owns(t, r))
    BY <1>2 DEF Owns, Waits
  <2>4. \A t : Unborn(t)' <=> Unborn(t)
    BY <1>2 DEF Unborn, Waits
  <2>5. CreateInv'
    BY <1>1, <1>2, <1>3, <1>6, <2>1, <2>2, <2>3, <2>4
       DEF SafeSwitching, CreateInv, KernelLabels, BeforeHandoff, Creating
  <2>6. HandoffInv'
    BY <1>1, <1>2, <1>6, <2>1 DEF SafeSwitching, CreateInv, BeforeHandoff, HandoffInv, HandoffWindow
  <2>7. OneRunning' /\ ContextsExclusive' /\ NoWildJump'
    BY <1>1, <1>2, <1>6, <2>1
       DEF SafeSwitching, OneRunning, ContextsExclusive, NoWildJump, Creating, K
  <2> QED BY <2>5, <2>6, <2>7 DEF SafeSwitching
<1> QED BY <1>5, <1>6 DEF FindSlot

LEMMA SafeBuildStack == TypeOK /\ SafeSwitching /\ BuildStack => SafeSwitching'
<1> SUFFICES ASSUME TypeOK, SafeSwitching, BuildStack PROVE SafeSwitching'
  OBVIOUS
<1>1. K = "build_stack" /\ cpu = "kernel_main" /\ K \in Creating
  BY KernelExecutes DEF BuildStack, Creating
<1>2. UNCHANGED <<state, current, cpu, proc>>
  BY DEF BuildStack, machine
<1>3. \A i \in k .. Len(Entry) : Unborn(Entry[i])
  BY <1>1 DEF SafeSwitching, CreateInv
<1>4. k \in 1 .. Len(Entry) /\ proc \in Slots /\ state[proc] = "DEAD"
  BY <1>1 DEF SafeSwitching, CreateInv
<1>5. CASE ReturnProcess(NULL) /\ UNCHANGED esp
  <2>1. \A i \in k + 1 .. Len(Entry) : Unborn(Entry[i])
    BY <1>3, <1>4, EntryFacts
  <2> QED BY <1>1, <1>2, <1>5, <2>1, SafeReturnProcess
<1>6. CASE /\ esp' = [esp EXCEPT ![proc] = Entry[k]]
           /\ KernelGoto("set_ready") /\ UNCHANGED <<k, ta, prev, new_esp>>
  <2>1. K' = "set_ready"
    BY <1>6, KernelGotoFacts DEF TypeOK, Labels
  <2>2. esp'[proc] = Entry[k] /\ \A s \in Slots \ {proc} : esp'[s] = esp[s]
    BY <1>4, <1>6 DEF TypeOK
  <2>3. \A t : \A s \in Slots : Waits(t, s)' <=> Waits(t, s)
    BY <1>2, <1>4, <2>2 DEF Waits
  <2>4. \A t : \A s \in Slots : Owns(t, s)' <=> Owns(t, s)
    BY <1>2, <2>3 DEF Owns
  <2>5. \A t : Unborn(t)' <=> Unborn(t)
    BY <1>2, <1>4, <2>2 DEF Unborn, Waits
  <2>6. CreateInv'
    BY <1>1, <1>2, <1>3, <1>4, <1>6, <2>1, <2>2, <2>4, <2>5, SlotFacts
       DEF SafeSwitching, CreateInv, KernelLabels, BeforeHandoff, Creating, TypeOK
  <2>7. HandoffInv'
    BY <1>1, <1>2, <1>6, <2>1 DEF SafeSwitching, CreateInv, BeforeHandoff, HandoffInv, HandoffWindow
  <2>8. OneRunning' /\ ContextsExclusive' /\ NoWildJump'
    BY <1>1, <1>2, <1>4, <1>6, <2>1, <2>2
       DEF SafeSwitching, OneRunning, ContextsExclusive, NoWildJump, Creating, K
  <2> QED BY <2>6, <2>7, <2>8 DEF SafeSwitching
<1> QED BY <1>5, <1>6 DEF BuildStack

LEMMA SafeSetReady == TypeOK /\ SafeSwitching /\ SetReady => SafeSwitching'
<1> SUFFICES ASSUME TypeOK, SafeSwitching, SetReady PROVE SafeSwitching'
  OBVIOUS
<1>1. /\ K = "set_ready" /\ cpu = "kernel_main" /\ K \in Creating /\ current = 0
      /\ ta # NULL => ta # 0 /\ Waits("task_a", ta)
  BY KernelExecutes DEF SetReady, Creating, BeforeHandoff
<1>2. UNCHANGED <<esp, current, cpu, k, proc, ta, prev, new_esp>>
  BY DEF SetReady, machine, locals
<1>3. /\ k \in 1 .. Len(Entry) /\ proc \in Slots /\ state[proc] = "DEAD" /\ esp[proc] = Entry[k]
      /\ \A i \in k .. Len(Entry) : Unborn(Entry[i])
      /\ k = 1 => ta = NULL
  BY <1>1 DEF SafeSwitching, CreateInv
<1>4. state[0] = "RUNNING" /\ \A s \in Slots : state[s] = "RUNNING" <=> s = current
  BY <1>1, SlotFacts DEF SafeSwitching, OneRunning, Creating, K, NULL
<1>5. proc # 0
  BY <1>3, <1>4
<1>6. K' = "set_page_dir"
  BY KernelGotoFacts DEF SetReady, TypeOK, Labels
<1>7. \A s \in Slots : state'[s] = IF s = proc THEN "READY" ELSE state[s]
  BY <1>3 DEF SetReady, TypeOK
<1>8. \A t : \A s \in Slots \ {proc} : Waits(t, s)' <=> Waits(t, s)
  BY <1>2, <1>7 DEF Waits
<1>9. Waits(Entry[k], proc)'
  BY <1>2, <1>3, <1>7 DEF Waits
<1>10. \A i \in k + 1 .. Len(Entry) : Unborn(Entry[i])'
  BY <1>2, <1>3, <1>7, EntryFacts DEF Unborn, Waits
<1>11. Owns("kernel_main", 0)' /\ (ta # NULL => ta # 0 /\ Owns("task_a", ta)')
  <2>1. ta # NULL => ta \in Slots \ {proc}
    BY <1>1, <1>3 DEF TypeOK, Waits
  <2> QED BY <1>1, <1>2, <1>8, <2>1, ThreadFacts DEF Owns
<1>12. k = 1 => Owns("task_a", proc)'
  BY <1>1, <1>2, <1>9, EntryFacts, ThreadFacts DEF Owns
<1>13. CreateInv'
  <2>1. \A i \in k .. Len(Entry) : Unborn(Entry[i])' \/ i = k
    BY <1>3, <1>10, EntryFacts
  <2> QED
    BY <1>1, <1>2, <1>3, <1>5, <1>6, <2>1, <1>11, <1>12, SlotFacts
       DEF CreateInv, KernelLabels, BeforeHandoff, Creating
<1>14. HandoffInv'
  BY <1>1, <1>2, <1>6, SlotFacts DEF HandoffInv, HandoffWindow
<1>15. ContextsExclusive'
  <2>1. \A s \in Slots : state[s] = "READY" => esp[s] # Entry[k]
    BY <1>3, EntryFacts DEF Unborn, Waits
  <2>2. Entry[k] \in Threads \ {cpu}
    BY <1>1, <1>3, EntryFacts, ThreadFacts
  <2> QED BY <1>1, <1>2, <1>3, <1>7, <2>1, <2>2, SlotFacts DEF SafeSwitching, ContextsExclusive
<1>16. OneRunning' /\ NoWildJump'
  BY <1>1, <1>2, <1>3, <1>4, <1>7 DEF SafeSwitching, OneRunning, NoWildJump
<1> QED BY <1>13, <1>14, <1>15, <1>16 DEF SafeSwitching

LEMMA SafeSetPageDir == TypeOK /\ SafeSwitching /\ SetPageDir => SafeSwitching'
<1> SUFFICES ASSUME TypeOK, SafeSwitching, SetPageDir PROVE SafeSwitching'
  OBVIOUS
<1>1. K = "set_page_dir" /\ cpu = "kernel_main" /\ K \in Creating
  BY KernelExecutes DEF SetPageDir, Creating
<1>2. UNCHANGED <<state, esp, current, cpu>> /\ ReturnProcess(proc)
  BY DEF SetPageDir, machine
<1>3. /\ k \in 1 .. Len(Entry)
      /\ proc \in Slots \ {0} /\ (k = 1 => Owns("task_a", proc))
      /\ \A i \in k .. Len(Entry) : Unborn(Entry[i]) \/ i = k
  BY <1>1 DEF SafeSwitching, CreateInv
<1>4. \A i \in k + 1 .. Len(Entry) : Unborn(Entry[i])
  BY <1>3, EntryFacts
<1>5. k = 1 => proc # 0 /\ Waits("task_a", proc)
  BY <1>1, <1>3, ThreadFacts DEF Owns
<1> QED BY <1>1, <1>2, <1>3, <1>4, <1>5, SafeReturnProcess

\* The first half of the handoff, up to the arguments of context_switch.
LEMMA SafeHandoffStores ==
    TypeOK /\ SafeSwitching /\ (ReadCurrent \/ SetCurrent \/ KillPrev \/ RunP) => SafeSwitching'
<1> SUFFICES ASSUME TypeOK, SafeSwitching, ReadCurrent \/ SetCurrent \/ KillPrev \/ RunP
             PROVE  SafeSwitching'
  OBVIOUS
<1>1. CASE ReadCurrent
  <2>1. K = "read_current" /\ current = 0 /\ cpu = "kernel_main"
    BY <1>1, KernelExecutes DEF ReadCurrent, BeforeHandoff
  <2>2. K' = "set_current"
    BY <1>1, KernelGotoFacts DEF ReadCurrent, TypeOK, Labels
  <2>3. UNCHANGED <<state, esp, current, cpu, k, proc, ta, new_esp>> /\ prev' = 0
    BY <1>1, <2>1 DEF ReadCurrent, table, machine
  <2>4. \A t, s : (Owns(t, s)' <=> Owns(t, s))
    BY <2>3 DEF Owns, Waits
  <2>5. CreateInv'
    BY <2>1, <2>2, <2>3, <2>4
       DEF SafeSwitching, CreateInv, KernelLabels, BeforeHandoff, Creating
  <2>6. HandoffInv'
    BY <2>1, <2>2, <2>3, SlotFacts DEF HandoffInv, HandoffWindow
  <2>7. OneRunning' /\ ContextsExclusive' /\ NoWildJump'
    BY <2>1, <2>2, <2>3 DEF SafeSwitching, OneRunning, ContextsExclusive, NoWildJump, K
  <2> QED BY <2>5, <2>6, <2>7 DEF SafeSwitching
<1>2. CASE SetCurrent
  <2>1. /\ K = "set_current" /\ current = 0 /\ cpu = "kernel_main"
        /\ mode["kernel_main"] = "code" /\ prev = 0
        /\ ta # NULL => ta # 0 /\ Waits("task_a", ta)
    BY <1>2, KernelExecutes DEF SetCurrent, BeforeHandoff, SafeSwitching, HandoffInv
  <2>2. K' = "kill_prev"
    BY <1>2, KernelGotoFacts DEF SetCurrent, TypeOK, Labels
  <2>3. UNCHANGED <<state, esp, cpu, mode, k, proc, ta, prev, new_esp>> /\ current' = ta
    BY <1>2 DEF SetCurrent, machine, locals
  <2>4. \A s \in Slots : state[s] = "RUNNING" <=> s = 0
    BY <2>1, SlotFacts DEF SafeSwitching, OneRunning, K
  <2>5. CreateInv'
    BY <2>2 DEF CreateInv, KernelLabels, BeforeHandoff, Creating, HandoffWindow
  <2>6. HandoffInv'
    BY <2>1, <2>2, <2>3, <2>4 DEF HandoffInv, HandoffWindow, Waits
  <2>7. OneRunning' /\ ContextsExclusive' /\ NoWildJump'
    BY <2>1, <2>2, <2>3, SlotFacts
       DEF SafeSwitching, OneRunning, ContextsExclusive, NoWildJump, K
  <2> QED BY <2>5, <2>6, <2>7 DEF SafeSwitching
<1>3. CASE KillPrev
  <2>1. /\ K = "kill_prev" /\ cpu = "kernel_main" /\ mode["kernel_main"] = "code"
        /\ current = ta /\ prev = 0
        /\ ta # NULL => ta # 0 /\ Waits("task_a", ta)
        /\ \A s \in Slots : state[s] = "RUNNING" <=> s = 0
    BY <1>3, KernelExecutes DEF KillPrev, SafeSwitching, HandoffInv, HandoffWindow
  <2>2. K' = "run_p"
    BY <1>3, KernelGotoFacts DEF KillPrev, TypeOK, Labels
  <2>3. UNCHANGED <<esp, current, cpu, mode, k, proc, ta, prev, new_esp>>
    BY <1>3 DEF KillPrev, machine, locals
  <2>4. \A s \in Slots : state'[s] = IF s = 0 THEN "DEAD" ELSE state[s]
    BY <1>3, <2>1 DEF KillPrev, TypeOK
  <2>5. CreateInv'
    BY <2>2 DEF CreateInv, KernelLabels, BeforeHandoff, Creating, HandoffWindow
  <2>6. ta # NULL => ta \in Slots \ {0}
    BY <2>1 DEF TypeOK
  <2>7. HandoffInv'
    <3>1. ta # NULL => Waits("task_a", ta)'
      BY <2>1, <2>3, <2>4, <2>6 DEF Waits
    <3> QED BY <2>1, <2>2, <2>3, <2>4, <3>1, SlotFacts DEF HandoffInv, HandoffWindow
  <2>8. OneRunning' /\ ContextsExclusive' /\ NoWildJump'
    BY <2>1, <2>2, <2>3, <2>4
       DEF SafeSwitching, OneRunning, ContextsExclusive, NoWildJump, K
  <2> QED BY <2>5, <2>7, <2>8 DEF SafeSwitching
<1>4. CASE RunP
  <2>1. /\ K = "run_p" /\ cpu = "kernel_main" /\ mode["kernel_main"] = "code"
        /\ current = ta /\ prev = 0 /\ state[0] = "DEAD" /\ ta # 0
        /\ ta # NULL => Waits("task_a", ta)
        /\ \A s \in Slots : state[s] # "RUNNING"
    BY <1>4, KernelExecutes DEF RunP, SafeSwitching, HandoffInv, HandoffWindow
  <2>2. K' = "push_args"
    BY <1>4, KernelGotoFacts DEF RunP, TypeOK, Labels
  <2>3. UNCHANGED <<esp, current, cpu, mode, k, proc, ta, prev, new_esp>>
    BY <1>4 DEF RunP, machine, locals
  <2>4. \A s \in Slots : state'[s] = IF s = ta THEN "RUNNING" ELSE state[s]
    BY <1>4 DEF RunP
  <2>5. CreateInv'
    BY <2>2 DEF CreateInv, KernelLabels, BeforeHandoff, Creating, HandoffWindow
  <2>6. ta # NULL => esp'[ta] = "task_a" /\ Unborn("task_a")'
    <3> SUFFICES ASSUME ta # NULL PROVE esp'[ta] = "task_a" /\ Unborn("task_a")'
      OBVIOUS
    <3>1. ta \in Slots /\ state[ta] = "READY" /\ esp[ta] = "task_a"
      BY <2>1 DEF Waits, TypeOK
    <3>2. \A s \in Slots : state[s] = "READY" /\ esp[s] = "task_a" => s = ta
      BY <2>1, <3>1 DEF SafeSwitching, ContextsExclusive
    <3> QED BY <2>1, <2>3, <2>4, <3>1, <3>2, ThreadFacts DEF Unborn, Waits
  <2>7. HandoffInv'
    BY <2>1, <2>2, <2>3, <2>4, <2>6, SlotFacts DEF HandoffInv, HandoffWindow
  <2>8. OneRunning' /\ ContextsExclusive' /\ NoWildJump'
    BY <2>1, <2>2, <2>3, <2>4
       DEF SafeSwitching, OneRunning, ContextsExclusive, NoWildJump, K
  <2> QED BY <2>5, <2>7, <2>8 DEF SafeSwitching
<1> QED BY <1>1, <1>2, <1>3, <1>4

\* The second half: arguments, the store of the old stack pointer, the switch.
LEMMA SafePushArgs == TypeOK /\ SafeSwitching /\ PushArgs => SafeSwitching'
<1> SUFFICES ASSUME TypeOK, SafeSwitching, PushArgs PROVE SafeSwitching'
  OBVIOUS
<1>1. /\ K = "push_args" /\ cpu = "kernel_main" /\ current = ta /\ prev = 0
      /\ state[0] = "DEAD" /\ ta # 0
      /\ ta # NULL => esp[ta] = "task_a" /\ Unborn("task_a")
  BY KernelExecutes DEF PushArgs, SafeSwitching, HandoffInv, HandoffWindow
<1>2. K' = "save_esp"
  BY KernelGotoFacts DEF PushArgs, TypeOK, Labels
<1>3. /\ UNCHANGED <<state, esp, current, cpu, ta, prev>>
      /\ new_esp' = IF ta = NULL THEN "Stale" ELSE esp[ta]
  BY DEF PushArgs, table, machine
<1>4. CreateInv'
  BY <1>2 DEF CreateInv, KernelLabels, BeforeHandoff, Creating, HandoffWindow
<1>5. Unborn("task_a")' <=> Unborn("task_a")
  BY <1>3 DEF Unborn, Waits
<1>6. HandoffInv'
  BY <1>1, <1>2, <1>3, <1>5 DEF HandoffInv, HandoffWindow, Owns
<1>7. OneRunning' /\ ContextsExclusive' /\ NoWildJump'
  BY <1>1, <1>2, <1>3 DEF SafeSwitching, OneRunning, ContextsExclusive, NoWildJump, K
<1> QED BY <1>4, <1>6, <1>7 DEF SafeSwitching

LEMMA SafeSaveEsp == TypeOK /\ SafeSwitching /\ SaveEsp => SafeSwitching'
<1> SUFFICES ASSUME TypeOK, SafeSwitching, SaveEsp PROVE SafeSwitching'
  OBVIOUS
<1>1. /\ K = "save_esp" /\ cpu = "kernel_main" /\ prev = 0 /\ state[0] = "DEAD"
      /\ ta = NULL => new_esp = "Stale" /\ current = NULL
      /\ ta # NULL => new_esp = "task_a" /\ current = ta /\ current # NULL /\ Unborn("task_a")
  BY KernelExecutes DEF SaveEsp, SafeSwitching, HandoffInv, HandoffWindow, Owns
<1>2. K' = "load_esp"
  BY KernelGotoFacts DEF SaveEsp, TypeOK, Labels
<1>3. UNCHANGED <<state, current, cpu, ta, prev, new_esp>>
  BY DEF SaveEsp, machine, locals
<1>4. \A s \in Slots : state[s] # "DEAD" => esp'[s] = esp[s]
  BY <1>1, SlotFacts DEF SaveEsp, TypeOK
<1>5. CreateInv'
  BY <1>2 DEF CreateInv, KernelLabels, BeforeHandoff, Creating, HandoffWindow
<1>6. Unborn("task_a")' <=> Unborn("task_a")
  BY <1>3, <1>4 DEF Unborn, Waits
<1>7. HandoffInv'
  BY <1>1, <1>2, <1>3, <1>6 DEF HandoffInv, HandoffWindow, Owns
<1>8. OneRunning' /\ ContextsExclusive' /\ NoWildJump'
  BY <1>1, <1>2, <1>3, <1>4 DEF SafeSwitching, OneRunning, ContextsExclusive, NoWildJump, K
<1> QED BY <1>5, <1>7, <1>8 DEF SafeSwitching

LEMMA SafeLoadEsp == TypeOK /\ SafeSwitching /\ LoadEsp => SafeSwitching'
<1> SUFFICES ASSUME TypeOK, SafeSwitching, LoadEsp PROVE SafeSwitching'
  OBVIOUS
<1>1. /\ K = "load_esp" /\ cpu = "kernel_main"
      /\ ta = NULL => new_esp = "Stale" /\ current = NULL
      /\ ta # NULL => new_esp = "task_a" /\ current = ta /\ current # NULL /\ Unborn("task_a")
  BY KernelExecutes DEF LoadEsp, SafeSwitching, HandoffInv, Owns
<1>2. K' = "gone" /\ UNCHANGED <<state, current, ta, prev>> /\ SwitchTo(new_esp, esp, new_esp)
  BY KernelGotoFacts DEF LoadEsp, TypeOK, Labels
<1>3. CASE ta = NULL
  <2>1. cpu' = "Wild" /\ current' = NULL
    BY <1>1, <1>2, <1>3, ThreadFacts DEF SwitchTo
  <2>2. CreateInv'
    BY <1>2 DEF CreateInv, KernelLabels, BeforeHandoff, Creating, HandoffWindow
  <2>3. HandoffInv'
    BY <1>2, <1>3, <2>1 DEF HandoffInv, HandoffWindow
  <2>4. OneRunning' /\ ContextsExclusive' /\ NoWildJump'
    BY <1>2, <1>3, <2>1 DEF OneRunning, ContextsExclusive, NoWildJump
  <2> QED BY <2>2, <2>3, <2>4 DEF SafeSwitching
<1>4. CASE ta # NULL
  <2>1. /\ cpu' = "task_a" /\ current' = ta /\ current = ta
        /\ \A s \in Slots : esp[s] # "task_a" => esp'[s] = esp[s]
    BY <1>1, <1>2, <1>4, ThreadFacts DEF SwitchTo
  <2>2. CreateInv'
    BY <1>2 DEF CreateInv, KernelLabels, BeforeHandoff, Creating, HandoffWindow
  <2>3. HandoffInv'
    BY <1>1, <1>2, <1>4, <2>1 DEF HandoffInv, HandoffWindow
  <2>4. \A s \in Slots : state[s] = "READY" => esp'[s] = esp[s] /\ esp[s] # "task_a"
    BY <1>1, <1>4, <2>1 DEF Unborn, Waits
  <2>5. ContextsExclusive'
    BY <1>1, <1>2, <1>4, <2>1, <2>4 DEF SafeSwitching, ContextsExclusive
  <2>6. OneRunning' /\ NoWildJump'
    BY <1>1, <1>2, <1>4, <2>1, ThreadFacts DEF SafeSwitching, OneRunning, NoWildJump, K
  <2> QED BY <2>2, <2>3, <2>5, <2>6 DEF SafeSwitching
<1> QED BY <1>3, <1>4

\* The timer's handler, wherever kernel_main is: it cannot be in the window.
LEMMA SafeOnIrq0 == TypeOK /\ SafeSwitching /\ onIrq0 => SafeSwitching'
<1> SUFFICES ASSUME TypeOK, SafeSwitching, onIrq0 PROVE SafeSwitching'
  OBVIOUS
<1>1. cpu \in Threads /\ mode[cpu] = "irq0" /\ K' = K /\ UNCHANGED <<k, proc, ta, prev>>
  BY DEF onIrq0, K
<1>2. K \notin HandoffWindow
  BY <1>1 DEF SafeSwitching, HandoffInv
<1>3. CASE UNCHANGED <<table, cpu, new_esp>>
  BY <1>1, <1>2, <1>3, SafeUnchanged DEF locals
<1>4. ASSUME NEW next \in Slots, pick_next_process(next), current # NULL, current' = next,
             state' = [state EXCEPT ![next] = "RUNNING", ![current] = "READY"],
             SwitchTo(esp[next], [esp EXCEPT ![current] = cpu], new_esp)
      PROVE  SafeSwitching'
  <2>1. current \in Slots /\ current' \in Slots /\ current' # NULL
    BY <1>4, SlotFacts DEF TypeOK
  <2>2. K # "process_init" /\ (K \in {"save_esp", "load_esp", "gone"} => ta # NULL)
    BY <1>4 DEF SafeSwitching, CreateInv, HandoffInv
  <2>3. \A s \in Slots : state[s] = "RUNNING" <=> s = current
    BY <1>2, <1>4 DEF SafeSwitching, OneRunning, HandoffWindow, K
  <2>4. ContextsExclusive
    BY DEF SafeSwitching
  <2>5. /\ cpu' = esp[next] /\ cpu' \in Threads \ {cpu}
        /\ \A s \in Slots : state'[s] = "RUNNING" <=> s = current'
        /\ \A s \in Slots : state[s] = "DEAD" =>
              state'[s] = "DEAD" /\ (esp[s] # cpu' => esp'[s] = esp[s])
        /\ new_esp # cpu' => new_esp' = new_esp
        /\ ContextsExclusive'
        /\ \A t \in Threads, s \in Slots : Owns(t, s) => Owns(t, s)'
        /\ \A t \in Threads : Unborn(t) => Unborn(t)'
    BY <1>1, <1>4, <2>1, <2>3, <2>4, SwitchKeepsContexts
  <2>6. \A t \in Threads : Unborn(t) => cpu' # t
    BY <1>4, <2>5 DEF Unborn, Waits, pick_next_process
  <2>6a. \A s \in Slots : /\ Owns("kernel_main", s) => Owns("kernel_main", s)'
                          /\ Owns("task_a", s) => Owns("task_a", s)'
    <3>1. \A t \in Threads, s \in Slots : Owns(t, s) => Owns(t, s)'
      BY <2>5
    <3> QED BY <3>1, ThreadFacts DEF Owns, Waits
  <2>7. CreateInv'
    <3>1. K \in BeforeHandoff =>
             Owns("kernel_main", 0)' /\ (ta # NULL => ta # 0 /\ Owns("task_a", ta)')
      <4>1. K \in BeforeHandoff =>
               Owns("kernel_main", 0) /\ (ta # NULL => ta # 0 /\ Owns("task_a", ta))
        BY DEF SafeSwitching, CreateInv
      <4>2. ta # NULL => ta \in Slots
        BY DEF TypeOK
      <4> QED BY <1>1, <2>6a, <4>1, <4>2, SlotFacts DEF Owns, Waits
    <3>2. K \in Creating =>
             \A i \in k .. Len(Entry) : Unborn(Entry[i])' \/ (K = "set_page_dir" /\ i = k)
      <4> SUFFICES ASSUME K \in Creating, NEW i \in k .. Len(Entry),
                          ~ (K = "set_page_dir" /\ i = k)
                   PROVE  Unborn(Entry[i])'
        OBVIOUS
      <4>1. Entry[i] \in Threads
        BY EntryFacts, ThreadFacts DEF SafeSwitching, CreateInv
      <4>2. Unborn(Entry[i])
        BY DEF SafeSwitching, CreateInv
      <4> QED BY <2>5, <4>1, <4>2
    <3>3. K \in {"build_stack", "set_ready"} => proc \in Slots /\ state'[proc] = "DEAD"
      BY <2>5 DEF SafeSwitching, CreateInv
    <3>4. K = "set_ready" => esp'[proc] = Entry[k]
      <4> SUFFICES ASSUME K = "set_ready" PROVE esp'[proc] = Entry[k]
        OBVIOUS
      <4>1. /\ proc \in Slots /\ state[proc] = "DEAD" /\ esp[proc] = Entry[k]
            /\ k \in 1 .. Len(Entry) /\ \A i \in k .. Len(Entry) : Unborn(Entry[i])
        BY DEF SafeSwitching, CreateInv, Creating
      <4>2. Entry[k] \in Threads /\ Unborn(Entry[k])
        BY <4>1, EntryFacts, ThreadFacts
      <4> QED BY <2>5, <2>6, <4>1, <4>2
    <3>5. K = "set_page_dir" => proc \in Slots \ {0} /\ (k = 1 => Owns("task_a", proc)')
      <4>1. K = "set_page_dir" => proc \in Slots \ {0} /\ (k = 1 => Owns("task_a", proc))
        BY DEF SafeSwitching, CreateInv
      <4> QED BY <1>1, <2>6a, <4>1 DEF Owns, Waits
    <3>6. K \in KernelLabels /\ (K \in Creating => k \in 1 .. Len(Entry) /\ (k = 1 => ta = NULL))
      BY DEF SafeSwitching, CreateInv
    <3> QED BY <1>1, <2>1, <2>2, <3>1, <3>2, <3>3, <3>4, <3>5, <3>6 DEF CreateInv
  <2>8. HandoffInv'
    <3>1. K \in {"set_current", "save_esp", "load_esp"} => prev = 0
      BY DEF SafeSwitching, HandoffInv
    <3>2. K = "save_esp" => state'[0] = "DEAD" /\ ta # 0
      BY <2>5, SlotFacts DEF SafeSwitching, HandoffInv
    <3>3. K \in {"save_esp", "load_esp"} =>
             new_esp' = "task_a" /\ Owns("kernel_main", ta)' /\ Unborn("task_a")'
      <4> SUFFICES ASSUME K \in {"save_esp", "load_esp"}
                   PROVE  new_esp' = "task_a" /\ Owns("kernel_main", ta)' /\ Unborn("task_a")'
        OBVIOUS
      <4>1. new_esp = "task_a" /\ Owns("kernel_main", ta) /\ Unborn("task_a") /\ ta \in Slots
        BY <2>2 DEF SafeSwitching, HandoffInv, TypeOK
      <4>2. "task_a" # cpu'
        BY <2>6, <4>1, ThreadFacts
      <4>3. Owns("kernel_main", ta)'
        BY <1>1, <2>6a, <4>1 DEF Owns, Waits
      <4>4. Unborn("task_a")'
        BY <2>5, <4>1, ThreadFacts DEF Unborn, Waits
      <4> QED BY <2>5, <4>1, <4>2, <4>3, <4>4
    <3> QED
      BY <1>1, <1>2, <2>1, <2>2, <3>1, <3>2, <3>3 DEF HandoffInv, HandoffWindow
  <2>9. OneRunning' /\ NoWildJump'
    BY <2>5, ThreadFacts DEF OneRunning, NoWildJump
  <2> QED BY <2>5, <2>7, <2>8, <2>9 DEF SafeSwitching
<1> QED BY <1>3, <1>4 DEF onIrq0, schedule

LEMMA SafeNext ==
    ASSUME HandoffQuiet = TRUE
    PROVE  TypeOK /\ SafeSwitching /\ [Next]_vars => SafeSwitching'
<1> SUFFICES ASSUME TypeOK, SafeSwitching, [Next]_vars PROVE SafeSwitching'
  OBVIOUS
<1>1. CASE TaskSti("task_a") \/ TaskSti("task_b") \/ jump_usermode
  <2>1. UNCHANGED <<table, cpu, locals, mode>> /\ K' = K
    BY <1>1 DEF TaskSti, jump_usermode, Goto, TypeOK, Labels, Threads, Tasks, K
  <2>2. K \in HandoffWindow => mode["kernel_main"] # "irq0"
    BY DEF SafeSwitching, HandoffInv
  <2> QED BY <2>1, <2>2, SafeUnchanged
<1>2. CASE UserReturn \/ (\E call \in UserCalls : UserTrap(call)) \/ irq_exit
  <2>1. UNCHANGED <<table, cpu, locals>> /\ K' = K
    BY <1>2 DEF UserReturn, UserTrap, irq_exit, K
  <2>2. mode'["kernel_main"] # "irq0" \/ mode'["kernel_main"] = mode["kernel_main"]
    BY <1>2, ThreadFacts DEF UserReturn, UserTrap, irq_exit, Executes, TypeOK, Tasks
  <2>3. K \in HandoffWindow => mode["kernel_main"] # "irq0"
    BY DEF SafeSwitching, HandoffInv
  <2> QED BY <2>1, <2>2, <2>3, SafeUnchanged
<1>3. CASE Tick \/ KeyPress
  <2>1. UNCHANGED <<table, cpu, locals>> /\ K' = K
    BY <1>3 DEF Tick, KeyPress, Interrupt, K
  <2>2. K \in HandoffWindow => mode'["kernel_main"] # "irq0"
    <3> SUFFICES ASSUME K \in HandoffWindow PROVE mode'["kernel_main"] # "irq0"
      OBVIOUS
    <3>1. cpu = "kernel_main"
      BY DEF SafeSwitching, HandoffInv
    <3>2. KeyPress
      BY <1>3, <3>1, HandoffQuietAssumption DEF Tick, K
    <3> QED BY <3>1, <3>2, ThreadFacts DEF KeyPress, Interrupt, TypeOK
  <2> QED BY <2>1, <2>2, SafeUnchanged
<1>4. CASE UNCHANGED vars
  BY <1>4, SafeUnchanged DEF vars, machine, K, SafeSwitching, HandoffInv
<1> QED
  BY <1>1, <1>2, <1>3, <1>4, SafeProcessInit, SafeFindSlot, SafeBuildStack, SafeSetReady,
     SafeSetPageDir, SafeHandoffStores, SafePushArgs, SafeSaveEsp, SafeLoadEsp, SafeOnIrq0
     DEF Next, CodeStep, HandlerStep, process_create, Handoff

\* The inductive invariant holds if no tick lands in the handoff window.
THEOREM Safe ==
    ASSUME HandoffQuiet = TRUE
    PROVE  Spec => []Inv
<1>1. Init => TypeOK /\ InterruptInv /\ SafeSwitching
  BY TypeInvInit, InterruptInvInit, SafeInit DEF TypeInv
<1>2. TypeInv /\ InterruptInv /\ SafeSwitching /\ [Next]_vars
         => (TypeInv /\ InterruptInv /\ SafeSwitching)'
  BY TypeInvNext, InterruptInvNext, SafeNext DEF TypeInv
<1>3. TypeInv /\ InterruptInv /\ SafeSwitching => Inv
  BY DEF TypeInv, Inv
<1> QED BY <1>1, <1>2, <1>3, TypeInvInit, PTL DEF Spec

\* No stack is ever shared or resumed twice.
THEOREM Exclusive ==
    ASSUME HandoffQuiet = TRUE
    PROVE  Spec => []ContextsExclusive
BY Safe, PTL DEF Inv, SafeSwitching

\* current_process always is the slot marked running.
THEOREM OneIsRunning ==
    ASSUME HandoffQuiet = TRUE
    PROVE  Spec => []OneRunning
BY Safe, PTL DEF Inv, SafeSwitching

\* The CPU always continues from a live frame, if task_a could be created.
THEOREM NeverWild ==
    ASSUME HandoffQuiet = TRUE
    PROVE  Spec => []NoWildJump
BY Safe, PTL DEF Inv, SafeSwitching

-----------------------------------------------------------------------------
(* No switch loses a context.  Before process_init no slot holds a frame;  *)
(* after it, a thread waits in a slot that stays ready until it is picked, *)
(* or, between p->state and the switch, in kernel_main's hands.            *)

NoFrameYet == K = "process_init" => \A s \in Slots : esp[s] = "Null"

LEMMA NoFrameYetInit == Init => NoFrameYet
BY DEF Init, NoFrameYet

LEMMA NoFrameYetNext == TypeOK /\ SafeSwitching /\ NoFrameYet /\ [Next]_vars => NoFrameYet'
<1> SUFFICES ASSUME TypeOK, SafeSwitching, NoFrameYet, [Next]_vars PROVE NoFrameYet'
  OBVIOUS
<1> USE DEF NoFrameYet
<1>1. CASE process_init \/ process_create \/ Handoff
  <2>1. PICK label \in Labels \ {"process_init"} : KernelGoto(label)
    BY <1>1 DEF process_init, process_create, FindSlot, BuildStack, SetReady, SetPageDir,
                ReturnProcess, Handoff, ReadCurrent, SetCurrent, KillPrev, RunP, PushArgs,
                SaveEsp, LoadEsp, Labels
  <2> QED BY <2>1, KernelGotoFacts DEF TypeOK
<1>2. CASE TaskSti("task_a") \/ TaskSti("task_b") \/ jump_usermode
  BY <1>2 DEF TaskSti, jump_usermode, Goto, TypeOK, Threads, Tasks, K, table
<1>3. CASE onIrq0
  <2>1. K' = K /\ (K = "process_init" => current = NULL)
    BY <1>3 DEF onIrq0, K, SafeSwitching, CreateInv
  <2> QED BY <1>3, <2>1 DEF onIrq0, schedule, table
<1>4. CASE irq_exit \/ UserReturn \/ Tick \/ KeyPress \/ \E call \in UserCalls : UserTrap(call)
  BY <1>4 DEF irq_exit, UserReturn, Tick, KeyPress, Interrupt, UserTrap, K, table
<1>5. CASE UNCHANGED vars
  BY <1>5 DEF vars, table, K
<1> QED BY <1>1, <1>2, <1>3, <1>4, <1>5 DEF Next, CodeStep, HandlerStep

FrameLabels == {"push_args", "save_esp", "load_esp"}

\* A step that leaves every ready slot ready, with kernel_main holding no frame.
LEMMA ReadyKeepsAlive ==
    ASSUME NEW t \in Threads, cpu' = cpu, K \notin FrameLabels,
           \A s \in Slots : state[s] = "READY" => state'[s] = "READY" /\ esp'[s] = esp[s],
           Alive(t)
    PROVE  Alive(t)'
<1>1. HandoffFrame = "Null"
  BY DEF HandoffFrame, K, FrameLabels
<1>2. cpu = t \/ \E s \in Slots : state[s] = "READY" /\ esp[s] = t
  BY <1>1, ThreadFacts DEF Alive, Dispatchable
<1> QED BY <1>2 DEF Alive, Dispatchable

\* A step that touches neither the frames nor what holds them.
LEMMA SameKeepsAlive ==
    ASSUME NEW t \in Threads, UNCHANGED <<state, esp, cpu, ta, new_esp>>, K' = K, Alive(t)
    PROVE  Alive(t)'
<1>1. HandoffFrame' = HandoffFrame
  BY DEF HandoffFrame, K
<1> QED BY <1>1 DEF Alive, Dispatchable

LEMMA CreateKeepsAlive ==
    ASSUME TypeOK, SafeSwitching, NoFrameYet, process_init \/ process_create,
           NEW t \in Threads, Alive(t)
    PROVE  Alive(t)'
<1>1. CASE process_init
  <2>1. K = "process_init" /\ cpu' = cpu
    BY <1>1, KernelExecutes DEF process_init, machine
  <2>2. \A s \in Slots : esp[s] # t
    BY <2>1, ThreadFacts DEF NoFrameYet
  <2>3. HandoffFrame = "Null"
    BY <2>1 DEF HandoffFrame, K
  <2> QED BY <2>1, <2>2, <2>3, ThreadFacts DEF Alive, Dispatchable
<1>2. CASE FindSlot \/ SetPageDir
  <2>1. K \in {"find_slot", "set_page_dir"} /\ UNCHANGED <<state, esp, cpu>>
    BY <1>2, KernelExecutes DEF FindSlot, SetPageDir, table, machine
  <2> QED BY <2>1, ReadyKeepsAlive DEF FrameLabels
<1>3. CASE BuildStack \/ SetReady
  <2>1. K \in {"build_stack", "set_ready"} /\ cpu' = cpu
    BY <1>3, KernelExecutes DEF BuildStack, SetReady, machine
  <2>2. proc \in Slots /\ state[proc] = "DEAD"
    BY <2>1 DEF SafeSwitching, CreateInv
  <2>3. \A s \in Slots \ {proc} : state'[s] = state[s] /\ esp'[s] = esp[s]
    BY <1>3, <2>2 DEF BuildStack, SetReady, TypeOK
  <2> QED BY <2>1, <2>2, <2>3, ReadyKeepsAlive DEF FrameLabels
<1> QED BY <1>1, <1>2, <1>3 DEF process_create

LEMMA HandoffKeepsAlive ==
    ASSUME TypeOK, SafeSwitching, Handoff, NEW t \in Threads, Alive(t)
    PROVE  Alive(t)' \/ (t = "kernel_main" /\ pc'[t] = "gone")
<1>1. CASE ReadCurrent \/ SetCurrent
  <2>1. K \in {"read_current", "set_current"} /\ UNCHANGED <<state, esp, cpu>>
    BY <1>1, KernelExecutes DEF ReadCurrent, SetCurrent, table, machine
  <2> QED BY <2>1, ReadyKeepsAlive DEF FrameLabels
<1>2. CASE KillPrev
  <2>1. K = "kill_prev" /\ UNCHANGED <<esp, cpu>>
    BY <1>2, KernelExecutes DEF KillPrev, machine
  <2>2. prev = 0 /\ state[0] = "RUNNING"
    BY <2>1, SlotFacts DEF SafeSwitching, HandoffInv, HandoffWindow
  <2>3. \A s \in Slots : state[s] = "READY" => state'[s] = "READY"
    BY <1>2, <2>2 DEF KillPrev, TypeOK
  <2> QED BY <2>1, <2>3, ReadyKeepsAlive DEF FrameLabels
<1>3. CASE RunP
  <2>1. /\ K = "run_p" /\ K' = "push_args" /\ UNCHANGED <<esp, cpu, ta>>
        /\ \A s \in Slots : s # ta => state'[s] = state[s]
    BY <1>3, KernelExecutes, KernelGotoFacts DEF RunP, machine, locals, TypeOK, Labels
  <2>2. HandoffFrame = "Null" /\ (ta # NULL => HandoffFrame' = esp[ta])
    BY <2>1 DEF HandoffFrame, K
  <2>3. cpu = t \/ \E s \in Slots : state[s] = "READY" /\ esp[s] = t
    BY <2>2, ThreadFacts DEF Alive, Dispatchable
  <2> QED BY <2>1, <2>2, <2>3, SlotFacts DEF Alive, Dispatchable
<1>4. CASE PushArgs
  <2>1. /\ K = "push_args" /\ K' = "save_esp" /\ UNCHANGED <<state, esp, cpu>>
        /\ new_esp' = IF ta = NULL THEN "Stale" ELSE esp[ta]
    BY <1>4, KernelExecutes, KernelGotoFacts DEF PushArgs, table, machine, TypeOK, Labels
  <2>2. HandoffFrame = t => HandoffFrame' = t
    BY <2>1, ThreadFacts DEF HandoffFrame, K
  <2> QED BY <2>1, <2>2 DEF Alive, Dispatchable
<1>5. CASE SaveEsp
  <2>1. /\ K = "save_esp" /\ K' = "load_esp" /\ UNCHANGED <<state, cpu, new_esp>>
        /\ prev = 0 /\ state[0] = "DEAD"
    BY <1>5, KernelExecutes, KernelGotoFacts
       DEF SaveEsp, machine, locals, TypeOK, Labels, SafeSwitching, HandoffInv
  <2>2. HandoffFrame' = HandoffFrame
    BY <2>1 DEF HandoffFrame, K
  <2>3. \A s \in Slots : state[s] = "READY" => esp'[s] = esp[s]
    BY <1>5, <2>1 DEF SaveEsp, TypeOK
  <2> QED BY <2>1, <2>2, <2>3 DEF Alive, Dispatchable
<1>6. CASE LoadEsp
  <2>1. /\ K = "load_esp" /\ K' = "gone" /\ cpu = "kernel_main" /\ state' = state
        /\ SwitchTo(new_esp, esp, new_esp)
    BY <1>6, KernelExecutes, KernelGotoFacts DEF LoadEsp, TypeOK, Labels
  <2>2. CASE t = "kernel_main"
    BY <2>1, <2>2 DEF K
  <2>3. CASE t # "kernel_main"
    <3>1. HandoffFrame = new_esp
      BY <2>1 DEF HandoffFrame, K
    <3>2. new_esp = t \/ \E s \in Slots : state[s] = "READY" /\ esp[s] = t
      BY <2>1, <2>3, <3>1 DEF Alive, Dispatchable
    <3>3. CASE new_esp = t
      BY <2>1, <3>3 DEF SwitchTo, Alive
    <3>4. CASE new_esp # t
      <4>1. \A s \in Slots : esp[s] = t => esp'[s] = t
        BY <2>1, <3>4 DEF SwitchTo
      <4> QED BY <2>1, <3>2, <3>4, <4>1 DEF Alive, Dispatchable
    <3> QED BY <3>3, <3>4
  <2> QED BY <2>2, <2>3
<1> QED BY <1>1, <1>2, <1>3, <1>4, <1>5, <1>6 DEF Handoff

\* The thread switched away from waits in its slot, the one switched to runs.
LEMMA ScheduleKeepsAlive ==
    ASSUME TypeOK, SafeSwitching, onIrq0, NEW t \in Threads, Alive(t)
    PROVE  Alive(t)'
<1>1. cpu \in Threads /\ mode[cpu] = "irq0" /\ K' = K /\ ta' = ta
  BY DEF onIrq0, K
<1>2. K \notin HandoffWindow
  BY <1>1 DEF SafeSwitching, HandoffInv
<1>3. CASE UNCHANGED <<table, cpu, new_esp>>
  BY <1>1, <1>3, SameKeepsAlive DEF table
<1>4. ASSUME NEW next \in Slots, pick_next_process(next), current # NULL, current' = next,
             state' = [state EXCEPT ![next] = "RUNNING", ![current] = "READY"],
             SwitchTo(esp[next], [esp EXCEPT ![current] = cpu], new_esp)
      PROVE  Alive(t)'
  <2>1. current \in Slots /\ current' \in Slots
    BY <1>4, SlotFacts DEF TypeOK
  <2>2. \A s \in Slots : state[s] = "RUNNING" <=> s = current
    BY <1>2, <1>4 DEF SafeSwitching, OneRunning, HandoffWindow, K
  <2>3. ContextsExclusive
    BY DEF SafeSwitching
  <2>4. /\ cpu' = esp[next] /\ \A u \in Threads, s \in Slots : Owns(u, s) => Owns(u, s)'
        /\ new_esp # cpu' => new_esp' = new_esp
    BY <1>1, <1>4, <2>1, <2>2, <2>3, SwitchKeepsContexts
  <2>5. \A s \in Slots : Owns(t, s)' => Alive(t)'
    BY DEF Owns, Waits, Alive, Dispatchable
  <2>6. CASE cpu = t
    <3>1. Owns(t, current)
      BY <2>6 DEF Owns
    <3> QED BY <2>1, <2>4, <2>5, <3>1
  <2>7. CASE \E s \in Slots : state[s] = "READY" /\ esp[s] = t
    <3>1. PICK s \in Slots : state[s] = "READY" /\ esp[s] = t
      BY <2>7
    <3>2. Owns(t, s)
      BY <1>4, <2>3, <3>1 DEF Owns, Waits, ContextsExclusive
    <3> QED BY <2>4, <2>5, <3>2
  <2>8. CASE HandoffFrame = t
    <3>1. K \in {"save_esp", "load_esp"} /\ new_esp = t
      BY <1>2, <2>8, ThreadFacts DEF HandoffFrame, HandoffWindow, K
    <3>2. CASE cpu' = t
      BY <3>2 DEF Alive
    <3>3. CASE cpu' # t
      <4>1. HandoffFrame' = t
        BY <1>1, <2>4, <3>1, <3>3 DEF HandoffFrame, K
      <4> QED BY <4>1 DEF Alive, Dispatchable
    <3> QED BY <3>2, <3>3
  <2> QED BY <2>6, <2>7, <2>8 DEF Alive, Dispatchable
<1> QED BY <1>3, <1>4 DEF onIrq0, schedule

LEMMA NextKeepsAlive ==
    ASSUME TypeOK, SafeSwitching, NoFrameYet, [Next]_vars, NEW t \in Threads, Alive(t)
    PROVE  Alive(t)' \/ (t = "kernel_main" /\ pc'[t] = "gone")
<1>1. CASE TaskSti("task_a") \/ TaskSti("task_b") \/ jump_usermode
  <2>1. UNCHANGED <<table, cpu, locals>> /\ K' = K
    BY <1>1 DEF TaskSti, jump_usermode, Goto, TypeOK, Labels, Threads, Tasks, K
  <2> QED BY <2>1, SameKeepsAlive DEF table, locals
<1>2. CASE irq_exit \/ UserReturn \/ Tick \/ KeyPress \/ \E call \in UserCalls : UserTrap(call)
  <2>1. UNCHANGED <<table, cpu, locals>> /\ K' = K
    BY <1>2 DEF irq_exit, UserReturn, Tick, KeyPress, Interrupt, UserTrap, K
  <2> QED BY <2>1, SameKeepsAlive DEF table, locals
<1>3. CASE UNCHANGED vars
  BY <1>3, SameKeepsAlive DEF vars, table, machine, locals, K
<1> QED
  BY <1>1, <1>2, <1>3, CreateKeepsAlive, HandoffKeepsAlive, ScheduleKeepsAlive
     DEF Next, CodeStep, HandlerStep

\* Every thread that runs or waits keeps doing so, until kernel_main leaves.
THEOREM ContextsKept ==
    ASSUME HandoffQuiet = TRUE
    PROVE  Spec => ContextNeverLost
<1>1. Spec => []NoFrameYet
  <2>1. TypeOK /\ SafeSwitching /\ NoFrameYet /\ [Next]_vars => NoFrameYet'
    BY NoFrameYetNext
  <2> QED BY <2>1, Safe, NoFrameYetInit, PTL DEF Spec, Inv
<1>2. Inv /\ NoFrameYet /\ [Next]_vars =>
         [\A t \in Threads :
             Alive(t) => Alive(t)' \/ (t = "kernel_main" /\ pc'[t] = "gone")]_vars
  BY NextKeepsAlive DEF Inv
<1> QED BY <1>1, <1>2, Safe, PTL DEF Spec, ContextNeverLost

-----------------------------------------------------------------------------
(* Multitasking implements Dispatcher.  The heap has to have room for the  *)
(* first kernel stack, so that kernel_main has a process to hand over to.  *)

\* What keeps the first process_create from failing until it is through.
FirstCreated ==
    /\ K = "process_init" => stacks > 0
    /\ k = 1 => K \in Creating \cup {"process_init"}
    /\ k = 1 /\ K \in {"find_slot", "build_stack"} => stacks > 0
    /\ k = 1 /\ K \in {"find_slot", "build_stack", "set_ready"} =>
          \A s \in Slots \ {0} : state[s] = "DEAD"
    /\ k # 1 => ta # NULL

LEMMA FirstCreatedInit == 0 \notin StackBudgets /\ Init => FirstCreated
BY StackBudgetsAssumption DEF Init, FirstCreated, K, Creating, Threads, Tasks

LEMMA FirstCreatedNext == TypeOK /\ SafeSwitching /\ FirstCreated /\ [Next]_vars => FirstCreated'
<1> SUFFICES ASSUME TypeOK, SafeSwitching, FirstCreated, [Next]_vars PROVE FirstCreated'
  OBVIOUS
<1> USE DEF FirstCreated
<1>0. k \in Nat /\ stacks \in Nat /\ \A l \in KernelLabels : l \in Labels
  BY DEF TypeOK, KernelLabels, BeforeHandoff, Creating, HandoffWindow, Labels, Entry
<1>1. CASE process_init
  <2>1. K = "process_init" /\ K' = "find_slot" /\ UNCHANGED <<k, ta, stacks>>
    BY <1>1, KernelExecutes, KernelGotoFacts DEF process_init, TypeOK, Labels, locals
  <2>2. k = 1
    BY <2>1 DEF SafeSwitching, CreateInv
  <2>3. \A s \in Slots \ {0} : state'[s] = "DEAD"
    BY <1>1 DEF process_init
  <2> QED BY <2>1, <2>2, <2>3 DEF Creating
<1>2. CASE FindSlot
  <2>1. K = "find_slot" /\ UNCHANGED <<state, stacks>>
    BY <1>2, KernelExecutes DEF FindSlot, table
  <2>2. CASE KernelGoto("build_stack") /\ UNCHANGED <<k, ta>>
    <3>1. K' = "build_stack"
      BY <2>2, KernelGotoFacts DEF TypeOK, Labels
    <3> QED BY <2>1, <2>2, <3>1 DEF Creating
  <2>3. CASE (\A s \in Slots : state[s] # "DEAD") /\ ReturnProcess(NULL)
    <3>1. 1 \in Slots \ {0}
      BY MaxProcessesAssumption DEF Slots
    <3>2. k # 1
      BY <2>1, <2>3, <3>1
    <3>3. k' = k + 1 /\ ta' = ta
      BY <2>3, <3>2 DEF ReturnProcess
    <3>4. k' # 1 /\ ta' # NULL
      BY <1>0, <3>2, <3>3, EntryFacts DEF TypeOK
    <3> QED BY <2>1, <3>4, KernelGotoFacts, <2>3 DEF ReturnProcess, TypeOK, Labels
  <2> QED BY <1>2, <2>2, <2>3 DEF FindSlot
<1>3. CASE BuildStack
  <2>1. K = "build_stack" /\ state' = state
    BY <1>3, KernelExecutes DEF BuildStack
  <2>2. CASE stacks > 0 /\ KernelGoto("set_ready") /\ UNCHANGED <<k, ta>>
    <3>1. K' = "set_ready"
      BY <2>2, KernelGotoFacts DEF TypeOK, Labels
    <3> QED BY <2>1, <2>2, <3>1 DEF Creating
  <2>3. CASE stacks = 0 /\ ReturnProcess(NULL)
    <3>1. k # 1
      BY <2>1, <2>3
    <3>2. k' = k + 1 /\ ta' = ta
      BY <2>3, <3>1 DEF ReturnProcess
    <3>3. k' # 1 /\ ta' # NULL
      BY <1>0, <3>1, <3>2, EntryFacts DEF TypeOK
    <3> QED BY <2>1, <3>3, KernelGotoFacts, <2>3 DEF ReturnProcess, TypeOK, Labels
  <2> QED BY <1>3, <2>2, <2>3 DEF BuildStack
<1>4. CASE SetReady
  <2>1. K' = "set_page_dir" /\ UNCHANGED <<k, ta>>
    BY <1>4, KernelGotoFacts DEF SetReady, TypeOK, Labels, locals
  <2> QED BY <2>1 DEF Creating
<1>5. CASE SetPageDir
  <2>1. K = "set_page_dir" /\ K' \in {"find_slot", "read_current"}
    BY <1>5, KernelExecutes, KernelGotoFacts DEF SetPageDir, ReturnProcess, TypeOK, Labels
  <2>2. k' = k + 1 /\ ta' = IF k = 1 THEN proc ELSE ta
    BY <1>5 DEF SetPageDir, ReturnProcess
  <2>3. proc # NULL
    BY <2>1, SlotFacts DEF SafeSwitching, CreateInv
  <2>4. k' # 1 /\ ta' # NULL
    BY <1>0, <2>2, <2>3, EntryFacts DEF TypeOK
  <2> QED BY <2>1, <2>4
<1>6. CASE Handoff
  <2>1. K \notin Creating \cup {"process_init"}
    BY <1>6, KernelExecutes
       DEF Handoff, ReadCurrent, SetCurrent, KillPrev, RunP, PushArgs, SaveEsp, LoadEsp, Creating
  <2>2. K' # "process_init"
    BY <1>6, KernelGotoFacts
       DEF Handoff, ReadCurrent, SetCurrent, KillPrev, RunP, PushArgs, SaveEsp, LoadEsp, TypeOK, Labels
  <2>3. UNCHANGED <<k, ta>>
    BY <1>6 DEF Handoff, ReadCurrent, SetCurrent, KillPrev, RunP, PushArgs, SaveEsp, LoadEsp, locals
  <2> QED BY <2>1, <2>2, <2>3
<1>7. CASE TaskSti("task_a") \/ TaskSti("task_b") \/ jump_usermode
  BY <1>7 DEF TaskSti, jump_usermode, Goto, TypeOK, Threads, Tasks, K, table, locals
<1>8. CASE onIrq0
  <2>1. K' = K /\ UNCHANGED <<k, ta, stacks>>
    BY <1>8 DEF onIrq0, K
  <2>2. k = 1 /\ K \in {"find_slot", "build_stack", "set_ready"} => state' = state
    <3> SUFFICES ASSUME k = 1, K \in {"find_slot", "build_stack", "set_ready"} PROVE state' = state
      OBVIOUS
    <3>1. \A s \in Slots \ {0} : state[s] = "DEAD"
      OBVIOUS
    <3>2. current # NULL => \A s \in Slots : state[s] = "RUNNING" <=> s = current
      BY DEF SafeSwitching, OneRunning, K
    <3>3. ~ \E next \in Slots : current # NULL /\ pick_next_process(next)
      BY <3>1, <3>2 DEF pick_next_process, TypeOK
    <3> QED BY <1>8, <3>3 DEF onIrq0, schedule, table
  <2> QED BY <2>1, <2>2
<1>9. CASE irq_exit \/ UserReturn \/ Tick \/ KeyPress \/ \E call \in UserCalls : UserTrap(call)
  BY <1>9 DEF irq_exit, UserReturn, Tick, KeyPress, Interrupt, UserTrap, K, table, locals
<1>10. CASE UNCHANGED vars
  BY <1>10 DEF vars, table, locals, K
<1> QED
  BY <1>1, <1>2, <1>3, <1>4, <1>5, <1>6, <1>7, <1>8, <1>9, <1>10
     DEF Next, CodeStep, HandlerStep, process_create

\* What the refinement maps to running and ready.
Running == IF Halted THEN "stopped" ELSE cpu
Ready   == {t \in Threads \ {cpu} : Dispatchable(t)}

\* A step of a CPU that does not halt, that keeps what is ready.
LEMMA ReadyStutters ==
    ASSUME cpu' = cpu, Halted' <=> Halted,
           \A t \in Threads \ {cpu} : Dispatchable(t)' <=> Dispatchable(t)
    PROVE  UNCHANGED <<Running, Ready>>
BY DEF Running, Ready

\* While kernel_main holds no frame, what is ready is what the table says.
LEMMA TableStutters ==
    ASSUME cpu' = cpu, mode' = mode, K \notin FrameLabels, K' \notin FrameLabels,
           \A t \in Threads :
              (\E s \in Slots : state'[s] = "READY" /\ esp'[s] = t)
                 <=> (\E s \in Slots : state[s] = "READY" /\ esp[s] = t)
    PROVE  UNCHANGED <<Running, Ready>>
<1>1. HandoffFrame = "Null" /\ HandoffFrame' = "Null"
  BY DEF HandoffFrame, K, FrameLabels
<1>2. \A t \in Threads : Dispatchable(t)' <=> Dispatchable(t)
  BY <1>1, ThreadFacts DEF Dispatchable
<1> QED BY <1>2, ReadyStutters DEF Halted

LEMMA KernelStutters ==
    ASSUME TypeOK, SafeSwitching, NoFrameYet,
           process_init \/ FindSlot \/ BuildStack \/ SetPageDir
              \/ ReadCurrent \/ SetCurrent \/ KillPrev
    PROVE  UNCHANGED <<Running, Ready>>
<1>1. CASE process_init
  <2>1. K = "process_init" /\ K' = "find_slot" /\ UNCHANGED <<cpu, mode>>
    BY <1>1, KernelExecutes, KernelGotoFacts DEF process_init, machine, TypeOK, Labels
  <2>2. \A s \in Slots : esp[s] = "Null" /\ esp'[s] = "Null"
    BY <1>1, <2>1 DEF process_init, NoFrameYet, TypeOK
  <2> QED BY <2>1, <2>2, ThreadFacts, TableStutters DEF FrameLabels
<1>2. CASE FindSlot \/ SetPageDir \/ ReadCurrent \/ SetCurrent
  <2>1. K \in {"find_slot", "set_page_dir", "read_current", "set_current"}
    BY <1>2, KernelExecutes DEF FindSlot, SetPageDir, ReadCurrent, SetCurrent
  <2>2. K' \in {"find_slot", "build_stack", "read_current", "set_current", "kill_prev"}
    BY <1>2, KernelGotoFacts
       DEF FindSlot, SetPageDir, ReadCurrent, SetCurrent, ReturnProcess, TypeOK, Labels
  <2>3. UNCHANGED <<state, esp, cpu, mode>>
    BY <1>2 DEF FindSlot, SetPageDir, ReadCurrent, SetCurrent, table, machine
  <2> QED BY <2>1, <2>2, <2>3, TableStutters DEF FrameLabels
<1>3. CASE BuildStack
  <2>1. K = "build_stack" /\ UNCHANGED <<state, cpu, mode>>
    BY <1>3, KernelExecutes DEF BuildStack, machine
  <2>2. K' \in {"set_ready", "find_slot", "read_current"}
    BY <1>3, KernelGotoFacts DEF BuildStack, ReturnProcess, TypeOK, Labels
  <2>3. proc \in Slots /\ state[proc] = "DEAD"
    BY <2>1 DEF SafeSwitching, CreateInv
  <2>4. \A s \in Slots : state[s] = "READY" => esp'[s] = esp[s]
    BY <1>3, <2>3 DEF BuildStack, TypeOK
  <2> QED BY <2>1, <2>2, <2>4, TableStutters DEF FrameLabels
<1>4. CASE KillPrev
  <2>1. K = "kill_prev" /\ K' = "run_p" /\ UNCHANGED <<esp, cpu, mode>>
    BY <1>4, KernelExecutes, KernelGotoFacts DEF KillPrev, machine, TypeOK, Labels
  <2>2. prev = 0 /\ state[0] = "RUNNING"
    BY <2>1, SlotFacts DEF SafeSwitching, HandoffInv, HandoffWindow
  <2>3. \A s \in Slots : state'[s] = "READY" <=> state[s] = "READY"
    BY <1>4, <2>2 DEF KillPrev, TypeOK
  <2> QED BY <2>1, <2>3, TableStutters DEF FrameLabels
<1> QED BY <1>1, <1>2, <1>3, <1>4

\* kernel_main's hands: task_a's frame moves from the table to new_esp.
LEMMA HandsStutter ==
    ASSUME TypeOK, SafeSwitching, RunP \/ PushArgs \/ SaveEsp
    PROVE  UNCHANGED <<Running, Ready>>
<1>1. CASE RunP
  <2>1. /\ K = "run_p" /\ K' = "push_args" /\ UNCHANGED <<esp, cpu, mode, ta>>
        /\ \A s \in Slots : state'[s] = IF s = ta THEN "RUNNING" ELSE state[s]
    BY <1>1, KernelExecutes, KernelGotoFacts DEF RunP, machine, locals, TypeOK, Labels
  <2>2. ta # NULL => ta \in Slots /\ state[ta] = "READY"
    BY <2>1 DEF SafeSwitching, HandoffInv, Waits, TypeOK
  <2>3. HandoffFrame = "Null" /\ HandoffFrame' = IF ta = NULL THEN "Null" ELSE esp[ta]
    BY <2>1 DEF HandoffFrame, K
  <2>4. ASSUME NEW t \in Threads PROVE Dispatchable(t)' <=> Dispatchable(t)
    BY <2>1, <2>2, <2>3, SlotFacts, ThreadFacts DEF Dispatchable
  <2> QED BY <2>1, <2>4, ReadyStutters DEF Halted
<1>2. CASE PushArgs
  <2>1. /\ K = "push_args" /\ K' = "save_esp" /\ UNCHANGED <<state, esp, cpu, mode>>
        /\ new_esp' = IF ta = NULL THEN "Stale" ELSE esp[ta]
    BY <1>2, KernelExecutes, KernelGotoFacts DEF PushArgs, table, machine, TypeOK, Labels
  <2>2. \A t \in Threads : HandoffFrame' = t <=> HandoffFrame = t
    BY <2>1, ThreadFacts DEF HandoffFrame, K
  <2>3. \A t \in Threads : Dispatchable(t)' <=> Dispatchable(t)
    BY <2>1, <2>2 DEF Dispatchable
  <2> QED BY <2>1, <2>3, ReadyStutters DEF Halted
<1>3. CASE SaveEsp
  <2>1. /\ K = "save_esp" /\ K' = "load_esp" /\ UNCHANGED <<state, cpu, mode, new_esp>>
        /\ prev = 0 /\ state[0] = "DEAD"
    BY <1>3, KernelExecutes, KernelGotoFacts
       DEF SaveEsp, machine, locals, TypeOK, Labels, SafeSwitching, HandoffInv
  <2>2. HandoffFrame' = HandoffFrame
    BY <2>1 DEF HandoffFrame, K
  <2>3. \A s \in Slots : state[s] = "READY" => esp'[s] = esp[s]
    BY <1>3, <2>1 DEF SaveEsp, TypeOK
  <2>4. \A t \in Threads : Dispatchable(t)' <=> Dispatchable(t)
    BY <2>1, <2>2, <2>3 DEF Dispatchable
  <2> QED BY <2>1, <2>4, ReadyStutters DEF Halted
<1> QED BY <1>1, <1>2, <1>3

\* The store to proc->state is what makes a process known.
LEMMA SetReadyCreates ==
    ASSUME TypeOK, SafeSwitching, SetReady
    PROVE  \E t \in Tasks : Abstract!Create(t)
<1>1. /\ K = "set_ready" /\ K' = "set_page_dir" /\ cpu = "kernel_main"
      /\ mode["kernel_main"] = "code" /\ UNCHANGED <<esp, cpu, mode>>
  BY KernelExecutes, KernelGotoFacts DEF SetReady, machine, TypeOK, Labels
<1>2. /\ proc \in Slots /\ esp[proc] = Entry[k] /\ k \in 1 .. Len(Entry)
      /\ \A i \in k .. Len(Entry) : Unborn(Entry[i])
  BY <1>1 DEF SafeSwitching, CreateInv, Creating
<1>3. Entry[k] \in Tasks /\ Entry[k] # "kernel_main" /\ Unborn(Entry[k])
  BY <1>2, EntryFacts, ThreadFacts
<1>4. \A s \in Slots : state'[s] = IF s = proc THEN "READY" ELSE state[s]
  BY <1>2 DEF SetReady, TypeOK
<1>5. state[proc] = "DEAD"
  BY <1>1 DEF SafeSwitching, CreateInv
<1>6. HandoffFrame = "Null" /\ HandoffFrame' = "Null"
  BY <1>1 DEF HandoffFrame, K
<1>7. ASSUME NEW t \in Threads
      PROVE  Dispatchable(t)' <=> Dispatchable(t) \/ t = Entry[k]
  BY <1>1, <1>2, <1>4, <1>5, <1>6, ThreadFacts DEF Dispatchable
<1>8. Ready' = Ready \cup {Entry[k]}
  BY <1>1, <1>3, <1>7, ThreadFacts DEF Ready
<1>9. Entry[k] \notin Ready
  BY <1>3, <1>6, ThreadFacts DEF Ready, Dispatchable, Unborn, Waits
<1>10. Running = "kernel_main" /\ Running' = Running
  BY <1>1 DEF Running, Halted
<1> QED BY <1>3, <1>8, <1>9, <1>10 DEF Abstract!Create, Running, Ready

\* kernel_main's context_switch is its last step.
LEMMA LoadEspLeaves ==
    ASSUME TypeOK, InterruptInv, SafeSwitching, FirstCreated, LoadEsp
    PROVE  Abstract!Leave
<1>1. /\ K = "load_esp" /\ K' = "gone" /\ cpu = "kernel_main" /\ mode["kernel_main"] = "code"
      /\ state' = state /\ mode' = mode /\ SwitchTo(new_esp, esp, new_esp)
  BY KernelExecutes, KernelGotoFacts DEF LoadEsp, TypeOK, Labels
<1>2. ta # NULL
  BY <1>1 DEF FirstCreated, Creating
<1>3. new_esp = "task_a" /\ current # NULL /\ Unborn("task_a")
  BY <1>1, <1>2 DEF SafeSwitching, HandoffInv
<1>4. cpu' = "task_a" /\ \A s \in Slots : esp'[s] = IF esp[s] = "task_a" THEN "Stale" ELSE esp[s]
  BY <1>1, <1>3, ThreadFacts DEF SwitchTo
<1>5. \A s \in Slots : state[s] = "READY" => esp[s] # "kernel_main" /\ esp[s] # "task_a"
  BY <1>1, <1>3 DEF SafeSwitching, ContextsExclusive, Unborn, Waits
<1>6. HandoffFrame = "task_a" /\ HandoffFrame' = "Null"
  BY <1>1, <1>3 DEF HandoffFrame, K
<1>7. mode["task_a"] # "halt"
  BY <1>1, ThreadFacts DEF InterruptInv
<1>8. Running = "kernel_main" /\ Running' = "task_a"
  BY <1>1, <1>4, <1>7 DEF Running, Halted
<1>9. ASSUME NEW t \in Threads PROVE t \in Ready' <=> t \in Ready /\ t # "task_a"
  BY <1>1, <1>4, <1>5, <1>6, ThreadFacts DEF Ready, Dispatchable
<1>10. "task_a" \in Ready /\ Ready' = Ready \ {"task_a"}
  BY <1>1, <1>6, <1>9, ThreadFacts DEF Ready, Dispatchable
<1> QED BY <1>8, <1>10 DEF Abstract!Leave, Running, Ready

\* The timer's handler: nothing changes, or the next thread is dispatched.
LEMMA ScheduleDispatches ==
    ASSUME TypeOK, InterruptInv, SafeSwitching, onIrq0
    PROVE  UNCHANGED <<Running, Ready>> \/ \E t \in Threads : Abstract!Dispatch(t)
<1>1. /\ cpu \in Threads /\ mode[cpu] = "irq0" /\ K' = K /\ ta' = ta
      /\ mode' = [mode EXCEPT ![cpu] = "irq_exit"]
  BY DEF onIrq0, K
<1>2. /\ Running = cpu /\ mode'[cpu] # "halt"
      /\ \A t \in Threads \ {cpu} : mode'[t] # "halt"
  BY <1>1 DEF Running, Halted, InterruptInv, TypeOK
<1>3. K \notin HandoffWindow
  BY <1>1 DEF SafeSwitching, HandoffInv
<1>4. CASE UNCHANGED <<table, cpu, new_esp>>
  <2>1. HandoffFrame' = HandoffFrame
    BY <1>1, <1>4 DEF HandoffFrame, K, table
  <2>2. \A t \in Threads : Dispatchable(t)' <=> Dispatchable(t)
    BY <1>4, <2>1 DEF Dispatchable, table
  <2> QED BY <1>1, <1>2, <1>4, <2>2, ReadyStutters DEF Halted
<1>5. ASSUME NEW next \in Slots, pick_next_process(next), current # NULL, current' = next,
             state' = [state EXCEPT ![next] = "RUNNING", ![current] = "READY"],
             SwitchTo(esp[next], [esp EXCEPT ![current] = cpu], new_esp)
      PROVE  \E t \in Threads : Abstract!Dispatch(t)
  <2>1. /\ current \in Slots /\ next # current /\ state[next] = "READY"
        /\ ContextsExclusive
    BY <1>5, SlotFacts DEF TypeOK, pick_next_process, SafeSwitching
  <2>2. \A s \in Slots : state[s] = "RUNNING" <=> s = current
    BY <1>3, <1>5 DEF SafeSwitching, OneRunning, HandoffWindow, K
  <2>3. /\ cpu' = esp[next] /\ cpu' \in Threads \ {cpu}
        /\ new_esp # cpu' => new_esp' = new_esp
        /\ \A t \in Threads, s \in Slots : Owns(t, s) => Owns(t, s)'
    BY <1>1, <1>5, <2>1, <2>2, SwitchKeepsContexts
  <2>4. Running' = cpu'
    BY <1>2, <2>3 DEF Running, Halted
  <2>5. cpu' \in Ready
    BY <2>1, <2>3 DEF Ready, Dispatchable
  <2>6. \A t \in Threads, s \in Slots : t # cpu' /\ Owns(t, s)' => t \in Ready'
    BY DEF Owns, Waits, Ready, Dispatchable
  <2>7. new_esp' \in {new_esp, "Stale"}
    BY <1>5, <2>3 DEF SwitchTo
  <2>8. K \in {"save_esp", "load_esp"} => new_esp = "task_a" /\ cpu # "task_a"
    BY <1>5 DEF SafeSwitching, HandoffInv, Unborn
  <2>9. \A t \in Threads : /\ HandoffFrame = t <=> K \in {"save_esp", "load_esp"} /\ new_esp = t
                           /\ HandoffFrame' = t <=> K \in {"save_esp", "load_esp"} /\ new_esp' = t
    BY <1>1, <1>3, ThreadFacts DEF HandoffFrame, HandoffWindow, K
  <2>10. ASSUME NEW t \in Ready' PROVE t \in (Ready \ {cpu'}) \cup {cpu}
    <3>1. t \in Threads /\ t # cpu' /\ Dispatchable(t)'
      BY DEF Ready
    <3>2. CASE HandoffFrame' = t
      <4>1. K \in {"save_esp", "load_esp"} /\ new_esp = t
        BY <2>7, <2>9, <3>1, <3>2, ThreadFacts
      <4> QED BY <2>8, <2>9, <3>1, <4>1 DEF Ready, Dispatchable
    <3>3. CASE \E s \in Slots : state'[s] = "READY" /\ esp'[s] = t
      <4>1. PICK s \in Slots : state'[s] = "READY" /\ esp'[s] = t
        BY <3>3
      <4>2. /\ s # next
            /\ esp'[s] = [esp EXCEPT ![current] = cpu][s]
        BY <1>5, <2>1, <2>3, <3>1, <4>1, ThreadFacts DEF SwitchTo, TypeOK
      <4>3. CASE s = current
        BY <2>1, <4>1, <4>2, <4>3 DEF TypeOK
      <4>4. CASE s # current
        <5>1. state[s] = "READY" /\ esp[s] = t
          BY <1>5, <4>1, <4>2, <4>4 DEF TypeOK
        <5>2. t # cpu
          BY <1>5, <2>1, <5>1 DEF ContextsExclusive
        <5> QED BY <3>1, <5>1, <5>2 DEF Ready, Dispatchable
      <4> QED BY <4>3, <4>4
    <3> QED BY <3>1, <3>2, <3>3 DEF Dispatchable
  <2>11. cpu \in Ready'
    <3>1. Owns(cpu, current)
      BY DEF Owns
    <3> QED BY <1>1, <2>1, <2>3, <2>6, <3>1
  <2>12. ASSUME NEW t \in Ready \ {cpu'} PROVE t \in Ready'
    <3>1. t \in Threads \ {cpu} /\ Dispatchable(t)
      BY DEF Ready
    <3>2. CASE HandoffFrame = t
      <4>1. HandoffFrame' = t
        BY <2>3, <2>9, <3>1, <3>2
      <4> QED BY <3>1, <4>1 DEF Ready, Dispatchable
    <3>3. CASE \E s \in Slots : state[s] = "READY" /\ esp[s] = t
      <4>1. PICK s \in Slots : Owns(t, s)
        BY <3>1, <3>3 DEF Owns, Waits
      <4> QED BY <2>3, <2>6, <3>1, <4>1
    <3> QED BY <3>1, <3>2, <3>3 DEF Dispatchable
  <2>13. Ready' = (Ready \ {cpu'}) \cup {cpu}
    BY <2>10, <2>11, <2>12
  <2>14. Running # "stopped"
    BY <1>1, <1>2, ThreadFacts DEF Threads, Tasks
  <2> QED BY <1>2, <2>3, <2>4, <2>5, <2>13, <2>14 DEF Abstract!Dispatch, Running, Ready
<1> QED BY <1>4, <1>5 DEF onIrq0, schedule

\* Interrupts, their exits and system calls leave the threads as they are; a
\* call that ends in for(;;) stops the machine.
LEMMA TrapsStutterOrStop ==
    ASSUME TypeOK, InterruptInv,
           \/ TaskSti("task_a") \/ TaskSti("task_b") \/ jump_usermode
           \/ irq_exit \/ UserReturn \/ Tick \/ KeyPress
           \/ \E call \in UserCalls : UserTrap(call)
    PROVE  UNCHANGED <<Running, Ready>> \/ Abstract!Stop
<1>1. UNCHANGED <<table, cpu, locals>> /\ K' = K
  BY DEF TaskSti, jump_usermode, irq_exit, UserReturn, Tick, KeyPress, Interrupt, UserTrap,
         Goto, TypeOK, Threads, Tasks, K
<1>2. HandoffFrame' = HandoffFrame
  BY <1>1 DEF HandoffFrame, K, table, locals
<1>3. \A t \in Threads : Dispatchable(t)' <=> Dispatchable(t)
  BY <1>1, <1>2 DEF Dispatchable, table
<1>4. Ready' = Ready
  BY <1>1, <1>3 DEF Ready
<1>5. CASE \E call \in UserCalls : UserTrap(call)
  <2>1. cpu = "userspace_init" /\ ~ Halted
    BY <1>5 DEF UserTrap, Executes, Halted
  <2>2. Running = "userspace_init" /\ Running' \in {"userspace_init", "stopped"}
    BY <1>1, <2>1 DEF Running
  <2> QED BY <1>4, <2>2 DEF Abstract!Stop, Running, Ready
<1>6. CASE ~ \E call \in UserCalls : UserTrap(call)
  <2>1. ~ Halted
    BY <1>6 DEF Halted, TaskSti, jump_usermode, Executes, irq_exit, UserReturn, Tick, KeyPress,
               Interrupt, InterruptInv
  <2>2. ~ Halted'
    BY <1>1, <1>6, <2>1 DEF Halted, TaskSti, jump_usermode, irq_exit, UserReturn, Tick, KeyPress,
                            Interrupt, TypeOK
  <2> QED BY <1>1, <1>4, <2>1, <2>2 DEF Running
<1> QED BY <1>5, <1>6

LEMMA DispatcherStep ==
    ASSUME TypeOK, InterruptInv, SafeSwitching, NoFrameYet, FirstCreated, [Next]_vars
    PROVE  Abstract!Next \/ UNCHANGED <<Running, Ready>>
<1>1. CASE UNCHANGED vars
  <2>1. HandoffFrame' = HandoffFrame
    BY <1>1 DEF HandoffFrame, K, vars, table, locals
  <2>2. \A t \in Threads : Dispatchable(t)' <=> Dispatchable(t)
    BY <1>1, <2>1 DEF Dispatchable, vars, table
  <2> QED BY <1>1, <2>2, ReadyStutters DEF Halted, vars, machine
<1>2. CASE SetReady
  BY <1>2, SetReadyCreates DEF Abstract!Next
<1>3. CASE LoadEsp
  BY <1>3, LoadEspLeaves DEF Abstract!Next
<1>4. CASE onIrq0
  <2>1. Threads = Tasks \cup {"kernel_main"}
    BY DEF Threads
  <2> QED BY <1>4, <2>1, ScheduleDispatches DEF Abstract!Next
<1>5. CASE process_init \/ FindSlot \/ BuildStack \/ SetPageDir
              \/ ReadCurrent \/ SetCurrent \/ KillPrev \/ RunP \/ PushArgs \/ SaveEsp
  BY <1>5, KernelStutters, HandsStutter
<1>6. CASE \/ TaskSti("task_a") \/ TaskSti("task_b") \/ jump_usermode
           \/ irq_exit \/ UserReturn \/ Tick \/ KeyPress
           \/ \E call \in UserCalls : UserTrap(call)
  BY <1>6, TrapsStutterOrStop DEF Abstract!Next
<1> QED
  BY <1>1, <1>2, <1>3, <1>4, <1>5, <1>6
     DEF Next, CodeStep, HandlerStep, process_create, Handoff

LEMMA DispatcherInit == Init => Abstract!Init
<1> SUFFICES ASSUME Init PROVE Abstract!Init
  OBVIOUS
<1>1. cpu = "kernel_main" /\ ~ Halted /\ HandoffFrame = "Null"
  BY DEF Init, Halted, HandoffFrame, Threads
<1>2. \A t \in Threads : ~ Dispatchable(t)
  BY <1>1, ThreadFacts DEF Init, Dispatchable
<1> QED BY <1>1, <1>2 DEF Abstract!Init

\* Process creation, handoff, preemption and the stop of the machine are the
\* steps of the abstract dispatcher, and no other step is visible in it.
THEOREM MultitaskingImplements ==
    ASSUME HandoffQuiet = TRUE, 0 \notin StackBudgets
    PROVE  Spec => DispatcherSafety
<1>1. Spec => []Inv
  BY Safe
<1>2. Init => NoFrameYet /\ FirstCreated /\ Abstract!Init
  BY NoFrameYetInit, FirstCreatedInit, DispatcherInit
<1>3. Inv /\ NoFrameYet /\ FirstCreated /\ [Next]_vars => NoFrameYet' /\ FirstCreated'
  BY NoFrameYetNext, FirstCreatedNext DEF Inv
<1>4. Inv /\ NoFrameYet /\ FirstCreated /\ [Next]_vars =>
         [Abstract!Next]_<<IF Halted THEN "stopped" ELSE cpu,
                           {t \in Threads \ {cpu} : Dispatchable(t)}>>
  BY DispatcherStep DEF Inv, Running, Ready
<1> QED BY <1>1, <1>2, <1>3, <1>4, PTL DEF Spec, DispatcherSafety, Abstract!Spec

=============================================================================
