------------------------------ MODULE Scheduler ------------------------------
(***************************************************************************)
(* The task table and the cooperative round-robin scheduler of the kernel, *)
(* with the code paths that enter it: the boot sequence of kernel_main,    *)
(* the SVC and abort vectors, the IRQ vector with the timer tick, the idle *)
(* task and the assembly context switch.                                   *)
(*                                                                         *)
(* One CPU executes one context at a time: the boot context of kernel_main *)
(* or a task.  pc[c] is where context c is (or will resume); every kernel  *)
(* path is cut where an interrupt can fall between two accesses to shared  *)
(* state.  User code is arbitrary: it computes, traps, faults, overflows   *)
(* its stack or loops for ever.                                            *)
(***************************************************************************)
EXTENDS Integers

CONSTANTS
  MaxTasks,   \* MAX_TASKS: slots of tasks[]
  BootTasks,  \* how many tasks a boot may add: kernel_main adds two
  Shell       \* slot of the task named "User App (Shell)"

ASSUME SchedulerAssumption ==
  /\ MaxTasks \in Nat \ {0}
  /\ BootTasks \subseteq Nat \ {0}
  /\ Shell \in Nat \ {0}

Slot == 0 .. MaxTasks - 1
Idle == 0               \* kernel_main adds the idle task first
NoTask == -1            \* NULL, and the boot context in onCpu
Context == Slot \cup {NoTask}

VARIABLES
  state,              \* tasks[i]->state, "NULL" where tasks[i] is NULL
  task_count,
  current_task,       \* slot current_task points to, or NoTask
  current_task_index,
  scheduler_started,
  need_reschedule,
  canary,             \* canary[i]: the word at tasks[i]->stack_base is intact
  context,            \* tasks[i]->context: owners of the saved sp and sp_usr
  requests,           \* scheduler_add_task calls made so far
  onCpu,              \* context whose kernel stack the CPU is on
  pc,                 \* code point of each context
  frame,              \* caller that scheduler_yield returns to, per task
  prev_task,          \* local of scheduler_yield across context_switch
  sp_usr,             \* owner of the banked SP_usr
  irq_masked,         \* CPSR.I
  pending             \* interrupt lines asserted at the INTC

table == <<state, task_count, canary>>
books == <<current_task, current_task_index, scheduler_started>>
cpu   == <<onCpu, sp_usr, prev_task, context>>
vars  == <<table, books, cpu, need_reschedule, requests, pc, frame, irq_masked,
           pending>>

States  == {"NULL", "READY", "RUNNING", "ZOMBIE"}
Callers == {"none", "idle", "sys_yield", "sys_exit", "abort"}
Sources == {"timer", "uart"}
YieldLabels == {"test", "clear", "check", "pick", "switch"}
Labels == YieldLabels \cup
          {"add", "start", "idle", "wfi", "asleep",
           "user", "svc_entry", "svc", "svc_exit", "halt"}

At(c, l)    == onCpu = c /\ pc[c] = l
Goto(c, l)  == pc' = [pc EXCEPT ![c] = l]
Halted      == pc[onCpu] = "halt"
InYield(c)  == onCpu = c /\ pc[c] \in YieldLabels

\* Where scheduler_yield returns to, by the caller on the task's kernel stack.
\* The abort vector has only "b ." after its handler.
ResumeLabel(caller) ==
  CASE caller = "idle"  -> "wfi"
    [] caller = "abort" -> "halt"
    [] OTHER            -> "svc_exit"

-----------------------------------------------------------------------------
(* Boot: scheduler_init has just run; the timer already counts.            *)

Init ==
  /\ state = [i \in Slot |-> "NULL"]
  /\ task_count = 0
  /\ current_task = NoTask
  /\ current_task_index = 0
  /\ scheduler_started = FALSE
  /\ need_reschedule = FALSE
  /\ canary = [i \in Slot |-> TRUE]
  /\ context = [i \in Slot |-> [sp |-> i, sp_usr |-> i]]
  /\ requests = 0
  /\ onCpu = NoTask
  /\ pc = [c \in Context |-> IF c = NoTask THEN "add" ELSE "svc_exit"]
  /\ frame = [i \in Slot |-> "none"]
  /\ prev_task = NoTask
  /\ sp_usr = NoTask
  /\ irq_masked = TRUE
  /\ pending = {}

MutTableFull == task_count > MaxTasks
TableFull == task_count >= MaxTasks

\* scheduler_add_task: a full table refuses the task and the boot goes on.
scheduler_add_task ==
  /\ At(NoTask, "add")
  /\ \E k \in BootTasks : requests < k
  /\ requests' = requests + 1
  /\ IF TableFull
     THEN UNCHANGED table
     ELSE /\ state' = [state EXCEPT ![task_count] = "READY"]
          /\ task_count' = task_count + 1
          /\ UNCHANGED canary
  /\ UNCHANGED <<books, cpu, need_reschedule, pc, frame, irq_masked, pending>>

irq_enable ==
  /\ At(NoTask, "add")
  /\ requests \in BootTasks
  /\ irq_masked' = FALSE
  /\ Goto(NoTask, "start")
  /\ UNCHANGED <<table, books, cpu, need_reschedule, requests, frame, pending>>

\* scheduler_start up to the store to scheduler_started.
scheduler_start ==
  /\ At(NoTask, "start")
  /\ task_count > 0
  /\ current_task' = Idle
  /\ current_task_index' = 0
  /\ state' = [state EXCEPT ![Idle] = "RUNNING"]
  /\ scheduler_started' = TRUE
  /\ Goto(NoTask, "switch")
  /\ UNCHANGED <<task_count, canary, cpu, need_reschedule, requests, frame,
                 irq_masked, pending>>

\* ldr sp, then ldmia of SP_usr and LR_usr in System mode.
MutLoad(ctx) == onCpu' = ctx.sp /\ UNCHANGED sp_usr
Load(ctx)    == onCpu' = ctx.sp /\ sp_usr' = ctx.sp_usr

\* start_first_task: the boot context is left for ever.
start_first_task ==
  /\ At(NoTask, "switch")
  /\ Load(context[current_task])
  /\ UNCHANGED <<table, books, prev_task, context, need_reschedule, requests, pc,
                 frame, irq_masked, pending>>

-----------------------------------------------------------------------------
(* Entering scheduler_yield.  Every caller raises need_reschedule first.   *)

MutCallYield(t, caller) ==
  /\ frame' = [frame EXCEPT ![t] = caller]
  /\ Goto(t, "test")
  /\ UNCHANGED need_reschedule
CallYield(t, caller) ==
  /\ need_reschedule' = TRUE
  /\ frame' = [frame EXCEPT ![t] = caller]
  /\ Goto(t, "test")

idle_task(t) ==
  /\ At(t, "idle")
  /\ CallYield(t, "idle")
  /\ UNCHANGED <<table, books, cpu, requests, irq_masked, pending>>

sys_yield(t) ==
  /\ At(t, "svc")
  /\ CallYield(t, "sys_yield")
  /\ UNCHANGED <<table, books, cpu, requests, irq_masked, pending>>

\* The victim is current_task, whichever context executes this.
scheduler_terminate_task(t, caller) ==
  /\ state' = [state EXCEPT ![current_task] = "ZOMBIE"]
  /\ CallYield(t, caller)
  /\ UNCHANGED <<task_count, canary, books, cpu, requests, pending>>

\* sys_exit restarts the shell in place and kills any other task.
sys_exit(t) ==
  /\ At(t, "svc")
  /\ IF current_task = Shell
     THEN /\ Goto(t, "svc_exit")
          /\ UNCHANGED <<table, books, cpu, need_reschedule, requests, frame, pending>>
     ELSE scheduler_terminate_task(t, "sys_exit")
  /\ UNCHANGED irq_masked

-----------------------------------------------------------------------------
(* scheduler_yield                                                         *)

\* The gate: without need_reschedule the call returns at once.
YieldTest(t) ==
  /\ At(t, "test")
  /\ Goto(t, IF need_reschedule THEN "clear" ELSE ResumeLabel(frame[t]))
  /\ UNCHANGED <<table, books, cpu, need_reschedule, requests, frame, irq_masked,
                 pending>>

YieldClear(t) ==
  /\ At(t, "clear")
  /\ need_reschedule' = FALSE
  /\ Goto(t, "check")
  /\ UNCHANGED <<table, books, cpu, requests, frame, irq_masked, pending>>

\* PANIC masks interrupts and spins.
Panic(c) ==
  /\ Goto(c, "halt")
  /\ irq_masked' = TRUE

MutCanaryIntact == TRUE
CanaryIntact == canary[current_task]

\* Stack canary of current_task, then the single-task shortcut.
YieldCheck(t) ==
  /\ At(t, "check")
  /\ IF CanaryIntact
     THEN /\ Goto(t, IF task_count = 1 THEN ResumeLabel(frame[t]) ELSE "pick")
          /\ UNCHANGED irq_masked
     ELSE Panic(t)
  /\ UNCHANGED <<table, books, cpu, need_reschedule, requests, frame, pending>>

\* The search loop: first READY slot behind current_task_index in cyclic
\* order, that slot itself last; current_task when the loop finds none.
MutSearchStart == 0
SearchStart == current_task_index
MutSearchBound == task_count
SearchBound == MaxTasks
After(k)   == (SearchStart + k) % MaxTasks
FoundAt(k) == state[After(k)] = "READY"
Candidate ==
  IF \E k \in 1 .. SearchBound : FoundAt(k)
  THEN After(CHOOSE k \in 1 .. SearchBound :
               FoundAt(k) /\ \A j \in 1 .. k - 1 : ~ FoundAt(j))
  ELSE current_task

\* State of the task that gives way.
MutDemoteNone(s) == s
MutDemoteAll(s) == "READY"
Demote(s) == IF s = "ZOMBIE" THEN s ELSE "READY"

Commit(t, i) ==
  /\ state' = [state EXCEPT ![current_task] = Demote(@), ![i] = "RUNNING"]
  /\ prev_task' = current_task
  /\ current_task' = i
  /\ current_task_index' = i
  /\ Goto(t, "switch")
  /\ UNCHANGED irq_masked

PickNext(t) ==
  /\ At(t, "pick")
  /\ Candidate # current_task
  /\ Commit(t, Candidate)
  /\ UNCHANGED <<task_count, canary, scheduler_started, onCpu, sp_usr, context,
                 need_reschedule, requests, frame, pending>>

\* No other task is READY.  A live caller just returns; for a dead one the
\* code forces the idle task READY, and panics when idle is dead as well.
PickNone(t) ==
  /\ At(t, "pick")
  /\ Candidate = current_task
  /\ IF state[current_task] # "ZOMBIE"
     THEN /\ Goto(t, ResumeLabel(frame[t]))
          /\ UNCHANGED <<state, current_task, current_task_index, prev_task, irq_masked>>
     ELSE IF state[Idle] \in {"READY", "RUNNING"}
     THEN Commit(t, Idle)
     ELSE /\ Panic(t)
          /\ UNCHANGED <<state, current_task, current_task_index, prev_task>>
  /\ UNCHANGED <<task_count, canary, scheduler_started, onCpu, sp_usr, context,
                 need_reschedule, requests, frame, pending>>

MutSave == context' = [context EXCEPT ![current_task] = [sp |-> onCpu, sp_usr |-> sp_usr]]
Save    == context' = [context EXCEPT ![prev_task] = [sp |-> onCpu, sp_usr |-> sp_usr]]

\* context_switch(prev_task, next_task): SP and SP_usr are exchanged, CPSR.I
\* is neither saved nor restored.
context_switch(t) ==
  /\ At(t, "switch")
  /\ Save
  /\ Load(context'[current_task])
  /\ prev_task' = NoTask
  /\ Goto(t, ResumeLabel(frame[t]))
  /\ UNCHANGED <<table, books, need_reschedule, requests, frame, irq_masked, pending>>

-----------------------------------------------------------------------------
(* Traps of user code                                                      *)

\* svc_exit_trampoline: CPSR comes from the SPSR in the frame, so user code
\* and the first entry of the idle task run with interrupts enabled.
svc_exit_trampoline(t) ==
  /\ At(t, "svc_exit")
  /\ Goto(t, IF t = Idle THEN "idle" ELSE "user")
  /\ irq_masked' = FALSE
  /\ UNCHANGED <<table, books, cpu, need_reschedule, requests, frame, pending>>

svc(t) ==
  /\ At(t, "user")
  /\ Goto(t, "svc_entry")
  /\ irq_masked' = TRUE
  /\ UNCHANGED <<table, books, cpu, need_reschedule, requests, frame, pending>>

MutEntryMask == UNCHANGED irq_masked
EntryMask    == irq_masked' = FALSE

\* exception_entry_svc: the frame is saved, then cpsie i.
exception_entry_svc(t) ==
  /\ At(t, "svc_entry")
  /\ Goto(t, "svc")
  /\ EntryMask
  /\ UNCHANGED <<table, books, cpu, need_reschedule, requests, frame, pending>>

\* Every system call that neither yields nor exits.
svc_return(t) ==
  /\ At(t, "svc")
  /\ Goto(t, "svc_exit")
  /\ UNCHANGED <<table, books, cpu, need_reschedule, requests, frame, irq_masked,
                 pending>>

\* Prefetch or data abort from user mode: the vector leaves CPSR.I set.
handle_abort(t) ==
  /\ At(t, "user")
  /\ scheduler_terminate_task(t, "abort")
  /\ irq_masked' = TRUE

\* An undefined instruction halts the machine, even from user mode.
handle_undefined_instruction(t) ==
  /\ At(t, "user")
  /\ Panic(t)
  /\ UNCHANGED <<table, books, cpu, need_reschedule, requests, frame, pending>>

\* User code runs its own stack down over the canary word.
StackOverflow(t) ==
  /\ At(t, "user")
  /\ canary[t]
  /\ canary' = [canary EXCEPT ![t] = FALSE]
  /\ UNCHANGED <<state, task_count, books, cpu, need_reschedule, requests, pc, frame,
                 irq_masked, pending>>

-----------------------------------------------------------------------------
(* Interrupts                                                              *)

\* A device raises its line; a raised line stays raised until it is served.
Raise(src) ==
  /\ src \notin pending
  /\ pending' = pending \cup {src}
  /\ UNCHANGED <<table, books, cpu, need_reschedule, requests, pc, frame, irq_masked>>

\* scheduler_tick: ticks before scheduler_start are ignored.
scheduler_tick == need_reschedule' = (need_reschedule \/ scheduler_started)

\* exception_entry_irq .. rfe.  The handler runs with CPSR.I set on the
\* interrupted context's kernel stack, so it is one step of the others.
exception_entry_irq(src) ==
  /\ src \in pending
  /\ ~ irq_masked
  /\ pending' = pending \ {src}
  /\ IF src = "timer" THEN scheduler_tick ELSE UNCHANGED need_reschedule
  /\ pc' = [pc EXCEPT ![onCpu] = IF @ = "asleep" THEN "idle" ELSE @]
  /\ UNCHANGED <<table, books, cpu, requests, frame, irq_masked>>

\* The WFI of the idle task completes at once when a line is already raised.
wfi(t) ==
  /\ At(t, "wfi")
  /\ Goto(t, IF pending = {} THEN "asleep" ELSE "idle")
  /\ UNCHANGED <<table, books, cpu, need_reschedule, requests, frame, irq_masked,
                 pending>>

\* WFI wakes on a raised line whether or not CPSR.I lets it be taken.
WakeMasked(t) ==
  /\ At(t, "asleep")
  /\ irq_masked
  /\ pending # {}
  /\ Goto(t, "idle")
  /\ UNCHANGED <<table, books, cpu, need_reschedule, requests, frame, irq_masked,
                 pending>>

\* while (1) of a panic.
Spin == Halted /\ UNCHANGED vars

-----------------------------------------------------------------------------
Boot == scheduler_add_task \/ irq_enable \/ scheduler_start \/ start_first_task

scheduler_yield(t) ==
  \/ YieldTest(t) \/ YieldClear(t) \/ YieldCheck(t)
  \/ PickNext(t) \/ PickNone(t) \/ context_switch(t)

\* Steps the CPU takes without any choice of the user program or a device.
Kernel(t) ==
  \/ idle_task(t) \/ scheduler_yield(t) \/ wfi(t) \/ WakeMasked(t)
  \/ svc_exit_trampoline(t) \/ exception_entry_svc(t)

Syscall(t) == sys_yield(t) \/ sys_exit(t) \/ svc_return(t)

Faults(t) == handle_abort(t) \/ handle_undefined_instruction(t) \/ StackOverflow(t)

Next ==
  \/ Boot
  \/ \E t \in Slot : Kernel(t) \/ svc(t) \/ Syscall(t) \/ Faults(t)
  \/ \E src \in Sources : Raise(src) \/ exception_entry_irq(src)
  \/ Spin

Spec == Init /\ [][Next]_vars

\* The CPU executes kernel code, the auto-reload timer keeps expiring, and a
\* raised line that is not masked is taken.
KernelFairness ==
  /\ WF_vars(Boot)
  /\ \A t \in Slot : WF_vars(Kernel(t)) /\ WF_vars(Syscall(t))
  /\ WF_vars(Raise("timer"))
  /\ \A src \in Sources : SF_vars(exception_entry_irq(src))

\* Applications keep trapping and, among their system calls, keep yielding:
\* the shell's main loop does, sys_read then sys_yield when no key is there.
CooperativeApps ==
  \A t \in Slot : WF_vars(svc(t)) /\ SF_vars(sys_yield(t))

KernelSpec == Spec /\ KernelFairness
FairSpec   == Spec /\ KernelFairness /\ CooperativeApps

-----------------------------------------------------------------------------
(* Properties                                                              *)

\* Every variable stays in its range; task_count never exceeds MAX_TASKS, so
\* scheduler_add_task never writes beyond tasks[].
TypeOK ==
  /\ state \in [Slot -> States]
  /\ task_count \in 0 .. MaxTasks
  /\ current_task \in Context
  /\ current_task_index \in Slot
  /\ scheduler_started \in BOOLEAN
  /\ need_reschedule \in BOOLEAN
  /\ canary \in [Slot -> BOOLEAN]
  /\ context \in [Slot -> [sp : Slot, sp_usr : Slot]]
  /\ requests \in Nat
  /\ onCpu \in Context
  /\ pc \in [Context -> Labels]
  /\ frame \in [Slot -> Callers]
  /\ prev_task \in Context
  /\ sp_usr \in Context
  /\ irq_masked \in BOOLEAN
  /\ pending \in SUBSET Sources

\* The bookkeeping of scheduler_yield names the context that really runs:
\* outside the window before context_switch, current_task, its index, the
\* kernel stack and the banked user stack all belong to the same task, and
\* only that task may be RUNNING.
BooksAgree ==
  onCpu # NoTask /\ pc[onCpu] # "switch" =>
    /\ current_task = onCpu
    /\ current_task_index = onCpu
    /\ sp_usr = onCpu
    /\ \A i \in Slot : state[i] = "RUNNING" => i = onCpu

\* A READY task can be switched to: its own two stacks are saved in its
\* context and it resumes behind its scheduler_yield or on its first entry.
\* Only the task about to enter context_switch is READY before it is saved.
ReadyIsResumable ==
  \A i \in Slot :
    state[i] = "READY" /\ i # onCpu =>
      /\ pc[i] \in {"wfi", "svc_exit"}
      /\ context[i] = [sp |-> i, sp_usr |-> i]

\* When a dying task looks for a successor the idle task is READY, so neither
\* the forced revival of idle nor the panic "No runnable tasks" is reached.
IdleAlwaysThere ==
  pc[onCpu] = "pick" /\ state[current_task] = "ZOMBIE" => state[Idle] = "READY"

\* A task whose canary word is gone never leaves the CPU: scheduler_yield
\* checks the caller before it gives way.
CanaryCaught == \A i \in Slot : state[i] = "READY" => canary[i]

\* No tick, switch or earlier yield can clear need_reschedule between the
\* caller's store and the gate of scheduler_yield: no yield is refused.
YieldNeverRefused == pc[onCpu] = "test" => need_reschedule

\* The idle task runs with interrupts masked only as the heir of a task
\* killed in an abort handler; a system call never leaks CPSR.I.
MaskedIdleFollowsAbort ==
  onCpu = Idle /\ ~ Halted /\ irq_masked =>
    \E i \in Slot : state[i] = "ZOMBIE" /\ frame[i] = "abort"

\* A killed task stays killed and never gets the CPU back.
DeadStaysDead ==
  [][\A i \in Slot : state[i] = "ZOMBIE" =>
       /\ state'[i] = "ZOMBIE"
       /\ onCpu' = i => onCpu = i]_vars

\* The scheduler implements RoundRobin: the owner is the context on the CPU
\* and the live tasks are those in the table that are not zombies.
RR == INSTANCE RoundRobin WITH
        N <- MaxTasks, Nobody <- NoTask, owner <- onCpu,
        live <- {i \in Slot : state[i] \in {"READY", "RUNNING"}}
ImplementsRoundRobin == RR!Spec

\* With applications that keep yielding, every READY task gets the CPU.
ReadyRuns == \A t \in Slot : state[t] = "READY" ~> (onCpu = t \/ Halted)

=============================================================================
