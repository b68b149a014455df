--------------------------- MODULE Scheduler_proofs ---------------------------
(***************************************************************************)
(* Proofs about the scheduler, for every MAX_TASKS, number of boot tasks   *)
(* and shell slot.  IInv strengthens the invariants of Scheduler to one    *)
(* that every step preserves: it says, for the boot context and then for   *)
(* each code point of the task on the CPU, what the task table, the books  *)
(* and the parked tasks look like.                                         *)
(***************************************************************************)
EXTENDS Scheduler, WellFoundedInduction, TLAPS

-----------------------------------------------------------------------------
(* The inductive invariant                                                 *)

Parked(i) ==
  /\ pc[i] \in {"wfi", "svc_exit"}
  /\ pc[i] = "wfi" => i = Idle
  /\ context[i] = [sp |-> i, sp_usr |-> i]

\* The table is dense, and a task that can be switched to has its canary.
TableInv ==
  /\ \A i \in Slot : state[i] = "NULL" <=> i >= task_count
  /\ \A i \in Slot : state[i] = "READY" => canary[i]

BootInv ==
  onCpu = NoTask =>
    /\ pc[NoTask] \in {"add", "start", "switch"}
    /\ requests > 0 => task_count > 0
    /\ pc[NoTask] # "add" => requests \in BootTasks /\ ~ irq_masked
    /\ \A i \in Slot : Parked(i) /\ canary[i] /\ state[i] # "ZOMBIE"
    /\ pc[NoTask] # "switch" => \A i \in Slot : state[i] # "RUNNING"
    /\ pc[NoTask] = "switch" =>
         /\ current_task = Idle
         /\ current_task_index = Idle
         /\ \A i \in Slot : state[i] = "RUNNING" <=> i = Idle

IdleLabels == YieldLabels \cup {"idle", "wfi", "asleep", "svc_exit", "halt"}
UserLabels == YieldLabels \cup {"user", "svc_entry", "svc", "svc_exit", "halt"}

\* The task on the CPU, whatever its code point.
RunInv ==
  onCpu # NoTask =>
    /\ pc[onCpu] \in IF onCpu = Idle THEN IdleLabels ELSE UserLabels
    /\ sp_usr = onCpu
    /\ state[Idle] \in {"READY", "RUNNING"}
    /\ \A i \in Slot \ {onCpu} : state[i] \in {"READY", "RUNNING"} => Parked(i)
    /\ pc[onCpu] = "test" => need_reschedule
    /\ pc[onCpu] \in {"pick", "switch"} => canary[onCpu]
    /\ irq_masked /\ pc[onCpu] \notin {"svc_entry", "halt"} =>
         \E i \in Slot : state[i] = "ZOMBIE" /\ frame[i] = "abort"
    /\ pc[onCpu] \in YieldLabels => (frame[onCpu] = "idle" <=> onCpu = Idle)

\* Outside the window of context_switch the books name the task on the CPU.
CurrentInv ==
  onCpu # NoTask /\ pc[onCpu] # "switch" =>
    /\ current_task = onCpu
    /\ current_task_index = onCpu
    /\ \A i \in Slot : state[i] = "RUNNING" => i = onCpu
    /\ state[onCpu] \in {"RUNNING", "ZOMBIE"}
    /\ pc[onCpu] \notin YieldLabels \cup {"halt"} => state[onCpu] = "RUNNING"
    /\ pc[onCpu] \in YieldLabels =>
         (state[onCpu] = "ZOMBIE" <=> frame[onCpu] \in {"sys_exit", "abort"})

\* Inside it they already name the successor.
SwitchInv ==
  onCpu # NoTask /\ pc[onCpu] = "switch" =>
    /\ prev_task = onCpu
    /\ current_task \in Slot \ {onCpu}
    /\ current_task_index = current_task
    /\ \A i \in Slot : state[i] = "RUNNING" <=> i = current_task
    /\ state[onCpu] \in {"READY", "ZOMBIE"}
    /\ state[onCpu] = "ZOMBIE" <=> frame[onCpu] \in {"sys_exit", "abort"}

IInv == TypeOK /\ TableInv /\ BootInv /\ RunInv /\ CurrentInv /\ SwitchInv

-----------------------------------------------------------------------------
(* The search loop                                                         *)

LEMMA SlotFacts ==
  /\ Idle \in Slot
  /\ NoTask \notin Slot
  /\ Context = Slot \cup {NoTask}
BY SchedulerAssumption DEF Slot, Context, NoTask, Idle

LEMMA SlotIsInt == \A i \in Slot : i \in Int
BY DEF Slot

\* The remainder lies below a positive divisor.
LEMMA ModRange == \A n \in Nat \ {0} : \A x \in Int : x % n \in 0 .. n - 1
OBVIOUS

\* Some relation contains < and is well-founded on the naturals.
LEMMA NatOrder ==
  \E R : IsWellFoundedOn(R, Nat) /\ \A y, z \in Nat : y < z => <<y, z>> \in R
<1>1. IsWellFoundedOn(OpToRel(<, Nat), Nat)
  BY NatLessThanWellFounded
<1>2. \A y, z \in Nat : y < z => <<y, z>> \in OpToRel(<, Nat)
  BY Zenon DEF OpToRel
<1> QED BY <1>1, <1>2, Zenon

\* A non-empty set of naturals has a least element.
LEMMA LeastNatural ==
  ASSUME NEW T, T \subseteq Nat, T # {}
  PROVE  \E x \in T : \A y \in T : x <= y
<1>1. PICK R : IsWellFoundedOn(R, Nat) /\ \A y, z \in Nat : y < z => <<y, z>> \in R
  BY NatOrder
<1>2. PICK x \in T : \A y \in T : ~ (<<y, x>> \in R)
  <2>1. IsWellFoundedOn(R, Nat)
    BY <1>1
  <2> QED BY <2>1, WFMin
<1>3. \A y \in T : ~ (y < x)
  BY <1>1, <1>2, Zenon
<1> QED BY <1>3

\* If the loop finds a READY slot there is a first one.
LEMMA FirstFound ==
  ASSUME TypeOK, \E k \in 1 .. SearchBound : FoundAt(k)
  PROVE  \E k \in 1 .. SearchBound : FoundAt(k) /\ \A j \in 1 .. k - 1 : ~ FoundAt(j)
<1> USE SchedulerAssumption
<1> DEFINE Found == {k \in 1 .. SearchBound : FoundAt(k)}
<1>1. PICK k \in Found : \A j \in Found : k <= j
  <2>1. Found \subseteq Nat /\ Found # {}
    BY DEF SearchBound
  <2> HIDE DEF Found
  <2> QED BY <2>1, LeastNatural
<1>2. \A j \in 1 .. k - 1 : ~ FoundAt(j)
  BY <1>1 DEF SearchBound
<1> QED BY <1>1, <1>2

\* The loop stays within tasks[] and stops at a READY task or finds none.
LEMMA CandidateFacts ==
  ASSUME TypeOK
  PROVE  Candidate # current_task => Candidate \in Slot /\ state[Candidate] = "READY"
<1> USE SchedulerAssumption
<1> DEFINE Least(k) == FoundAt(k) /\ \A j \in 1 .. k - 1 : ~ FoundAt(j)
           c == CHOOSE k \in 1 .. SearchBound : Least(k)
<1>1. CASE ~ \E k \in 1 .. SearchBound : FoundAt(k)
  BY <1>1 DEF Candidate
<1>2. CASE \E k \in 1 .. SearchBound : FoundAt(k)
  <2>1. \E k \in 1 .. SearchBound : Least(k)
    BY <1>2, FirstFound
  <2>2. c \in 1 .. SearchBound /\ FoundAt(c)
    BY <2>1
  <2>3. Candidate = After(c)
    BY <1>2 DEF Candidate
  <2>4. After(c) \in Slot
    <3>1. MaxTasks \in Nat \ {0} /\ SearchStart + c \in Int
      BY <2>2 DEF SearchStart, SearchBound, TypeOK, Slot
    <3> HIDE DEF c
    <3> QED BY <3>1, ModRange DEF After, Slot
  <2> QED BY <2>2, <2>3, <2>4 DEF FoundAt
<1> QED BY <1>1, <1>2

\* The loop index wraps once around tasks[].
LEMMA ModWrap ==
  ASSUME NEW n \in Nat \ {0}, NEW i \in 0 .. n - 1
  PROVE  i % n = i /\ (i + n) % n = i
<1>1. (i + n) % n = i % n
  OBVIOUS
<1> QED BY <1>1

\* The loop visits every slot.
LEMMA EverySlotVisited ==
  ASSUME TypeOK, NEW i \in Slot, i # current_task_index
  PROVE  \E k \in 1 .. SearchBound : After(k) = i
<1> USE SchedulerAssumption
<1>1. i \in 0 .. MaxTasks - 1 /\ current_task_index \in 0 .. MaxTasks - 1
  BY DEF TypeOK, Slot
<1>2. i % MaxTasks = i /\ (i + MaxTasks) % MaxTasks = i
  BY <1>1, ModWrap
<1>3. CASE i > current_task_index
  <2> DEFINE k == i - current_task_index
  <2>1. k \in 1 .. MaxTasks /\ current_task_index + k = i
    BY <1>1, <1>3
  <2> QED BY <1>2, <2>1 DEF After, SearchStart, SearchBound
<1>4. CASE i < current_task_index
  <2> DEFINE k == i - current_task_index + MaxTasks
  <2>1. k \in 1 .. MaxTasks /\ current_task_index + k = i + MaxTasks
    BY <1>1, <1>4
  <2> QED BY <1>2, <2>1 DEF After, SearchStart, SearchBound
<1> QED BY <1>1, <1>3, <1>4

\* When another slot is READY the search does not end at the caller.
LEMMA SearchFinds ==
  ASSUME TypeOK, current_task = current_task_index, state[current_task] # "READY",
         NEW i \in Slot, state[i] = "READY"
  PROVE  Candidate # current_task
<1> DEFINE Least(k) == FoundAt(k) /\ \A j \in 1 .. k - 1 : ~ FoundAt(j)
           c == CHOOSE k \in 1 .. SearchBound : Least(k)
<1>1. \E k \in 1 .. SearchBound : FoundAt(k)
  BY EverySlotVisited DEF FoundAt
<1>2. \E k \in 1 .. SearchBound : Least(k)
  BY <1>1, FirstFound
<1>3. FoundAt(c)
  BY <1>2
<1>4. Candidate = After(c)
  BY <1>1 DEF Candidate
<1> QED BY <1>3, <1>4 DEF FoundAt

-----------------------------------------------------------------------------
(* One lemma per action: it preserves IInv                                 *)

\* A task is added in the first free slot, or refused.
LEMMA scheduler_add_task_Step ==
  ASSUME IInv, scheduler_add_task
  PROVE  IInv'
<1> USE SlotFacts, SchedulerAssumption
    DEF IInv, TypeOK, scheduler_add_task, At, table, books, cpu
<1>1. requests' \in Nat
  OBVIOUS
<1>2. CASE TableFull
  <2>1. task_count > 0
    BY <1>2 DEF TableFull
  <2>2. TypeOK'
    BY <1>1, <1>2
  <2>3. BootInv'
    BY <1>2, <2>1 DEF BootInv, Parked
  <2> QED BY <1>2, <2>2, <2>3 DEF TableInv, RunInv, CurrentInv, SwitchInv
<1>3. CASE ~ TableFull
  <2>1. task_count \in Slot
    BY <1>3 DEF TableFull, Slot
  <2>2. /\ state' = [state EXCEPT ![task_count] = "READY"]
        /\ task_count' = task_count + 1
        /\ canary' = canary
    BY <1>3
  <2>3. TypeOK'
    <3>1. task_count' \in 0 .. MaxTasks
      BY <2>1, <2>2 DEF Slot
    <3>2. state' \in [Slot -> States]
      BY <2>1, <2>2 DEF States
    <3> QED BY <1>1, <2>2, <3>1, <3>2
  <2>4. TableInv'
    BY <2>1, <2>2, SlotIsInt DEF TableInv, BootInv
  <2>5. BootInv'
    BY <2>1, <2>2 DEF BootInv, Parked
  <2> QED BY <2>3, <2>4, <2>5 DEF RunInv, CurrentInv, SwitchInv
<1> QED BY <1>2, <1>3

\* The boot context unmasks interrupts.
LEMMA irq_enable_Step ==
  ASSUME IInv, irq_enable
  PROVE  IInv'
<1> USE SlotFacts DEF IInv, TypeOK, irq_enable, At, Goto, table, books, cpu
<1>1. TypeOK'
  <2>1. pc' \in [Context -> Labels]
    BY DEF Labels
  <2>2. irq_masked' \in BOOLEAN
    OBVIOUS
  <2> QED BY <2>1, <2>2
<1>2. BootInv'
  BY DEF BootInv, Parked
<1> QED BY <1>1, <1>2 DEF TableInv, RunInv, CurrentInv, SwitchInv

\* The idle task becomes current_task.
LEMMA scheduler_start_Step ==
  ASSUME IInv, scheduler_start
  PROVE  IInv'
<1> USE SlotFacts DEF IInv, TypeOK, scheduler_start, At, Goto, table, books, cpu
<1>1. TypeOK'
  <2>1. pc' \in [Context -> Labels]
    BY DEF Labels, YieldLabels
  <2>2. state' \in [Slot -> States]
    BY DEF States
  <2>3. scheduler_started' \in BOOLEAN
    OBVIOUS
  <2>4. current_task' \in Context /\ current_task_index' \in Slot
    BY DEF Idle
  <2> QED BY <2>1, <2>2, <2>3, <2>4
<1>2. TableInv'
  BY SlotIsInt DEF TableInv, BootInv, Idle
<1>3. BootInv'
  BY DEF BootInv, Parked, Idle
<1> QED BY <1>1, <1>2, <1>3 DEF RunInv, CurrentInv, SwitchInv

\* The CPU enters the idle task.
LEMMA start_first_task_Step ==
  ASSUME IInv, start_first_task
  PROVE  IInv'
<1> USE SlotFacts
    DEF IInv, TypeOK, start_first_task, Load, At, table, books, cpu, BootInv, Parked
<1>1. onCpu' = Idle /\ sp_usr' = Idle
  OBVIOUS
<1>2. TypeOK'
  BY <1>1
<1>3. RunInv'
  BY <1>1 DEF RunInv, IdleLabels, YieldLabels
<1>4. CurrentInv' /\ SwitchInv'
  BY <1>1 DEF CurrentInv, SwitchInv, YieldLabels
<1> QED BY <1>1, <1>2, <1>3, <1>4 DEF TableInv

\* The idle loop enters scheduler_yield.
LEMMA idle_task_Step ==
  ASSUME IInv, NEW t \in Slot, idle_task(t)
  PROVE  IInv'
<1> USE SlotFacts DEF IInv, TypeOK, idle_task, CallYield, At, Goto, table, books, cpu
<1>1. TypeOK'
  <2>1. pc' \in [Context -> Labels]
    BY DEF Labels, YieldLabels
  <2>2. need_reschedule' \in BOOLEAN /\ irq_masked' \in BOOLEAN
    OBVIOUS
  <2> QED BY <2>1, <2>2 DEF Callers
<1>2. TableInv' /\ BootInv' /\ SwitchInv'
  BY DEF TableInv, BootInv, SwitchInv, Parked
<1>3. RunInv'
  BY DEF RunInv, CurrentInv, Parked, IdleLabels, UserLabels, YieldLabels
<1>4. CurrentInv'
  BY DEF RunInv, CurrentInv, IdleLabels, UserLabels, YieldLabels
<1> QED BY <1>1, <1>2, <1>3, <1>4

\* A task yields.
LEMMA sys_yield_Step ==
  ASSUME IInv, NEW t \in Slot, sys_yield(t)
  PROVE  IInv'
<1> USE SlotFacts DEF IInv, TypeOK, sys_yield, CallYield, At, Goto, table, books, cpu
<1>1. TypeOK'
  <2>1. pc' \in [Context -> Labels]
    BY DEF Labels, YieldLabels
  <2>2. need_reschedule' \in BOOLEAN /\ irq_masked' \in BOOLEAN
    OBVIOUS
  <2> QED BY <2>1, <2>2 DEF Callers
<1>2. TableInv' /\ BootInv' /\ SwitchInv'
  BY DEF TableInv, BootInv, SwitchInv, Parked
<1>3. RunInv'
  BY DEF RunInv, CurrentInv, Parked, IdleLabels, UserLabels, YieldLabels
<1>4. CurrentInv'
  BY DEF RunInv, CurrentInv, IdleLabels, UserLabels, YieldLabels
<1> QED BY <1>1, <1>2, <1>3, <1>4

\* The gate of scheduler_yield lets the caller through.
LEMMA YieldTest_Step ==
  ASSUME IInv, NEW t \in Slot, YieldTest(t)
  PROVE  IInv'
<1> USE SlotFacts DEF IInv, TypeOK, YieldTest, ResumeLabel, At, Goto, table, books, cpu
<1>1. TypeOK'
  <2>1. pc' \in [Context -> Labels]
    BY DEF Labels, YieldLabels
  <2>2. need_reschedule' \in BOOLEAN /\ irq_masked' \in BOOLEAN
    OBVIOUS
  <2> QED BY <2>1, <2>2 DEF Callers
<1>2. TableInv' /\ BootInv' /\ SwitchInv'
  BY DEF TableInv, BootInv, SwitchInv, Parked
<1>3. RunInv'
  BY DEF RunInv, CurrentInv, Parked, IdleLabels, UserLabels, YieldLabels
<1>4. CurrentInv'
  BY DEF RunInv, CurrentInv, IdleLabels, UserLabels, YieldLabels
<1> QED BY <1>1, <1>2, <1>3, <1>4

\* The flag is cleared.
LEMMA YieldClear_Step ==
  ASSUME IInv, NEW t \in Slot, YieldClear(t)
  PROVE  IInv'
<1> USE SlotFacts DEF IInv, TypeOK, YieldClear, At, Goto, table, books, cpu
<1>1. TypeOK'
  <2>1. pc' \in [Context -> Labels]
    BY DEF Labels, YieldLabels
  <2>2. need_reschedule' \in BOOLEAN /\ irq_masked' \in BOOLEAN
    OBVIOUS
  <2> QED BY <2>1, <2>2 DEF Callers
<1>2. TableInv' /\ BootInv' /\ SwitchInv'
  BY DEF TableInv, BootInv, SwitchInv, Parked
<1>3. RunInv'
  BY DEF RunInv, CurrentInv, Parked, IdleLabels, UserLabels, YieldLabels
<1>4. CurrentInv'
  BY DEF RunInv, CurrentInv, IdleLabels, UserLabels, YieldLabels
<1> QED BY <1>1, <1>2, <1>3, <1>4

\* A task leaves the kernel.
LEMMA svc_exit_trampoline_Step ==
  ASSUME IInv, NEW t \in Slot, svc_exit_trampoline(t)
  PROVE  IInv'
<1> USE SlotFacts DEF IInv, TypeOK, svc_exit_trampoline, At, Goto, table, books, cpu
<1>1. TypeOK'
  <2>1. pc' \in [Context -> Labels]
    BY DEF Labels, YieldLabels
  <2>2. need_reschedule' \in BOOLEAN /\ irq_masked' \in BOOLEAN
    OBVIOUS
  <2> QED BY <2>1, <2>2 DEF Callers
<1>2. TableInv' /\ BootInv' /\ SwitchInv'
  BY DEF TableInv, BootInv, SwitchInv, Parked
<1>3. RunInv'
  BY DEF RunInv, CurrentInv, Parked, IdleLabels, UserLabels, YieldLabels
<1>4. CurrentInv'
  BY DEF RunInv, CurrentInv, IdleLabels, UserLabels, YieldLabels
<1> QED BY <1>1, <1>2, <1>3, <1>4

\* A task traps.
LEMMA svc_Step ==
  ASSUME IInv, NEW t \in Slot, svc(t)
  PROVE  IInv'
<1> USE SlotFacts DEF IInv, TypeOK, svc, At, Goto, table, books, cpu
<1>1. TypeOK'
  <2>1. pc' \in [Context -> Labels]
    BY DEF Labels, YieldLabels
  <2>2. need_reschedule' \in BOOLEAN /\ irq_masked' \in BOOLEAN
    OBVIOUS
  <2> QED BY <2>1, <2>2 DEF Callers
<1>2. TableInv' /\ BootInv' /\ SwitchInv'
  BY DEF TableInv, BootInv, SwitchInv, Parked
<1>3. RunInv'
  BY DEF RunInv, CurrentInv, Parked, IdleLabels, UserLabels, YieldLabels
<1>4. CurrentInv'
  BY DEF RunInv, CurrentInv, IdleLabels, UserLabels, YieldLabels
<1> QED BY <1>1, <1>2, <1>3, <1>4

\* The SVC vector unmasks interrupts.
LEMMA exception_entry_svc_Step ==
  ASSUME IInv, NEW t \in Slot, exception_entry_svc(t)
  PROVE  IInv'
<1> USE SlotFacts DEF IInv, TypeOK, exception_entry_svc, EntryMask, At, Goto, table, books, cpu
<1>1. TypeOK'
  <2>1. pc' \in [Context -> Labels]
    BY DEF Labels, YieldLabels
  <2>2. need_reschedule' \in BOOLEAN /\ irq_masked' \in BOOLEAN
    OBVIOUS
  <2> QED BY <2>1, <2>2 DEF Callers
<1>2. TableInv' /\ BootInv' /\ SwitchInv'
  BY DEF TableInv, BootInv, SwitchInv, Parked
<1>3. RunInv'
  BY DEF RunInv, CurrentInv, Parked, IdleLabels, UserLabels, YieldLabels
<1>4. CurrentInv'
  BY DEF RunInv, CurrentInv, IdleLabels, UserLabels, YieldLabels
<1> QED BY <1>1, <1>2, <1>3, <1>4

\* A system call returns.
LEMMA svc_return_Step ==
  ASSUME IInv, NEW t \in Slot, svc_return(t)
  PROVE  IInv'
<1> USE SlotFacts DEF IInv, TypeOK, svc_return, At, Goto, table, books, cpu
<1>1. TypeOK'
  <2>1. pc' \in [Context -> Labels]
    BY DEF Labels, YieldLabels
  <2>2. need_reschedule' \in BOOLEAN /\ irq_masked' \in BOOLEAN
    OBVIOUS
  <2> QED BY <2>1, <2>2 DEF Callers
<1>2. TableInv' /\ BootInv' /\ SwitchInv'
  BY DEF TableInv, BootInv, SwitchInv, Parked
<1>3. RunInv'
  BY DEF RunInv, CurrentInv, Parked, IdleLabels, UserLabels, YieldLabels
<1>4. CurrentInv'
  BY DEF RunInv, CurrentInv, IdleLabels, UserLabels, YieldLabels
<1> QED BY <1>1, <1>2, <1>3, <1>4

\* An undefined instruction halts.
LEMMA handle_undefined_instruction_Step ==
  ASSUME IInv, NEW t \in Slot, handle_undefined_instruction(t)
  PROVE  IInv'
<1> USE SlotFacts DEF IInv, TypeOK, handle_undefined_instruction, Panic, At, Goto, table, books, cpu
<1>1. TypeOK'
  <2>1. pc' \in [Context -> Labels]
    BY DEF Labels, YieldLabels
  <2>2. need_reschedule' \in BOOLEAN /\ irq_masked' \in BOOLEAN
    OBVIOUS
  <2> QED BY <2>1, <2>2 DEF Callers
<1>2. TableInv' /\ BootInv' /\ SwitchInv'
  BY DEF TableInv, BootInv, SwitchInv, Parked
<1>3. RunInv'
  BY DEF RunInv, CurrentInv, Parked, IdleLabels, UserLabels, YieldLabels
<1>4. CurrentInv'
  BY DEF RunInv, CurrentInv, IdleLabels, UserLabels, YieldLabels
<1> QED BY <1>1, <1>2, <1>3, <1>4

\* A device raises its line.
LEMMA Raise_Step ==
  ASSUME IInv, NEW src \in Sources, Raise(src)
  PROVE  IInv'
<1> USE SlotFacts DEF IInv, TypeOK, Raise, At, Goto, table, books, cpu
<1>1. TypeOK'
  <2>1. pc' \in [Context -> Labels]
    BY DEF Labels, YieldLabels
  <2>2. need_reschedule' \in BOOLEAN /\ irq_masked' \in BOOLEAN
    OBVIOUS
  <2> QED BY <2>1, <2>2 DEF Callers
<1>2. TableInv' /\ BootInv' /\ SwitchInv'
  BY DEF TableInv, BootInv, SwitchInv, Parked
<1>3. RunInv'
  BY DEF RunInv, CurrentInv, Parked, IdleLabels, UserLabels, YieldLabels
<1>4. CurrentInv'
  BY DEF RunInv, CurrentInv, IdleLabels, UserLabels, YieldLabels
<1> QED BY <1>1, <1>2, <1>3, <1>4

\* An interrupt is served.
LEMMA exception_entry_irq_Step ==
  ASSUME IInv, NEW src \in Sources, exception_entry_irq(src)
  PROVE  IInv'
<1> USE SlotFacts DEF IInv, TypeOK, exception_entry_irq, scheduler_tick, At, Goto, table, books, cpu
<1>1. TypeOK'
  <2>1. pc' \in [Context -> Labels]
    BY DEF Labels, YieldLabels
  <2>2. need_reschedule' \in BOOLEAN /\ irq_masked' \in BOOLEAN
    OBVIOUS
  <2> QED BY <2>1, <2>2 DEF Callers
<1>2. TableInv' /\ BootInv' /\ SwitchInv'
  BY DEF TableInv, BootInv, SwitchInv, Parked
<1>3. RunInv'
  BY DEF RunInv, CurrentInv, Parked, IdleLabels, UserLabels, YieldLabels
<1>4. CurrentInv'
  BY DEF RunInv, CurrentInv, IdleLabels, UserLabels, YieldLabels
<1> QED BY <1>1, <1>2, <1>3, <1>4

\* The idle task reaches WFI.
LEMMA wfi_Step ==
  ASSUME IInv, NEW t \in Slot, wfi(t)
  PROVE  IInv'
<1> USE SlotFacts DEF IInv, TypeOK, wfi, At, Goto, table, books, cpu
<1>1. TypeOK'
  <2>1. pc' \in [Context -> Labels]
    BY DEF Labels, YieldLabels
  <2>2. need_reschedule' \in BOOLEAN /\ irq_masked' \in BOOLEAN
    OBVIOUS
  <2> QED BY <2>1, <2>2 DEF Callers
<1>2. TableInv' /\ BootInv' /\ SwitchInv'
  BY DEF TableInv, BootInv, SwitchInv, Parked
<1>3. RunInv'
  BY DEF RunInv, CurrentInv, Parked, IdleLabels, UserLabels, YieldLabels
<1>4. CurrentInv'
  BY DEF RunInv, CurrentInv, IdleLabels, UserLabels, YieldLabels
<1> QED BY <1>1, <1>2, <1>3, <1>4

\* WFI wakes with interrupts masked.
LEMMA WakeMasked_Step ==
  ASSUME IInv, NEW t \in Slot, WakeMasked(t)
  PROVE  IInv'
<1> USE SlotFacts DEF IInv, TypeOK, WakeMasked, At, Goto, table, books, cpu
<1>1. TypeOK'
  <2>1. pc' \in [Context -> Labels]
    BY DEF Labels, YieldLabels
  <2>2. need_reschedule' \in BOOLEAN /\ irq_masked' \in BOOLEAN
    OBVIOUS
  <2> QED BY <2>1, <2>2 DEF Callers
<1>2. TableInv' /\ BootInv' /\ SwitchInv'
  BY DEF TableInv, BootInv, SwitchInv, Parked
<1>3. RunInv'
  BY DEF RunInv, CurrentInv, Parked, IdleLabels, UserLabels, YieldLabels
<1>4. CurrentInv'
  BY DEF RunInv, CurrentInv, IdleLabels, UserLabels, YieldLabels
<1> QED BY <1>1, <1>2, <1>3, <1>4

\* A task dies, by sys_exit or by an abort: its mark turns to ZOMBIE.
LEMMA Terminate_Step ==
  ASSUME IInv, NEW t \in Slot, NEW caller \in {"sys_exit", "abort"},
         onCpu = t, pc[t] \in {"user", "svc"},
         scheduler_terminate_task(t, caller),
         irq_masked' \in BOOLEAN,
         irq_masked' => irq_masked \/ caller = "abort",
         t # Idle
  PROVE  IInv'
<1> USE SlotFacts
    DEF IInv, TypeOK, scheduler_terminate_task, CallYield, Goto, table, books, cpu
<1>1. current_task = t
  BY DEF CurrentInv
<1>2. TypeOK'
  <2>1. pc' \in [Context -> Labels] /\ frame' \in [Slot -> Callers]
    BY DEF Labels, YieldLabels, Callers
  <2>2. state' \in [Slot -> States] /\ need_reschedule' \in BOOLEAN
    BY DEF States
  <2> QED BY <2>1, <2>2
<1>3. TableInv'
  BY <1>1, SlotIsInt DEF TableInv, CurrentInv, YieldLabels
<1>4. BootInv'
  BY DEF BootInv
<1>5. RunInv'
  BY <1>1 DEF RunInv, CurrentInv, Parked, IdleLabels, UserLabels, YieldLabels
<1>6. CurrentInv'
  BY <1>1 DEF RunInv, CurrentInv, YieldLabels
<1>7. SwitchInv'
  BY DEF SwitchInv
<1> QED BY <1>2, <1>3, <1>4, <1>5, <1>6, <1>7

\* Only tasks other than idle run user code or system calls.
LEMMA UserIsNotIdle ==
  ASSUME IInv, NEW t \in Slot, onCpu = t, pc[t] \in {"user", "svc"}
  PROVE  t # Idle
BY SlotFacts DEF IInv, RunInv, IdleLabels, YieldLabels

\* sys_exit of the shell returns to it, of any other task kills it.
LEMMA sys_exit_Step ==
  ASSUME IInv, NEW t \in Slot, sys_exit(t)
  PROVE  IInv'
<1> USE SlotFacts DEF At
<1>1. onCpu = t /\ pc[t] = "svc" /\ irq_masked' = irq_masked
  BY DEF sys_exit
<1>2. CASE current_task = Shell
  <2>1. svc_return(t)
    BY <1>2 DEF sys_exit, svc_return
  <2> QED BY <2>1, svc_return_Step
<1>3. CASE current_task # Shell
  <2>1. scheduler_terminate_task(t, "sys_exit")
    BY <1>3 DEF sys_exit
  <2>2. irq_masked' \in BOOLEAN
    BY <1>1 DEF IInv, TypeOK
  <2> QED BY <1>1, <2>1, <2>2, UserIsNotIdle, Terminate_Step
<1> QED BY <1>2, <1>3

\* A user-mode abort kills the task with interrupts masked.
LEMMA handle_abort_Step ==
  ASSUME IInv, NEW t \in Slot, handle_abort(t)
  PROVE  IInv'
<1> USE DEF At
<1>1. onCpu = t /\ pc[t] = "user" /\ scheduler_terminate_task(t, "abort")
  BY DEF handle_abort
<1>2. irq_masked' \in BOOLEAN
  BY DEF handle_abort
<1> QED BY <1>1, <1>2, UserIsNotIdle, Terminate_Step

\* The canary of the caller is checked; with one task the call returns.
LEMMA YieldCheck_Step ==
  ASSUME IInv, NEW t \in Slot, YieldCheck(t)
  PROVE  IInv'
<1> USE SlotFacts
    DEF IInv, TypeOK, YieldCheck, CanaryIntact, Panic, ResumeLabel, At, Goto, table,
        books, cpu
<1>1. TypeOK'
  <2>1. pc' \in [Context -> Labels]
    BY ZenonT(40) DEF Labels, YieldLabels
  <2>2. irq_masked' \in BOOLEAN
    OBVIOUS
  <2> QED BY <2>1, <2>2
<1>2. task_count = 1 => t = Idle
  BY SlotIsInt DEF TableInv, CurrentInv, Slot, Idle
<1>3. TableInv'
  BY DEF TableInv
<1>4. BootInv'
  BY DEF BootInv
<1>5. RunInv'
  BY DEF RunInv, CurrentInv, Parked, IdleLabels, UserLabels, YieldLabels
<1>6. CurrentInv'
  BY <1>2 DEF RunInv, CurrentInv, YieldLabels
<1>7. SwitchInv'
  BY DEF SwitchInv
<1> QED BY <1>1, <1>3, <1>4, <1>5, <1>6, <1>7

\* The caller gives way to the READY task the search found.
LEMMA PickNext_Step ==
  ASSUME IInv, NEW t \in Slot, PickNext(t)
  PROVE  IInv'
<1> DEFINE i == Candidate
<1>1. i \in Slot /\ state[i] = "READY"
  BY CandidateFacts DEF IInv, PickNext
<1> USE SlotFacts DEF IInv, TypeOK, PickNext, Commit, Demote, At, Goto, table, books, cpu
<1> HIDE DEF i
<1>2. /\ onCpu = t /\ pc[t] = "pick" /\ i # current_task /\ current_task = t
      /\ state' = [state EXCEPT ![t] = Demote(@), ![i] = "RUNNING"]
      /\ prev_task' = t /\ current_task' = i /\ current_task_index' = i
      /\ pc' = [pc EXCEPT ![t] = "switch"]
  BY DEF CurrentInv, i
<1>3. TypeOK'
  <2>1. pc' \in [Context -> Labels]
    BY <1>2 DEF Labels, YieldLabels
  <2>2. state' \in [Slot -> States]
    BY <1>1, <1>2, SMTT(30) DEF States
  <2> QED BY <1>1, <1>2, <2>1, <2>2
<1>4. state[t] \in {"RUNNING", "ZOMBIE"} /\ canary[t]
  BY <1>2 DEF CurrentInv, RunInv
<1>5. TableInv'
  <2>1. \A j \in Slot : state'[j] = "NULL" <=> state[j] = "NULL"
    BY <1>1, <1>2, <1>4
  <2>2. \A j \in Slot : state'[j] = "READY" => state[j] = "READY" \/ j = t
    BY <1>1, <1>2
  <2> QED BY <1>4, <2>1, <2>2 DEF TableInv
<1>6. BootInv'
  BY <1>2 DEF BootInv
<1>7. RunInv'
  BY <1>1, <1>2, <1>4 DEF RunInv, CurrentInv, Parked, IdleLabels, UserLabels, YieldLabels
<1>8. CurrentInv'
  BY <1>2 DEF CurrentInv
<1>9. SwitchInv'
  BY <1>1, <1>2, <1>4 DEF CurrentInv, SwitchInv, YieldLabels
<1> QED BY <1>3, <1>5, <1>6, <1>7, <1>8, <1>9

\* A dead caller is never left without a successor: the search has found idle.
LEMMA LiveCaller ==
  ASSUME IInv, NEW t \in Slot, PickNone(t)
  PROVE  current_task = t /\ state[t] # "ZOMBIE"
<1> USE SlotFacts DEF IInv, TypeOK, At
<1>1. onCpu = t /\ pc[t] = "pick" /\ current_task = t
  BY DEF PickNone, CurrentInv
<1> SUFFICES ASSUME state[t] = "ZOMBIE"
             PROVE  FALSE
  BY <1>1
<1>2. state[Idle] = "READY" /\ Idle # t
  BY <1>1 DEF RunInv, CurrentInv
<1>3. current_task_index = current_task
  BY <1>1 DEF CurrentInv
<1>4. Candidate # current_task
  BY <1>1, <1>2, <1>3, SearchFinds
<1> QED BY <1>4 DEF PickNone

\* Nothing to switch to: idle is READY when the caller is dead, so the search
\* has found it; a live caller returns.
LEMMA PickNone_Step ==
  ASSUME IInv, NEW t \in Slot, PickNone(t)
  PROVE  IInv'
<1> USE SlotFacts DEF IInv, TypeOK, At, Goto, table, books, cpu
<1>1. onCpu = t /\ pc[t] = "pick" /\ current_task = t
  BY DEF PickNone, CurrentInv
<1>2. state[t] # "ZOMBIE"
  BY <1>1, LiveCaller
<1>3. /\ pc' = [pc EXCEPT ![t] = ResumeLabel(frame[t])]
      /\ UNCHANGED <<table, books, cpu, need_reschedule, requests, frame, irq_masked,
                     pending>>
  BY <1>1, <1>2 DEF PickNone
<1>4. frame[t] # "abort"
  BY <1>1, <1>2 DEF CurrentInv, YieldLabels
<1>5. TypeOK'
  BY <1>3 DEF Labels, ResumeLabel
<1>6. TableInv'
  BY <1>3 DEF TableInv
<1>7. BootInv'
  BY <1>1, <1>3 DEF BootInv
<1>8. RunInv'
  BY <1>1, <1>3, <1>4
     DEF RunInv, CurrentInv, ResumeLabel, Parked, IdleLabels, UserLabels, YieldLabels
<1>9. CurrentInv' /\ SwitchInv'
  BY <1>1, <1>2, <1>3, <1>4 DEF CurrentInv, SwitchInv, ResumeLabel, YieldLabels
<1> QED BY <1>5, <1>6, <1>7, <1>8, <1>9

\* The stacks are exchanged: the successor is on the CPU.
LEMMA context_switch_Step ==
  ASSUME IInv, NEW t \in Slot, context_switch(t)
  PROVE  IInv'
<1> USE SlotFacts
    DEF IInv, TypeOK, context_switch, Save, Load, ResumeLabel, At, Goto, table, books, cpu
<1>1. onCpu = t /\ pc[t] = "switch" /\ prev_task = t /\ sp_usr = t
  BY DEF RunInv, SwitchInv
<1>2. current_task \in Slot \ {t} /\ Parked(current_task)
  BY <1>1 DEF RunInv, SwitchInv
<1>3. onCpu' = current_task /\ sp_usr' = current_task
  BY <1>1, <1>2 DEF Parked
<1>4. TypeOK'
  <2>1. pc' \in [Context -> Labels]
    BY DEF Labels
  <2> QED BY <1>1, <1>2, <1>3, <2>1
<1>5. BootInv'
  BY <1>2, <1>3 DEF BootInv
<1>6. RunInv'
  BY <1>1, <1>2, <1>3
     DEF RunInv, SwitchInv, Parked, IdleLabels, UserLabels, YieldLabels
<1>7. CurrentInv' /\ SwitchInv'
  BY <1>1, <1>2, <1>3 DEF SwitchInv, CurrentInv, Parked, YieldLabels
<1> QED BY <1>4, <1>5, <1>6, <1>7 DEF TableInv

\* A running task loses its canary: it is RUNNING, so no READY task does.
LEMMA StackOverflow_Step ==
  ASSUME IInv, NEW t \in Slot, StackOverflow(t)
  PROVE  IInv'
<1> USE SlotFacts DEF IInv, TypeOK, StackOverflow, At, table, books, cpu
<1>1. state[t] = "RUNNING"
  BY DEF CurrentInv, YieldLabels
<1>2. TableInv'
  BY <1>1 DEF TableInv
<1>3. RunInv'
  BY DEF RunInv, Parked
<1> QED BY <1>2, <1>3 DEF BootInv, CurrentInv, SwitchInv

-----------------------------------------------------------------------------
(* The invariant                                                           *)

LEMMA Initially == Init => IInv
<1> SUFFICES ASSUME Init
             PROVE  IInv
  OBVIOUS
<1> USE SlotFacts, SchedulerAssumption DEF Init
<1>1. TypeOK
  <2>1. current_task_index \in Slot
    BY DEF Idle
  <2>2. /\ scheduler_started \in BOOLEAN /\ need_reschedule \in BOOLEAN
        /\ irq_masked \in BOOLEAN
    OBVIOUS
  <2>3. canary \in [Slot -> BOOLEAN]
    BY Zenon
  <2>4. pc \in [Context -> Labels]
    BY DEF Labels
  <2>5. context \in [Slot -> [sp : Slot, sp_usr : Slot]]
    OBVIOUS
  <2>6. state \in [Slot -> States] /\ frame \in [Slot -> Callers]
    BY DEF States, Callers
  <2> QED BY <2>1, <2>2, <2>3, <2>4, <2>5, <2>6 DEF TypeOK
<1>2. TableInv
  BY SlotIsInt DEF TableInv, Slot
<1>3. BootInv
  BY DEF BootInv, Parked
<1> QED BY <1>1, <1>2, <1>3 DEF IInv, RunInv, CurrentInv, SwitchInv

LEMMA Stutter ==
  ASSUME IInv, UNCHANGED vars
  PROVE  IInv'
BY DEF IInv, TypeOK, TableInv, BootInv, RunInv, CurrentInv, SwitchInv, Parked, vars,
       table, books, cpu

LEMMA Inductive == IInv /\ [Next]_vars => IInv'
<1> SUFFICES ASSUME IInv, [Next]_vars
             PROVE  IInv'
  OBVIOUS
<1>1. CASE Boot
  BY <1>1, scheduler_add_task_Step, irq_enable_Step, scheduler_start_Step,
     start_first_task_Step DEF Boot
<1>2. ASSUME NEW t \in Slot, Kernel(t)
      PROVE  IInv'
  BY <1>2, idle_task_Step, YieldTest_Step, YieldClear_Step, YieldCheck_Step,
     PickNext_Step, PickNone_Step, context_switch_Step, wfi_Step, WakeMasked_Step,
     svc_exit_trampoline_Step, exception_entry_svc_Step DEF Kernel, scheduler_yield
<1>3. ASSUME NEW t \in Slot, svc(t) \/ Syscall(t)
      PROVE  IInv'
  BY <1>3, svc_Step, sys_yield_Step, sys_exit_Step, svc_return_Step DEF Syscall
<1>4. ASSUME NEW t \in Slot, Faults(t)
      PROVE  IInv'
  BY <1>4, handle_abort_Step, handle_undefined_instruction_Step, StackOverflow_Step
     DEF Faults
<1>5. ASSUME NEW src \in Sources, Raise(src) \/ exception_entry_irq(src)
      PROVE  IInv'
  BY <1>5, Raise_Step, exception_entry_irq_Step
<1>6. CASE Spin \/ UNCHANGED vars
  BY <1>6, Stutter DEF Spin
<1> QED BY <1>1, <1>2, <1>3, <1>4, <1>5, <1>6 DEF Next

\* IInv is an invariant of the scheduler.
THEOREM Invariance == Spec => []IInv
<1> QED BY Initially, Inductive, PTL DEF Spec

-----------------------------------------------------------------------------
(* What the runs check, for every value of the constants                   *)

\* The table never overflows and every variable stays in its range, however
\* many tasks kernel_main tries to add.
THEOREM TypeCorrect == Spec => []TypeOK
<1>1. IInv => TypeOK
  BY DEF IInv
<1> QED BY <1>1, Invariance, PTL

\* The books of scheduler_yield name the task on the CPU, for which both
\* stacks have been exchanged, and only that task is RUNNING.
THEOREM BooksTheorem == Spec => []BooksAgree
<1>1. IInv => BooksAgree
  BY DEF IInv, BooksAgree, RunInv, CurrentInv
<1> QED BY <1>1, Invariance, PTL

\* Whatever task scheduler_yield picks, its context is its own and complete.
THEOREM ResumableTheorem == Spec => []ReadyIsResumable
<1>1. IInv => ReadyIsResumable
  BY SlotFacts DEF IInv, TypeOK, ReadyIsResumable, BootInv, RunInv, Parked
<1> QED BY <1>1, Invariance, PTL

\* The revival of a dead idle task and the panic "No runnable tasks" are dead
\* code: a dying task always finds the idle task READY.
THEOREM IdleTheorem == Spec => []IdleAlwaysThere
<1>1. IInv => IdleAlwaysThere
  BY SlotFacts DEF IInv, TypeOK, IdleAlwaysThere, BootInv, RunInv, CurrentInv
<1> QED BY <1>1, Invariance, PTL

\* No task with a smashed canary is ever left for the scheduler to pick.
THEOREM CanaryTheorem == Spec => []CanaryCaught
<1>1. IInv => CanaryCaught
  BY DEF IInv, CanaryCaught, TableInv
<1> QED BY <1>1, Invariance, PTL

\* need_reschedule survives every interrupt between store and gate.
THEOREM YieldTheorem == Spec => []YieldNeverRefused
<1>1. IInv => YieldNeverRefused
  BY SlotFacts DEF IInv, TypeOK, YieldNeverRefused, BootInv, RunInv
<1> QED BY <1>1, Invariance, PTL

\* Interrupts stay masked in the idle task only after an abort.
THEOREM MaskTheorem == Spec => []MaskedIdleFollowsAbort
<1>1. IInv => MaskedIdleFollowsAbort
  BY SlotFacts
     DEF IInv, TypeOK, MaskedIdleFollowsAbort, RunInv, Halted, IdleLabels, YieldLabels
<1> QED BY <1>1, Invariance, PTL

\* Every step leaves the dead dead: the slot filled at boot was NULL, the task
\* that scheduler_yield picks was READY and the one it switches to RUNNING.
LEMMA DeadStep ==
  ASSUME IInv, [Next]_vars, NEW z \in Slot, state[z] = "ZOMBIE"
  PROVE  state'[z] = "ZOMBIE" /\ (onCpu' = z => onCpu = z)
<1> USE SlotFacts DEF IInv, TypeOK, At, table, books, cpu
<1>1. CASE Boot
  <2>1. onCpu = NoTask
    BY <1>1
       DEF Boot, scheduler_add_task, irq_enable, scheduler_start, start_first_task
  <2> QED BY <2>1 DEF BootInv
<1>2. ASSUME NEW t \in Slot, PickNext(t)
      PROVE  state'[z] = "ZOMBIE" /\ onCpu' = onCpu
  <2>1. Candidate \in Slot /\ state[Candidate] = "READY"
    BY <1>2, CandidateFacts DEF PickNext
  <2>2. state' = [state EXCEPT ![current_task] = Demote(@), ![Candidate] = "RUNNING"]
    BY <1>2 DEF PickNext, Commit
  <2>3. onCpu' = onCpu
    BY <1>2 DEF PickNext
  <2> HIDE DEF Candidate
  <2> QED BY <2>1, <2>2, <2>3 DEF Demote
<1>3. ASSUME NEW t \in Slot, PickNone(t)
      PROVE  state'[z] = "ZOMBIE" /\ onCpu' = onCpu
  <2>1. onCpu = t /\ pc[t] = "pick" /\ onCpu' = onCpu
    BY <1>3 DEF PickNone
  <2>2. state[Idle] # "ZOMBIE"
    BY <2>1 DEF RunInv
  <2>3. state' = state \/
          state' = [state EXCEPT ![current_task] = Demote(@), ![Idle] = "RUNNING"]
    BY <1>3 DEF PickNone, Commit
  <2> QED BY <2>1, <2>2, <2>3 DEF Demote
<1>4. ASSUME NEW t \in Slot, context_switch(t)
      PROVE  state'[z] = "ZOMBIE" /\ (onCpu' = z => onCpu = z)
  <2>1. onCpu = t /\ pc[t] = "switch" /\ prev_task = t
    BY <1>4 DEF context_switch, SwitchInv
  <2>2. current_task \in Slot \ {t} /\ state[current_task] = "RUNNING"
    BY <2>1 DEF SwitchInv
  <2>3. onCpu' = current_task
    BY <1>4, <2>1, <2>2 DEF context_switch, Save, Load, RunInv, Parked
  <2>4. state' = state
    BY <1>4 DEF context_switch
  <2> QED BY <2>2, <2>3, <2>4
<1>5. ASSUME NEW t \in Slot, sys_exit(t) \/ handle_abort(t)
      PROVE  state'[z] = "ZOMBIE" /\ onCpu' = onCpu
  BY <1>5 DEF sys_exit, handle_abort, scheduler_terminate_task, CallYield, Goto
<1>6. ASSUME NEW t \in Slot,
             \/ idle_task(t) \/ sys_yield(t) \/ YieldTest(t) \/ YieldClear(t)
             \/ YieldCheck(t) \/ wfi(t) \/ WakeMasked(t) \/ svc_exit_trampoline(t)
             \/ exception_entry_svc(t) \/ svc(t) \/ svc_return(t)
             \/ handle_undefined_instruction(t) \/ StackOverflow(t)
      PROVE  state' = state /\ onCpu' = onCpu
  BY <1>6 DEF idle_task, sys_yield, YieldTest, YieldClear, YieldCheck, wfi, WakeMasked,
     svc_exit_trampoline, exception_entry_svc, svc, svc_return,
     handle_undefined_instruction, StackOverflow
<1>7. ASSUME NEW src \in Sources, Raise(src) \/ exception_entry_irq(src)
      PROVE  state' = state /\ onCpu' = onCpu
  BY <1>7 DEF Raise, exception_entry_irq
<1>8. CASE Spin \/ UNCHANGED vars
  BY <1>8 DEF Spin, vars
<1> HIDE DEF IInv, TypeOK, At, table, books, cpu
<1> QED
  BY <1>1, <1>2, <1>3, <1>4, <1>5, <1>6, <1>7, <1>8
     DEF Next, Kernel, scheduler_yield, Syscall, Faults

\* A killed task stays killed and never gets the CPU back.
THEOREM DeadTheorem == Spec => DeadStaysDead
<1>1. IInv /\ [Next]_vars =>
        [\A i \in Slot : state[i] = "ZOMBIE" =>
           /\ state'[i] = "ZOMBIE"
           /\ onCpu' = i => onCpu = i]_vars
  BY DeadStep
<1> QED BY <1>1, Invariance, PTL DEF Spec, DeadStaysDead

-----------------------------------------------------------------------------
(* Refinement of RoundRobin                                                *)

Live == {i \in Slot : state[i] \in {"READY", "RUNNING"}}

\* Between the choice of a successor and the exchange of the stacks the books
\* name the live task that follows the one on the CPU.
FollowsInv ==
  onCpu # NoTask /\ pc[onCpu] = "switch" => RR!Follows(onCpu, current_task, Live)

\* The k-th slot the search visits is at distance k.
LEMMA VisitDistance ==
  ASSUME TypeOK, NEW k \in 1 .. MaxTasks - 1
  PROVE  /\ After(k) \in Slot \ {current_task_index}
         /\ RR!Distance(current_task_index, After(k)) = k
<1> DEFINE i == current_task_index
<1>1. i \in 0 .. MaxTasks - 1 /\ MaxTasks \in Nat \ {0}
  BY SchedulerAssumption DEF TypeOK, Slot
<1>2. k % MaxTasks = k /\ (k + MaxTasks) % MaxTasks = k
  BY <1>1, ModWrap
<1>3. CASE i + k < MaxTasks
  <2>1. (i + k) % MaxTasks = i + k
    BY <1>1, <1>3, ModWrap
  <2>2. (i + k) - i + MaxTasks = k + MaxTasks
    BY <1>1
  <2> QED BY <1>1, <1>2, <1>3, <2>1, <2>2 DEF After, SearchStart, RR!Distance, Slot
<1>4. CASE i + k >= MaxTasks
  <2>1. i + k - MaxTasks \in 0 .. MaxTasks - 1 /\ i + k - MaxTasks # i
    BY <1>1, <1>4
  <2>2. (i + k - MaxTasks + MaxTasks) % MaxTasks = i + k - MaxTasks
    BY <1>1, <2>1, ModWrap
  <2>3. (i + k) % MaxTasks = i + k - MaxTasks
    BY <1>1, <2>2
  <2>4. (i + k - MaxTasks) - i + MaxTasks = k
    BY <1>1
  <2> QED BY <1>1, <1>2, <2>1, <2>3, <2>4 DEF After, SearchStart, RR!Distance, Slot
<1> QED BY <1>1, <1>3, <1>4

\* The search ends at the READY task that follows the caller.
LEMMA CandidateFollows ==
  ASSUME TypeOK, current_task = current_task_index, Candidate # current_task,
         \A i \in Slot : state[i] = "RUNNING" => i = current_task
  PROVE  RR!Follows(current_task, Candidate, Live)
<1> USE SchedulerAssumption
<1> DEFINE Least(k) == FoundAt(k) /\ \A j \in 1 .. k - 1 : ~ FoundAt(j)
           c == CHOOSE k \in 1 .. SearchBound : Least(k)
<1>1. \E k \in 1 .. SearchBound : FoundAt(k)
  BY DEF Candidate
<1>2. \E k \in 1 .. SearchBound : Least(k)
  BY <1>1, FirstFound
<1>3. c \in 1 .. SearchBound /\ Least(c)
  BY <1>2
<1>4. Candidate = After(c)
  BY <1>1 DEF Candidate
<1>5. Candidate \in Live \ {current_task}
  BY CandidateFacts DEF Live
<1> HIDE DEF c
<1>6. c \in 1 .. MaxTasks - 1
  <2>1. After(MaxTasks) = current_task_index
    BY ModWrap DEF After, SearchStart, TypeOK, Slot
  <2> QED BY <1>3, <1>4, <2>1 DEF SearchBound
<1>7. RR!Distance(current_task, Candidate) = c
  BY <1>4, <1>6, VisitDistance
<1>8. ASSUME NEW j \in Live \ {current_task}
      PROVE  c <= RR!Distance(current_task, j)
  <2>1. j \in Slot /\ state[j] = "READY"
    BY <1>8 DEF Live
  <2>2. PICK k \in 1 .. SearchBound : After(k) = j
    BY <1>8, <2>1, EverySlotVisited
  <2>3. FoundAt(k)
    BY <2>1, <2>2 DEF FoundAt
  <2>4. c <= k
    BY <1>3, <2>2, <2>3 DEF SearchBound
  <2>5. k # MaxTasks
    BY <1>8, <2>2, ModWrap DEF After, SearchStart, TypeOK, Slot
  <2>6. RR!Distance(current_task, j) = k
    BY <2>2, <2>5, VisitDistance DEF SearchBound
  <2> QED BY <2>4, <2>6
<1> QED BY <1>5, <1>7, <1>8 DEF RR!Follows

\* The steps that change neither owner nor live tasks.
LEMMA SilentSteps ==
  ASSUME NEW t \in Slot,
         \/ idle_task(t) \/ sys_yield(t) \/ YieldTest(t) \/ YieldClear(t)
         \/ YieldCheck(t) \/ wfi(t) \/ WakeMasked(t) \/ svc_exit_trampoline(t)
         \/ exception_entry_svc(t) \/ svc(t) \/ svc_return(t)
         \/ handle_undefined_instruction(t) \/ StackOverflow(t)
  PROVE  UNCHANGED <<state, onCpu, current_task>>
BY DEF idle_task, sys_yield, YieldTest, YieldClear, YieldCheck, wfi, WakeMasked,
   svc_exit_trampoline, exception_entry_svc, svc, svc_return,
   handle_undefined_instruction, StackOverflow, table, books, cpu
\* ... and those of the boot context on the way to its one start.
LEMMA BootSteps ==
  ASSUME IInv, Boot
  PROVE  onCpu = NoTask /\ FollowsInv' /\ (RR!Next \/ UNCHANGED <<Live, onCpu>>)
<1> USE SlotFacts, SchedulerAssumption DEF At, table, books, cpu
<1>1. onCpu = NoTask /\ \A i \in Slot : state[i] # "ZOMBIE" /\ Parked(i)
  BY DEF Boot, scheduler_add_task, irq_enable, scheduler_start, start_first_task, IInv, BootInv
<1>2. CASE scheduler_add_task
  <2>1. onCpu' = NoTask
    BY <1>1, <1>2 DEF scheduler_add_task
  <2>2. CASE TableFull
    BY <1>2, <2>1, <2>2, <1>1 DEF scheduler_add_task, FollowsInv, Live
  <2>3. CASE ~ TableFull
    <3>1. task_count \in Slot /\ task_count \notin Live
      <4>1. task_count \in Slot /\ task_count >= task_count
        BY <2>3 DEF IInv, TypeOK, TableFull, Slot
      <4>2. state[task_count] = "NULL"
        BY <4>1 DEF IInv, TableInv
      <4> QED BY <4>1, <4>2 DEF Live
    <3>2. state' = [state EXCEPT ![task_count] = "READY"]
      BY <1>2, <2>3 DEF scheduler_add_task
    <3>3. Live' = Live \cup {task_count}
      BY <3>1, <3>2 DEF Live, IInv, TypeOK
    <3>4. Live' = Live \cup {task_count} /\ onCpu = NoTask /\ onCpu' = NoTask
      BY <1>1, <2>1, <3>3
    <3>5. RR!Next
      BY <3>1, <3>4 DEF RR!Next, RR!Task, RR!Admit, Slot, Live
    <3> QED BY <1>1, <2>1, <3>5 DEF FollowsInv
  <2> QED BY <2>2, <2>3
<1>3. CASE irq_enable
  BY <1>1, <1>3 DEF irq_enable, FollowsInv, Live
<1>4. CASE scheduler_start
  <2>1. state[Idle] \in {"READY", "RUNNING"}
    BY <1>1, <1>4 DEF scheduler_start, IInv, TypeOK, States, TableInv, Idle
  <2>2. Live' = Live /\ onCpu' = NoTask
    BY <1>1, <1>4, <2>1 DEF scheduler_start, Live, IInv, TypeOK
  <2> QED BY <1>1, <2>2 DEF FollowsInv
<1>5. CASE start_first_task
  <2>1. current_task = Idle /\ state[Idle] = "RUNNING" /\ pc[NoTask] = "switch"
    BY <1>1, <1>5 DEF start_first_task, IInv, BootInv
  <2>2. context[Idle] = [sp |-> Idle, sp_usr |-> Idle]
    BY <1>1 DEF Parked
  <2>4. onCpu' = Idle /\ state' = state /\ pc' = pc
    BY <1>5, <2>1, <2>2 DEF start_first_task, Load
  <2>3. RR!Start
    BY <1>1, <2>1, <2>4 DEF RR!Start, Idle
  <2> QED BY <1>1, <2>3, <2>4 DEF RR!Next, FollowsInv, Parked
<1> QED BY <1>1, <1>2, <1>3, <1>4, <1>5 DEF Boot

\* The switch itself: the CPU goes to the task the books have named.
LEMMA SwitchHandsOff ==
  ASSUME IInv, FollowsInv, NEW t \in Slot, context_switch(t)
  PROVE  FollowsInv' /\ RR!Next
<1> USE SlotFacts DEF At
<1>1. onCpu = t /\ pc[t] = "switch" /\ prev_task = t
  BY DEF context_switch, IInv, SwitchInv
<1>2. current_task \in Slot \ {t} /\ state[current_task] = "RUNNING" /\ Parked(current_task)
  BY <1>1 DEF IInv, SwitchInv, RunInv
<1>3. onCpu' = current_task /\ state' = state
  BY <1>1, <1>2 DEF context_switch, Save, Load, IInv, TypeOK, Parked, table
<1>4. pc'[current_task] = pc[current_task]
  BY <1>1, <1>2 DEF context_switch, Goto, IInv, TypeOK
<1>5. FollowsInv'
  BY <1>2, <1>3, <1>4 DEF FollowsInv, Parked
<1>6. RR!Handoff(current_task)
  BY <1>1, <1>3 DEF FollowsInv, RR!Handoff, Live
<1> QED BY <1>2, <1>5, <1>6 DEF RR!Next, RR!Task, Slot

\* The choice leaves the live tasks alone and names the one that follows.
LEMMA PickFollows ==
  ASSUME IInv, NEW t \in Slot, PickNext(t)
  PROVE  FollowsInv' /\ UNCHANGED <<Live, onCpu>>
<1> USE SlotFacts DEF At
<1>1. /\ onCpu = t /\ pc[t] = "pick" /\ current_task = t /\ current_task_index = t
      /\ state[t] \in {"RUNNING", "ZOMBIE"}
      /\ \A i \in Slot : state[i] = "RUNNING" => i = t
  BY DEF PickNext, IInv, CurrentInv
<1>2. Candidate \in Slot /\ state[Candidate] = "READY" /\ Candidate # t
  BY <1>1, CandidateFacts DEF IInv, PickNext
<1>3. RR!Follows(t, Candidate, Live)
  BY <1>1, <1>2, CandidateFollows DEF IInv
<1>4. /\ state' = [state EXCEPT ![t] = Demote(@), ![Candidate] = "RUNNING"]
      /\ current_task' = Candidate /\ onCpu' = t
  BY <1>1 DEF PickNext, Commit
<1>5. Live' = Live
  <2> DEFINE n == Candidate
  <2>1. n \in Slot /\ state[n] = "READY" /\ n # t
        /\ state' = [state EXCEPT ![t] = Demote(@), ![n] = "RUNNING"]
    BY <1>2, <1>4
  <2> HIDE DEF n
  <2>2. \A i \in Slot : state'[i] \in {"READY", "RUNNING"} <=> state[i] \in {"READY", "RUNNING"}
    BY <1>1, <2>1 DEF Demote, IInv, TypeOK
  <2> QED BY <2>2 DEF Live
<1>6. FollowsInv'
  <2>1. RR!Follows(onCpu', current_task', Live')
    BY <1>3, <1>4, <1>5
  <2> QED BY <2>1 DEF FollowsInv
<1> QED BY <1>1, <1>4, <1>5, <1>6

\* A task that dies is the one on the CPU and never the idle task.
LEMMA DeathIsOwn ==
  ASSUME IInv, NEW t \in Slot, NEW caller, onCpu = t, pc[t] \in {"user", "svc"},
         scheduler_terminate_task(t, caller)
  PROVE  FollowsInv' /\ RR!Next
<1> USE SlotFacts
<1>1. current_task = t /\ state[t] = "RUNNING" /\ t # Idle
  BY UserIsNotIdle DEF IInv, CurrentInv, YieldLabels
<1>2. /\ state' = [state EXCEPT ![t] = "ZOMBIE"] /\ onCpu' = t
      /\ pc' = [pc EXCEPT ![t] = "test"]
  BY <1>1 DEF scheduler_terminate_task, CallYield, Goto, cpu
<1>3. Live' = Live \ {t} /\ t \in Live
  BY <1>1, <1>2 DEF Live, IInv, TypeOK
<1>4. RR!Die
  BY <1>1, <1>2, <1>3 DEF RR!Die, Live, Idle
<1>5. FollowsInv'
  BY <1>2 DEF FollowsInv, IInv, TypeOK
<1> QED BY <1>4, <1>5 DEF RR!Next

\* Every step is one of RoundRobin's or changes neither owner nor live tasks.
LEMMA RefinementStep ==
  ASSUME IInv, FollowsInv, [Next]_vars
  PROVE  FollowsInv' /\ (RR!Next \/ UNCHANGED <<Live, onCpu>>)
<1> USE SlotFacts DEF At
<1>1. CASE Boot
  BY <1>1, BootSteps
<1>2. ASSUME NEW t \in Slot, PickNext(t)
      PROVE  FollowsInv' /\ UNCHANGED <<Live, onCpu>>
  BY <1>2, PickFollows
<1>3. ASSUME NEW t \in Slot, context_switch(t)
      PROVE  FollowsInv' /\ RR!Next
  BY <1>3, SwitchHandsOff
<1>4. ASSUME NEW t \in Slot, handle_abort(t)
      PROVE  FollowsInv' /\ RR!Next
  BY <1>4, DeathIsOwn DEF handle_abort
<1>5. ASSUME NEW t \in Slot, sys_exit(t)
      PROVE  FollowsInv' /\ (RR!Next \/ UNCHANGED <<Live, onCpu>>)
  <2>1. onCpu = t /\ pc[t] = "svc"
    BY <1>5 DEF sys_exit
  <2>2. CASE current_task = Shell
    <3>1. pc' = [pc EXCEPT ![t] = "svc_exit"] /\ onCpu' = onCpu /\ state' = state
      BY <1>5, <2>2 DEF sys_exit, Goto, table, cpu
    <3> QED BY <2>1, <3>1 DEF FollowsInv, Live, IInv, TypeOK
  <2>3. CASE current_task # Shell
    BY <1>5, <2>1, <2>3, DeathIsOwn DEF sys_exit
  <2> QED BY <2>2, <2>3
<1>6. ASSUME NEW t \in Slot, PickNone(t)
      PROVE  FollowsInv' /\ UNCHANGED <<Live, onCpu>>
  <2>1. onCpu = t /\ state' = state /\ onCpu' = onCpu
        /\ pc' = [pc EXCEPT ![t] = ResumeLabel(frame[t])]
    BY <1>6, LiveCaller DEF PickNone, Goto
  <2>2. pc'[t] # "switch"
    BY <2>1 DEF ResumeLabel, IInv, TypeOK
  <2> QED BY <2>1, <2>2 DEF FollowsInv, Live
<1>7. ASSUME UNCHANGED <<state, onCpu, current_task>>,
             pc'[onCpu] = "switch" => pc[onCpu] = "switch"
      PROVE  FollowsInv' /\ UNCHANGED <<Live, onCpu>>
  BY <1>7 DEF FollowsInv, Live
<1>8. ASSUME NEW t \in Slot,
             \/ idle_task(t) \/ sys_yield(t) \/ YieldTest(t) \/ YieldClear(t)
             \/ YieldCheck(t) \/ wfi(t) \/ WakeMasked(t) \/ svc_exit_trampoline(t)
             \/ exception_entry_svc(t) \/ svc(t) \/ svc_return(t)
             \/ handle_undefined_instruction(t) \/ StackOverflow(t)
      PROVE  FollowsInv' /\ UNCHANGED <<Live, onCpu>>
  <2>1. UNCHANGED <<state, onCpu, current_task>>
    BY <1>8, SilentSteps
  <2>2. onCpu = t /\ (pc'[t] = "switch" => pc[t] = "switch")
    BY <1>8 DEF idle_task, sys_yield, YieldTest, YieldClear, YieldCheck, wfi, WakeMasked,
       svc_exit_trampoline, exception_entry_svc, svc, svc_return, CallYield, Panic, Goto,
       handle_undefined_instruction, StackOverflow, ResumeLabel, IInv, TypeOK
  <2> QED BY <1>7, <2>1, <2>2
<1>9. ASSUME NEW src \in Sources, Raise(src) \/ exception_entry_irq(src)
      PROVE  FollowsInv' /\ UNCHANGED <<Live, onCpu>>
  <2>1. UNCHANGED <<state, onCpu, current_task>>
    BY <1>9 DEF Raise, exception_entry_irq, table, books, cpu
  <2>2. pc'[onCpu] = "switch" => pc[onCpu] = "switch"
    BY <1>9 DEF Raise, exception_entry_irq, IInv, TypeOK
  <2> QED BY <1>7, <2>1, <2>2
<1>10. CASE Spin \/ UNCHANGED vars
  BY <1>7, <1>10 DEF Spin, vars, table, books, cpu
<1> QED
  BY <1>1, <1>2, <1>3, <1>4, <1>5, <1>6, <1>8, <1>9, <1>10
     DEF Next, Kernel, scheduler_yield, Syscall, Faults

\* The scheduler hands the CPU only from its owner to the live task that follows
\* in the table, and only owners die: it implements RoundRobin.
THEOREM Refinement == Spec => ImplementsRoundRobin
<1>1. Init => RR!Init /\ FollowsInv
  BY DEF Init, RR!Init, FollowsInv
<1>2. IInv /\ FollowsInv /\ [Next]_vars => FollowsInv' /\ [RR!Next]_(RR!vars)
  <2>1. RR!vars = <<Live, onCpu>>
    BY DEF RR!vars, Live
  <2>2. UNCHANGED <<Live, onCpu>> => UNCHANGED RR!vars
    BY DEF RR!vars, Live
  <2> QED BY <2>2, RefinementStep
<1> QED BY <1>1, <1>2, Invariance, PTL DEF Spec, ImplementsRoundRobin, RR!Spec

=============================================================================
