------------------------------ MODULE KernelBoot ------------------------------
(***************************************************************************)
(* The kernel from its reset vector to the running scheduler: it maps      *)
(* itself, moves to high addresses and drops the identity map; sets up     *)
(* interrupt controller, UART and timer; and enables interrupts.  Then the *)
(* interrupts themselves: controller, dispatch, handlers, end of interrupt.*)
(*                                                                         *)
(* Addresses are numbers of 1 MB sections.                                 *)
(***************************************************************************)
EXTENDS Polling, FiniteSets

CONSTANTS
  Sections,     \* of the address space
  DdrPA, DdrVA, \* physical and virtual start of the memory
  KernelSize,   \* KERNEL_DDR_MB; user space is the frame behind it
  IdentitySize, \* BOOT_IDENTITY_MB
  UserVA,
  Peripheral    \* sections of L4_WKUP and L4_PER

KernelVA == DdrVA .. DdrVA + KernelSize - 1
KernelFrame == DdrPA .. DdrPA + KernelSize - 1
Identity == DdrPA .. DdrPA + IdentitySize - 1
UserFrame == DdrPA + KernelSize
Section == 0 .. Sections - 1

ASSUME KernelAssumption ==
  /\ {Sections, DdrPA, DdrVA, UserVA} \subseteq Nat
  /\ KernelSize \in Nat \ {0} /\ IdentitySize \in Nat \ {0}
  /\ KernelSize <= IdentitySize
  /\ Peripheral \subseteq Section /\ KernelVA \subseteq Section
  /\ Identity \subseteq Section /\ UserVA \in Section
  /\ KernelVA \cap Identity = {}
  /\ (KernelVA \cup Identity) \cap (Peripheral \cup {UserVA}) = {}
  /\ UserVA \notin Peripheral

VARIABLES
  pgd, tlb,     \* page table, and the translations the CPU may have kept
  mmu,          \* SCTLR.M
  code, stacks, vbar,   \* sections of pc, of the stacks and of the vectors
  masked,       \* CPSR.I
  mir,          \* lines masked in the interrupt controller
  handlers,     \* lines with a handler in irq_table
  enabled,      \* devices whose interrupt is switched on
  raised,       \* lines a device holds up
  active,       \* what SIR_IRQ shows until the next NEWIRQAGR
  irq, serving  \* where irq_dispatch stands, and its local irq

mapping == <<pgd, tlb, mmu, code, stacks, vbar>>
interrupts == <<masked, mir, handlers, enabled, raised, active, irq, serving>>
kernelVars == <<mapping, interrupts>>

Line == {"timer", "uart"}
Spurious == "spurious"   \* 128
None == "none"

Unmapped == [valid |-> FALSE, frame |-> 0, user |-> FALSE]
Mapped(frame) == [valid |-> TRUE, frame |-> frame, user |-> FALSE]
User(frame) == [valid |-> TRUE, frame |-> frame, user |-> TRUE]

\* Reset leaves the MMU off and interrupts masked; the rest is as it was.
KernelInit ==
  /\ pgd = [va \in Section |-> Unmapped] /\ tlb = pgd /\ mmu = FALSE
  /\ code = DdrPA /\ stacks = DdrPA /\ vbar = DdrPA
  /\ masked = TRUE /\ mir = {} /\ handlers = {} /\ enabled = {}
  /\ raised = {} /\ active = None /\ irq = "idle" /\ serving = None

Do(at, next) ==
  /\ step = at
  /\ Go(next)
  /\ UNCHANGED ready

-----------------------------------------------------------------------------
(* Memory map                                                              *)

reset_handler ==
  /\ Do("kernel", "map")
  /\ masked' = TRUE
  /\ stacks' = DdrPA /\ vbar' = DdrPA
  /\ UNCHANGED <<pgd, tlb, mmu, code, mir, handlers, enabled, raised, active, irq, serving>>

mmu_build_page_table_boot ==
  /\ Do("map", "enable")
  /\ pgd' = [va \in Section |->
       IF va \in Identity THEN Mapped(va)
       ELSE IF va \in KernelVA THEN Mapped(va - DdrVA + DdrPA)
       ELSE IF va = UserVA THEN User(UserFrame)
       ELSE IF va \in Peripheral THEN Mapped(va)
       ELSE Unmapped]
  /\ UNCHANGED <<tlb, mmu, code, stacks, vbar, interrupts>>

TLBIALL == tlb' = [va \in Section |-> Unmapped]

mmu_enable ==
  /\ Do("enable", "stacks")
  /\ mmu' = TRUE
  /\ TLBIALL
  /\ UNCHANGED <<pgd, code, stacks, vbar, interrupts>>

MutReloaded == DdrPA
Reloaded == DdrVA

ReloadStacks ==
  /\ Do("stacks", "jump")
  /\ stacks' = Reloaded
  /\ UNCHANGED <<pgd, tlb, mmu, code, vbar, interrupts>>

Trampoline ==
  /\ Do("jump", "wdt clock")
  /\ code' = DdrVA
  /\ UNCHANGED <<pgd, tlb, mmu, stacks, vbar, interrupts>>

watchdog_disable ==
  /\ \/ Forever("wdt clock", "first write") \/ Forever("first write", "second write")
     \/ Forever("second write", "identity")
  /\ UNCHANGED kernelVars

\* mmu_init in three steps.
RemoveIdentity ==
  /\ Do("identity", "flush tlb")
  /\ pgd' = [va \in Section |-> IF va \in Identity THEN Unmapped ELSE pgd[va]]
  /\ UNCHANGED <<tlb, mmu, code, stacks, vbar, interrupts>>

MutFlushed == tlb
Flushed == [va \in Section |-> Unmapped]

FlushTlb ==
  /\ Do("flush tlb", "vbar")
  /\ tlb' = Flushed
  /\ UNCHANGED <<pgd, mmu, code, stacks, vbar, interrupts>>

MutHighVectors == DdrPA
HighVectors == DdrVA

MoveVectors ==
  /\ Do("vbar", "intc")
  /\ vbar' = HighVectors
  /\ UNCHANGED <<pgd, tlb, mmu, code, stacks, interrupts>>

\* The CPU keeps a translation whenever it likes.
TlbFill(va) ==
  /\ mmu /\ pgd[va].valid
  /\ tlb' = [tlb EXCEPT ![va] = pgd[va]]
  /\ UNCHANGED <<polling, pgd, mmu, code, stacks, vbar, interrupts>>

-----------------------------------------------------------------------------
(* Interrupt controller and devices                                        *)

\* NEWIRQAGR: the controller may present the next line.
intc_eoi == active' = None

intc_init ==
  /\ Do("intc", "irq table")
  /\ mir' = Line
  /\ intc_eoi
  /\ UNCHANGED <<mapping, masked, handlers, enabled, raised, irq, serving>>

irq_init ==
  /\ Do("irq table", "uart clock")
  /\ handlers' = {}
  /\ UNCHANGED <<mapping, masked, mir, enabled, raised, active, irq, serving>>

\* irq_register_handler, and on success intc_enable_irq.
Register(line) ==
  IF line \in handlers THEN UNCHANGED <<handlers, mir>>
  ELSE handlers' = handlers \cup {line} /\ mir' = mir \ {line}

\* The FIFO is cleared before the interrupt of the UART is switched on.
uart_enable_rx_interrupt ==
  \/ Forever("uart clock", "uart irq") /\ UNCHANGED kernelVars
  \/ /\ Do("uart irq", "domain")
     /\ enabled' = enabled \cup {"uart"}
     /\ Register("uart")
     /\ UNCHANGED <<mapping, masked, raised, active, irq, serving>>

timer2_clock_enable ==
  /\ \/ HaltsAtZero("domain", "module", "halt")
     \/ Bounded("module", "soft reset", "halt")
  /\ UNCHANGED kernelVars

timer_init ==
  \/ HaltsAtZero("soft reset", "stop", "halt") /\ UNCHANGED kernelVars
  \/ /\ GivesUp("stop", "load")
     /\ raised' = IF step' = "load" THEN raised \ {"timer"} ELSE raised
     /\ UNCHANGED <<mapping, masked, mir, handlers, enabled, active, irq, serving>>
  \/ GivesUp("load", "counter") /\ UNCHANGED kernelVars
  \/ GivesUp("counter", "timer irq") /\ UNCHANGED kernelVars
  \/ /\ Do("timer irq", "auto reload")
     /\ Register("timer")
     /\ UNCHANGED <<mapping, masked, enabled, raised, active, irq, serving>>
  \/ /\ GivesUp("auto reload", "tasks")
     /\ enabled' = IF step' = "tasks" THEN enabled \cup {"timer"} ELSE enabled
     /\ UNCHANGED <<mapping, masked, mir, handlers, raised, active, irq, serving>>

\* File system, user payload and task table (Vfs, Exec, Scheduler); none fails.
PrepareTasks == Do("tasks", "irq enable") /\ UNCHANGED kernelVars

irq_enable ==
  /\ Do("irq enable", "scheduler")
  /\ masked' = FALSE
  /\ UNCHANGED <<mapping, mir, handlers, enabled, raised, active, irq, serving>>

scheduler_start == Do("scheduler", "run") /\ UNCHANGED kernelVars

-----------------------------------------------------------------------------
(* Interrupts                                                              *)

\* A timer overflow, a received character.
Raise(line) ==
  /\ line \in enabled \ raised
  /\ raised' = raised \cup {line}
  /\ UNCHANGED <<polling, mapping, masked, mir, handlers, enabled, active, irq, serving>>

\* The controller presents a line; a glitch shows the spurious flag.
Present(what) ==
  /\ active = None
  /\ what \in (raised \ mir) \cup (IF mir = Line THEN {} ELSE {Spurious})
  /\ active' = what
  /\ UNCHANGED <<polling, mapping, masked, mir, handlers, enabled, raised, irq, serving>>

interruptStep == <<polling, mapping, mir, handlers, enabled>>

exception_entry_irq ==
  /\ active # None /\ ~ masked
  /\ masked' = TRUE
  /\ irq' = "dispatch"
  /\ UNCHANGED <<interruptStep, raised, active, serving>>

\* No handler to call for a spurious or unregistered interrupt.
MutUnhandled == irq' = "return" /\ UNCHANGED <<active, serving>>
Unhandled == irq' = "return" /\ intc_eoi /\ UNCHANGED serving

\* The end of interrupt is written after the handler has run.
MutEnds(at) == IF at = "handler" THEN intc_eoi ELSE UNCHANGED active
Ends(at) == IF at = "end" THEN intc_eoi ELSE UNCHANGED active

\* SIR_IRQ is read into a local.
Called == irq' = "handler" /\ serving' = active /\ Ends("handler")

irq_dispatch ==
  /\ irq = "dispatch"
  /\ IF active \in handlers THEN Called ELSE Unhandled
  /\ UNCHANGED <<interruptStep, masked, raised>>

\* The handler clears its device: the overflow flag, or the FIFO by reading it.
Handler(line) ==
  /\ irq = "handler" /\ serving = line
  /\ raised' = raised \ {line}
  /\ irq' = "end"
  /\ UNCHANGED <<interruptStep, masked, active, serving>>

timer_irq_handler == Handler("timer")

uart_rx_irq_handler == Handler("uart")

EndOfInterrupt ==
  /\ irq = "end"
  /\ Ends("end")
  /\ irq' = "return"
  /\ serving' = None
  /\ UNCHANGED <<interruptStep, masked, raised>>

ReturnFromInterrupt ==
  /\ irq = "return"
  /\ irq' = "idle"
  /\ masked' = FALSE
  /\ UNCHANGED <<interruptStep, raised, active, serving>>

-----------------------------------------------------------------------------

KernelForever == {"wdt clock", "first write", "second write", "uart clock"}
KernelDevice ==
  KernelForever \cup
  {"domain", "module", "soft reset", "stop", "load", "counter", "auto reload"}

\* From the reset vector to scheduler_start; an interrupt holds it up.
kernel_main ==
  /\ irq = "idle"
  /\ \/ reset_handler \/ mmu_build_page_table_boot \/ mmu_enable \/ ReloadStacks
     \/ Trampoline \/ watchdog_disable \/ RemoveIdentity \/ FlushTlb \/ MoveVectors
     \/ intc_init \/ irq_init \/ uart_enable_rx_interrupt \/ timer2_clock_enable
     \/ timer_init \/ PrepareTasks \/ irq_enable \/ scheduler_start

InterruptCode ==
  \/ exception_entry_irq \/ irq_dispatch \/ timer_irq_handler \/ uart_rx_irq_handler
  \/ EndOfInterrupt \/ ReturnFromInterrupt

Devices ==
  \/ \E w \in KernelDevice : Responds(w) /\ UNCHANGED kernelVars
  \/ \E line \in Line : Raise(line)
  \/ \E what \in Line \cup {Spurious} : Present(what)

KernelNext ==
  \/ kernel_main \/ InterruptCode \/ Devices
  \/ \E va \in Section : TlbFill(va)

=============================================================================
