----------------------------- MODULE PowerOn_proofs ----------------------------
(***************************************************************************)
(* The safety properties of PowerOn, for every address space, every card,  *)
(* memory and budget, and every behaviour of the devices.  Two invariants: *)
(* KInv of the kernel's tables and interrupts, LInv of the bootloader.     *)
(***************************************************************************)
EXTENDS PowerOn, TLAPS

-----------------------------------------------------------------------------
(* Steps                                                                   *)

\* Where the bootloader may stand, the jump and the panic included.
LoaderStep ==
  {"wdt1", "wdt2", "uart", "bypass", "lock", "emif", "mmc0", "uart0", "vtp", "test",
   "reset", "lines", "power", "clock", "init", "cmd0", "cmd8", "cmd55", "cmd41", "cmd2",
   "cmd3", "cmd9", "cmd7", "clock2", "cmd16", "initialized", "brr", "tc", "next", "magic",
   "flush", "panic", "kernel"}

\* The kernel up to the jump, up to the removal of the identity map, and behind.
LowStep == {"map", "enable"}
TrampolineStep == {"wdt clock", "first write", "second write", "identity"}
MovingStep == {"flush tlb", "vbar"}
\* Behind mmu_init: before the UART has its handler, before the timer has one,
\* before interrupts are enabled, and with them.
EarlyStep == {"intc", "irq table", "uart clock", "uart irq"}
UartStep == {"domain", "module", "soft reset", "stop", "load", "counter", "timer irq"}
TimerStep == {"auto reload", "tasks", "irq enable"}
OpenStep == {"scheduler", "run"}
HighStep == EarlyStep \cup UartStep \cup TimerStep \cup OpenStep \cup {"halt"}

KernelStep ==
  LowStep \cup {"stacks", "jump"} \cup TrampolineStep \cup MovingStep \cup HighStep

\* The page table of the trampoline and the one that remains.
BootTable == [va \in Section |->
  IF va \in Identity THEN Mapped(va)
  ELSE IF va \in KernelVA THEN Mapped(va - DdrVA + DdrPA)
  ELSE IF va = UserVA THEN User(UserFrame)
  ELSE IF va \in Peripheral THEN Mapped(va)
  ELSE Unmapped]

FinalTable == [va \in Section |-> IF va \in Identity THEN Unmapped ELSE BootTable[va]]

-----------------------------------------------------------------------------
(* The inductive invariant                                                 *)

\* Which table is in force at which step.
TableInv ==
  /\ step \in LoaderStep \cup LowStep => mmu = FALSE
  /\ step \notin LoaderStep \cup LowStep => mmu = TRUE
  /\ step \in {"enable", "stacks", "jump"} \cup TrampolineStep => pgd = BootTable
  /\ step \in MovingStep \cup HighStep => pgd = FinalTable

\* Where the running code, its stacks and the vectors are.
PlaceInv ==
  /\ step \in LoaderStep \cup LowStep \cup {"stacks"} => code = DdrPA /\ stacks = DdrPA
  /\ step = "jump" => code = DdrPA /\ stacks = DdrVA
  /\ step \in TrampolineStep \cup MovingStep \cup HighStep => code = DdrVA /\ stacks = DdrVA
  /\ step \in HighStep => vbar = DdrVA

\* Old translations are those of a table that was in force, and after the flush
\* only of the last.
TlbInv ==
  /\ DOMAIN tlb = Section
  /\ mmu => \A va \in Section : tlb[va].valid =>
              IF step \in HighStep \cup {"vbar"} THEN tlb[va] = FinalTable[va]
              ELSE tlb[va] = BootTable[va]

\* Interrupts are off until both handlers are known; a line is up only for a
\* device that has been switched on.
MaskInv ==
  /\ step \notin OpenStep => masked /\ irq = "idle"
  /\ irq # "idle" => masked
  /\ handlers \subseteq Line
  /\ step \in UartStep \cup TimerStep \cup OpenStep => "uart" \in handlers
  /\ step \in TimerStep \cup OpenStep => "timer" \in handlers
  /\ raised \subseteq enabled
  /\ step \notin TimerStep \cup OpenStep \cup {"halt"} => "timer" \notin enabled

\* A line that is presented is up until its handler has cleared it.
ServiceInv ==
  /\ active \in Line /\ irq # "end" => active \in raised
  /\ irq = "handler" => serving = active /\ active \in Line

KInv ==
  /\ step \in LoaderStep \cup KernelStep
  /\ TableInv /\ PlaceInv /\ TlbInv /\ MaskInv /\ ServiceInv

-----------------------------------------------------------------------------
(* The bootloader                                                          *)

\* Every step of the bootloader begins and ends in one of its own steps.
LEMMA LoaderStays == LoaderNext => step \in LoaderStep /\ step' \in LoaderStep
<1> SUFFICES ASSUME LoaderNext PROVE step \in LoaderStep /\ step' \in LoaderStep
  OBVIOUS
<1> USE DEF LoaderStep, Go
<1>1. CASE disable_watchdog \/ uart_init \/ enable_peripheral_clocks
  BY <1>1 DEF disable_watchdog, uart_init, enable_peripheral_clocks, Forever
<1>2. CASE config_ddr_pll \/ ddr_init \/ ddr_test
  BY <1>2 DEF config_ddr_pll, ddr_init, ddr_test, GivesUp, Bounded
<1>3. CASE mmc_controller \/ FasterClock \/ ReadBlock \/ FinishBlock
  BY <1>3 DEF mmc_controller, FasterClock, ReadBlock, FinishBlock, Completes, OrFail
<1>4. CASE Reset \/ APP_CMD \/ ACMD41 \/ Identify
  BY <1>4 DEF Reset, APP_CMD, ACMD41, Identify, Unchecked, TryAgain
<1>5. CASE Initialized \/ NextBlock \/ CheckMagic \/ uart_flush
  BY <1>5 DEF Initialized, NextBlock, CheckMagic, uart_flush
<1>6. CASE Card
  BY <1>6 DEF Card, Sends, TransferCompletes, ReadError, Responds
<1>7. CASE \E w \in LoaderDevice : Responds(w) /\ UNCHANGED loaderVars
  BY <1>7 DEF LoaderDevice, LoaderForever, Responds
<1> QED BY <1>1, <1>2, <1>3, <1>4, <1>5, <1>6, <1>7 DEF LoaderNext, bootloader_main

\* ... and leaves the kernel as it is.
LEMMA LoaderKeeps ==
  ASSUME KInv, LoaderNext, UNCHANGED kernelVars
  PROVE  KInv'
<1>1. step \in LoaderStep /\ step' \in LoaderStep
  BY LoaderStays
<1> USE <1>1 DEF kernelVars, mapping, interrupts, LoaderStep, LowStep, TrampolineStep,
      MovingStep, EarlyStep, UartStep, TimerStep, OpenStep, HighStep, KInv
<1>2. TableInv' BY DEF TableInv
<1>3. PlaceInv' BY DEF PlaceInv
<1>4. TlbInv' BY DEF TlbInv, TableInv
<1>5. MaskInv' BY ZenonT(40) DEF MaskInv
<1>6. ServiceInv' BY DEF ServiceInv
<1> QED BY <1>2, <1>3, <1>4, <1>5, <1>6

-----------------------------------------------------------------------------
(* The memory map                                                          *)

\* The reset vector.
LEMMA Resets ==
  ASSUME KInv, irq = "idle", reset_handler
  PROVE  KInv'
<1> USE DEF KInv, KernelStep, LoaderStep, LowStep, TrampolineStep, MovingStep, EarlyStep, UartStep,
      TimerStep, OpenStep, HighStep, mapping, interrupts, kernelVars, Do, Go, reset_handler
<1>1. TableInv' BY DEF TableInv
<1>2. PlaceInv' BY DEF PlaceInv
<1>3. TlbInv' BY DEF TlbInv, TableInv
<1>4. MaskInv' BY DEF MaskInv
<1>5. ServiceInv' BY DEF ServiceInv, MaskInv
<1>6. step' \in LoaderStep \cup KernelStep OBVIOUS
<1> QED BY <1>1, <1>2, <1>3, <1>4, <1>5, <1>6

\* The page table is the one of the trampoline.
LEMMA Builds ==
  ASSUME KInv, irq = "idle", mmu_build_page_table_boot
  PROVE  KInv'
<1> USE DEF KInv, KernelStep, LoaderStep, LowStep, TrampolineStep, MovingStep, EarlyStep, UartStep,
      TimerStep, OpenStep, HighStep, mapping, interrupts, kernelVars, Do, Go, mmu_build_page_table_boot, BootTable
<1>1. TableInv' BY DEF TableInv
<1>2. PlaceInv' BY DEF PlaceInv
<1>3. TlbInv' BY DEF TlbInv, TableInv
<1>4. MaskInv' BY DEF MaskInv
<1>5. ServiceInv' BY DEF ServiceInv, MaskInv
<1>6. step' \in LoaderStep \cup KernelStep OBVIOUS
<1> QED BY <1>1, <1>2, <1>3, <1>4, <1>5, <1>6

\* The MMU starts without old translations.
LEMMA Enables ==
  ASSUME KInv, irq = "idle", mmu_enable
  PROVE  KInv'
<1> USE DEF KInv, KernelStep, LoaderStep, LowStep, TrampolineStep, MovingStep, EarlyStep, UartStep,
      TimerStep, OpenStep, HighStep, mapping, interrupts, kernelVars, Do, Go, mmu_enable, TLBIALL, Unmapped
<1>1. TableInv' BY DEF TableInv
<1>2. PlaceInv' BY DEF PlaceInv
<1>3. TlbInv' BY DEF TlbInv, TableInv
<1>4. MaskInv' BY DEF MaskInv
<1>5. ServiceInv' BY DEF ServiceInv, MaskInv
<1>6. step' \in LoaderStep \cup KernelStep OBVIOUS
<1> QED BY <1>1, <1>2, <1>3, <1>4, <1>5, <1>6

\* Stacks move.
LEMMA Reloads ==
  ASSUME KInv, irq = "idle", ReloadStacks
  PROVE  KInv'
<1> USE DEF KInv, KernelStep, LoaderStep, LowStep, TrampolineStep, MovingStep, EarlyStep, UartStep,
      TimerStep, OpenStep, HighStep, mapping, interrupts, kernelVars, Do, Go, ReloadStacks, Reloaded
<1>1. TableInv' BY DEF TableInv
<1>2. PlaceInv' BY DEF PlaceInv
<1>3. TlbInv' BY DEF TlbInv, TableInv
<1>4. MaskInv' BY DEF MaskInv
<1>5. ServiceInv' BY DEF ServiceInv, MaskInv
<1>6. step' \in LoaderStep \cup KernelStep OBVIOUS
<1> QED BY <1>1, <1>2, <1>3, <1>4, <1>5, <1>6

\* The running code moves.
LEMMA Jumps ==
  ASSUME KInv, irq = "idle", Trampoline
  PROVE  KInv'
<1> USE DEF KInv, KernelStep, LoaderStep, LowStep, TrampolineStep, MovingStep, EarlyStep, UartStep,
      TimerStep, OpenStep, HighStep, mapping, interrupts, kernelVars, Do, Go, Trampoline
<1>1. TableInv' BY DEF TableInv
<1>2. PlaceInv' BY DEF PlaceInv
<1>3. TlbInv' BY DEF TlbInv, TableInv
<1>4. MaskInv' BY DEF MaskInv
<1>5. ServiceInv' BY DEF ServiceInv, MaskInv
<1>6. step' \in LoaderStep \cup KernelStep OBVIOUS
<1> QED BY <1>1, <1>2, <1>3, <1>4, <1>5, <1>6

\* The watchdog.
LEMMA Unwatches ==
  ASSUME KInv, irq = "idle", watchdog_disable
  PROVE  KInv'
<1> USE DEF KInv, KernelStep, LoaderStep, LowStep, TrampolineStep, MovingStep, EarlyStep, UartStep,
      TimerStep, OpenStep, HighStep, mapping, interrupts, kernelVars, Do, Go, watchdog_disable, Forever
<1>1. TableInv' BY DEF TableInv
<1>2. PlaceInv' BY DEF PlaceInv
<1>3. TlbInv' BY ZenonT(40) DEF TlbInv, TableInv
<1>4. MaskInv' BY DEF MaskInv
<1>5. ServiceInv' BY DEF ServiceInv, MaskInv
<1>6. step' \in LoaderStep \cup KernelStep OBVIOUS
<1> QED BY <1>1, <1>2, <1>3, <1>4, <1>5, <1>6

\* What was an old translation stays one.
LEMMA Removes ==
  ASSUME KInv, irq = "idle", RemoveIdentity
  PROVE  KInv'
<1> USE DEF KInv, KernelStep, LoaderStep, LowStep, TrampolineStep, MovingStep, EarlyStep, UartStep,
      TimerStep, OpenStep, HighStep, mapping, interrupts, kernelVars, Do, Go, RemoveIdentity, FinalTable
<1>1. TableInv' BY DEF TableInv
<1>2. PlaceInv' BY DEF PlaceInv
<1>3. TlbInv' BY DEF TlbInv, TableInv
<1>4. MaskInv' BY DEF MaskInv
<1>5. ServiceInv' BY DEF ServiceInv, MaskInv
<1>6. step' \in LoaderStep \cup KernelStep OBVIOUS
<1> QED BY <1>1, <1>2, <1>3, <1>4, <1>5, <1>6

\* No old translation stays.
LEMMA Flushes ==
  ASSUME KInv, irq = "idle", FlushTlb
  PROVE  KInv'
<1> USE DEF KInv, KernelStep, LoaderStep, LowStep, TrampolineStep, MovingStep, EarlyStep, UartStep,
      TimerStep, OpenStep, HighStep, mapping, interrupts, kernelVars, Do, Go, FlushTlb, Flushed, Unmapped
<1>1. TableInv' BY DEF TableInv
<1>2. PlaceInv' BY DEF PlaceInv
<1>3. TlbInv' BY DEF TlbInv, TableInv
<1>4. MaskInv' BY DEF MaskInv
<1>5. ServiceInv' BY DEF ServiceInv, MaskInv
<1>6. step' \in LoaderStep \cup KernelStep OBVIOUS
<1> QED BY <1>1, <1>2, <1>3, <1>4, <1>5, <1>6

\* The vectors move.
LEMMA MovesVectors ==
  ASSUME KInv, irq = "idle", MoveVectors
  PROVE  KInv'
<1> USE DEF KInv, KernelStep, LoaderStep, LowStep, TrampolineStep, MovingStep, EarlyStep, UartStep,
      TimerStep, OpenStep, HighStep, mapping, interrupts, kernelVars, Do, Go, MoveVectors, HighVectors
<1>1. TableInv' BY DEF TableInv
<1>2. PlaceInv' BY DEF PlaceInv
<1>3. TlbInv' BY DEF TlbInv, TableInv
<1>4. MaskInv' BY DEF MaskInv
<1>5. ServiceInv' BY DEF ServiceInv, MaskInv
<1>6. step' \in LoaderStep \cup KernelStep OBVIOUS
<1> QED BY <1>1, <1>2, <1>3, <1>4, <1>5, <1>6

\* What is left of the table of the trampoline is as it was.
LEMMA FinalIsBoot ==
  ASSUME NEW va \in Section, FinalTable[va].valid
  PROVE  FinalTable[va] = BootTable[va]
BY DEF FinalTable, Unmapped

\* What the CPU keeps is an entry of the table in force.
LEMMA Fills ==
  ASSUME KInv, NEW va \in Section, TlbFill(va)
  PROVE  KInv'
<1> USE DEF KInv, KernelStep, LoaderStep, LowStep, TrampolineStep, MovingStep, EarlyStep, UartStep,
      TimerStep, OpenStep, HighStep, interrupts, polling, TlbFill
<1>1. TableInv' BY DEF TableInv
<1>2. PlaceInv' BY DEF PlaceInv
<1>3. TlbInv'
  <2> SUFFICES ASSUME mmu', NEW x \in Section, tlb'[x].valid
               PROVE  IF step \in HighStep \cup {"vbar"} THEN tlb'[x] = FinalTable[x]
                      ELSE tlb'[x] = BootTable[x]
    <3>1. DOMAIN tlb' = Section
      BY DEF TlbInv
    <3> QED BY <3>1 DEF TlbInv
  <2>1. CASE x # va
    BY <2>1 DEF TlbInv
  <2>2. CASE x = va
    <3>1. tlb'[x] = pgd[x]
      BY <2>2 DEF TlbInv
    <3>2. pgd[x] = FinalTable[x] => pgd[x] = BootTable[x]
      BY <2>2, FinalIsBoot
    <3>3. step \in HighStep \cup {"vbar"} => pgd = FinalTable
      BY DEF TableInv
    <3>4. step \notin HighStep \cup {"vbar"} => pgd = BootTable \/ pgd = FinalTable
      BY DEF TableInv
    <3> QED BY <3>1, <3>2, <3>3, <3>4, <2>2 DEF TlbInv
  <2> QED BY <2>1, <2>2
<1>4. MaskInv' BY DEF MaskInv
<1>5. ServiceInv' BY DEF ServiceInv
<1> QED BY <1>1, <1>2, <1>3, <1>4, <1>5

-----------------------------------------------------------------------------
(* Setting up interrupts                                                   *)

\* The interrupt controller masks every line.
LEMMA Controller ==
  ASSUME KInv, irq = "idle", intc_init
  PROVE  KInv'
<1> USE DEF KInv, KernelStep, LoaderStep, LowStep, TrampolineStep, MovingStep, EarlyStep, UartStep,
      TimerStep, OpenStep, HighStep, mapping, interrupts, kernelVars, Do, Go, intc_init, intc_eoi, Line, None
<1>1. TableInv' BY DEF TableInv
<1>2. PlaceInv' BY DEF PlaceInv
<1>3. TlbInv' BY DEF TlbInv, TableInv
<1>4. MaskInv' BY DEF MaskInv
<1>5. ServiceInv' BY DEF ServiceInv, MaskInv
<1>6. step' \in LoaderStep \cup KernelStep OBVIOUS
<1> QED BY <1>1, <1>2, <1>3, <1>4, <1>5, <1>6

\* The table of handlers is empty.
LEMMA EmptyTable ==
  ASSUME KInv, irq = "idle", irq_init
  PROVE  KInv'
<1> USE DEF KInv, KernelStep, LoaderStep, LowStep, TrampolineStep, MovingStep, EarlyStep, UartStep,
      TimerStep, OpenStep, HighStep, mapping, interrupts, kernelVars, Do, Go, irq_init, Line
<1>1. TableInv' BY DEF TableInv
<1>2. PlaceInv' BY DEF PlaceInv
<1>3. TlbInv' BY DEF TlbInv, TableInv
<1>4. MaskInv' BY DEF MaskInv
<1>5. ServiceInv' BY DEF ServiceInv, MaskInv
<1>6. step' \in LoaderStep \cup KernelStep OBVIOUS
<1> QED BY <1>1, <1>2, <1>3, <1>4, <1>5, <1>6

\* The UART has its handler.
LEMMA UartReady ==
  ASSUME KInv, irq = "idle", uart_enable_rx_interrupt
  PROVE  KInv'
<1> USE DEF KInv, KernelStep, LoaderStep, LowStep, TrampolineStep, MovingStep, EarlyStep, UartStep,
      TimerStep, OpenStep, HighStep, mapping, interrupts, kernelVars, Do, Go, uart_enable_rx_interrupt, Forever, Register, Line
<1>1. TableInv' BY DEF TableInv
<1>2. PlaceInv' BY DEF PlaceInv
<1>3. TlbInv' BY DEF TlbInv, TableInv
<1>4. MaskInv' BY DEF MaskInv
<1>5. ServiceInv' BY DEF ServiceInv, MaskInv
<1>6. step' \in LoaderStep \cup KernelStep OBVIOUS
<1> QED BY <1>1, <1>2, <1>3, <1>4, <1>5, <1>6

\* The clocks of the timer.
LEMMA Clocks ==
  ASSUME KInv, irq = "idle", timer2_clock_enable
  PROVE  KInv'
<1> USE DEF KInv, KernelStep, LoaderStep, LowStep, TrampolineStep, MovingStep, EarlyStep, UartStep,
      TimerStep, OpenStep, HighStep, mapping, interrupts, kernelVars, Do, Go, timer2_clock_enable, HaltsAtZero, Bounded
<1>1. TableInv' BY ZenonT(40) DEF TableInv
<1>2. PlaceInv' BY DEF PlaceInv
<1>3. TlbInv' BY ZenonT(40) DEF TlbInv, TableInv
<1>4. MaskInv' BY DEF MaskInv
<1>5. ServiceInv' BY DEF ServiceInv, MaskInv
<1>6. step' \in LoaderStep \cup KernelStep OBVIOUS
<1> QED BY <1>1, <1>2, <1>3, <1>4, <1>5, <1>6

\* The timer has its handler before it is switched on.
LEMMA TimerReady ==
  ASSUME KInv, irq = "idle", timer_init
  PROVE  KInv'
<1> USE DEF KInv, KernelStep, LoaderStep, LowStep, TrampolineStep, MovingStep, EarlyStep, UartStep,
      TimerStep, OpenStep, HighStep, mapping, interrupts, kernelVars, Do, Go, timer_init, HaltsAtZero, GivesUp, Bounded, Register, Line
<1>1. TableInv' BY ZenonT(40) DEF TableInv
<1>2. PlaceInv' BY DEF PlaceInv
<1>3. TlbInv' BY ZenonT(40) DEF TlbInv, TableInv
<1>4. MaskInv' BY DEF MaskInv
<1>5. ServiceInv' BY DEF ServiceInv, MaskInv
<1>6. step' \in LoaderStep \cup KernelStep OBVIOUS
<1> QED BY <1>1, <1>2, <1>3, <1>4, <1>5, <1>6

\* Files and tasks.
LEMMA Prepared ==
  ASSUME KInv, irq = "idle", PrepareTasks
  PROVE  KInv'
<1> USE DEF KInv, KernelStep, LoaderStep, LowStep, TrampolineStep, MovingStep, EarlyStep, UartStep,
      TimerStep, OpenStep, HighStep, mapping, interrupts, kernelVars, Do, Go, PrepareTasks
<1>1. TableInv' BY DEF TableInv
<1>2. PlaceInv' BY DEF PlaceInv
<1>3. TlbInv' BY DEF TlbInv, TableInv
<1>4. MaskInv' BY DEF MaskInv
<1>5. ServiceInv' BY DEF ServiceInv, MaskInv
<1>6. step' \in LoaderStep \cup KernelStep OBVIOUS
<1> QED BY <1>1, <1>2, <1>3, <1>4, <1>5, <1>6

\* The CPU takes interrupts from here.
LEMMA Unmasked ==
  ASSUME KInv, irq = "idle", irq_enable
  PROVE  KInv'
<1> USE DEF KInv, KernelStep, LoaderStep, LowStep, TrampolineStep, MovingStep, EarlyStep, UartStep,
      TimerStep, OpenStep, HighStep, mapping, interrupts, kernelVars, Do, Go, irq_enable
<1>1. TableInv' BY DEF TableInv
<1>2. PlaceInv' BY DEF PlaceInv
<1>3. TlbInv' BY DEF TlbInv, TableInv
<1>4. MaskInv' BY DEF MaskInv
<1>5. ServiceInv' BY DEF ServiceInv, MaskInv
<1>6. step' \in LoaderStep \cup KernelStep OBVIOUS
<1> QED BY <1>1, <1>2, <1>3, <1>4, <1>5, <1>6

\* The first task.
LEMMA Started ==
  ASSUME KInv, irq = "idle", scheduler_start
  PROVE  KInv'
<1> USE DEF KInv, KernelStep, LoaderStep, LowStep, TrampolineStep, MovingStep, EarlyStep, UartStep,
      TimerStep, OpenStep, HighStep, mapping, interrupts, kernelVars, Do, Go, scheduler_start
<1>1. TableInv' BY DEF TableInv
<1>2. PlaceInv' BY DEF PlaceInv
<1>3. TlbInv' BY DEF TlbInv, TableInv
<1>4. MaskInv' BY DEF MaskInv
<1>5. ServiceInv' BY DEF ServiceInv, MaskInv
<1>6. step' \in LoaderStep \cup KernelStep OBVIOUS
<1> QED BY <1>1, <1>2, <1>3, <1>4, <1>5, <1>6

\* kernel_main as a whole.
LEMMA KernelMain == ASSUME KInv, kernel_main PROVE KInv'
BY Resets, Builds, Enables, Reloads, Jumps, Unwatches, Removes, Flushes, MovesVectors,
   Controller, EmptyTable, UartReady, Clocks, TimerReady, Prepared, Unmasked, Started
   DEF kernel_main

-----------------------------------------------------------------------------
(* Interrupts                                                              *)

\* An interrupt moves neither the interrupted code nor the map.
LEMMA Aside ==
  ASSUME KInv, UNCHANGED <<step, mapping>>
  PROVE  step' \in LoaderStep \cup KernelStep /\ TableInv' /\ PlaceInv' /\ TlbInv'
<1> USE DEF KInv, mapping
<1>1. TableInv' BY DEF TableInv
<1>2. PlaceInv' BY DEF PlaceInv
<1>3. TlbInv' BY DEF TlbInv
<1> QED BY <1>1, <1>2, <1>3

\* A device raises its line.
LEMMA Raises ==
  ASSUME KInv, NEW line \in Line, Raise(line)
  PROVE  KInv'
<1> USE DEF KInv, polling, mapping, Line, Raise
<1>1. UNCHANGED <<step, mapping>>
  OBVIOUS
<1>2. MaskInv'
  BY DEF MaskInv
<1>3. ServiceInv'
  BY DEF ServiceInv, MaskInv
<1> QED BY <1>1, <1>2, <1>3, Aside

\* A line is presented while it is up.
LEMMA Presents ==
  ASSUME KInv, NEW what \in Line \cup {Spurious}, Present(what)
  PROVE  KInv'
<1> USE DEF KInv, polling, mapping, Line, Present, Spurious, None
<1>1. UNCHANGED <<step, mapping>>
  OBVIOUS
<1>2. MaskInv'
  BY DEF MaskInv
<1>3. ServiceInv'
  BY DEF ServiceInv, MaskInv
<1> QED BY <1>1, <1>2, <1>3, Aside

\* An interrupt is taken.
LEMMA Enters ==
  ASSUME KInv, exception_entry_irq
  PROVE  KInv'
<1> USE DEF KInv, polling, mapping, Line, exception_entry_irq, interruptStep, None
<1>1. UNCHANGED <<step, mapping>>
  OBVIOUS
<1>2. MaskInv'
  BY DEF MaskInv
<1>3. ServiceInv'
  BY DEF ServiceInv, MaskInv
<1> QED BY <1>1, <1>2, <1>3, Aside

\* Dispatch, on each of its paths.
LEMMA Dispatches ==
  ASSUME KInv, irq_dispatch
  PROVE  KInv'
<1> USE DEF KInv, polling, mapping, Line, irq_dispatch, interruptStep, Called, Unhandled,
      Ends, intc_eoi, None
<1>1. UNCHANGED <<step, mapping>>
  OBVIOUS
<1>2. MaskInv'
  BY DEF MaskInv
<1>3. ServiceInv'
  BY DEF ServiceInv, MaskInv
<1> QED BY <1>1, <1>2, <1>3, Aside

\* A handler clears its line.
LEMMA Serves ==
  ASSUME KInv, NEW line \in Line, Handler(line)
  PROVE  KInv'
<1> USE DEF KInv, polling, mapping, Line, Handler, interruptStep
<1>1. UNCHANGED <<step, mapping>>
  OBVIOUS
<1>2. MaskInv'
  BY DEF MaskInv
<1>3. ServiceInv'
  BY DEF ServiceInv, MaskInv
<1> QED BY <1>1, <1>2, <1>3, Aside

\* The end of interrupt is written.
LEMMA EndsOne ==
  ASSUME KInv, EndOfInterrupt
  PROVE  KInv'
<1> USE DEF KInv, polling, mapping, Line, EndOfInterrupt, interruptStep, Ends, intc_eoi, None
<1>1. UNCHANGED <<step, mapping>>
  OBVIOUS
<1>2. MaskInv'
  BY DEF MaskInv
<1>3. ServiceInv'
  BY DEF ServiceInv, MaskInv
<1> QED BY <1>1, <1>2, <1>3, Aside

\* Back to the interrupted code.
LEMMA Returns ==
  ASSUME KInv, ReturnFromInterrupt
  PROVE  KInv'
<1> USE DEF KInv, polling, mapping, Line, ReturnFromInterrupt, interruptStep
<1>1. UNCHANGED <<step, mapping>>
  OBVIOUS
<1>2. MaskInv'
  BY DEF MaskInv
<1>3. ServiceInv'
  BY DEF ServiceInv, MaskInv
<1> QED BY <1>1, <1>2, <1>3, Aside

\* A device answers.
LEMMA Answers ==
  ASSUME KInv, NEW w, Responds(w), UNCHANGED kernelVars
  PROVE  KInv'
BY DEF KInv, TableInv, PlaceInv, TlbInv, MaskInv, ServiceInv, Responds, kernelVars, mapping, interrupts

\* A step that changes nothing.
LEMMA Stutters == ASSUME KInv, UNCHANGED vars PROVE KInv'
BY DEF KInv, TableInv, PlaceInv, TlbInv, MaskInv, ServiceInv, vars, polling, kernelVars, mapping,
   interrupts

-----------------------------------------------------------------------------
(* The invariant                                                           *)

\* Power on.
LEMMA Initially == Init => KInv
BY DEF Init, LoaderInit, KernelInit, KInv, TableInv, PlaceInv, TlbInv, MaskInv, ServiceInv,
   KernelStep, LoaderStep, LowStep, TrampolineStep, MovingStep, EarlyStep, UartStep, TimerStep,
   OpenStep, HighStep, Line, None

\* Bootloader, kernel, interrupts and devices.
LEMMA Step == KInv /\ [Next]_vars => KInv'
<1> SUFFICES ASSUME KInv, [Next]_vars PROVE KInv'
  OBVIOUS
<1>1. CASE LoaderNext /\ UNCHANGED kernelVars
  BY <1>1, LoaderKeeps
<1>2. CASE KernelNext
  <2>1. CASE kernel_main
    BY <2>1, KernelMain
  <2>2. CASE InterruptCode
    <3>1. CASE timer_irq_handler \/ uart_rx_irq_handler
      BY <3>1, Serves DEF timer_irq_handler, uart_rx_irq_handler, Line
    <3> QED BY <2>2, <3>1, Enters, Dispatches, EndsOne, Returns DEF InterruptCode
  <2>3. CASE Devices
    BY <2>3, Answers, Raises, Presents DEF Devices
  <2>4. CASE \E va \in Section : TlbFill(va)
    BY <2>4, Fills
  <2> QED BY <1>2, <2>1, <2>2, <2>3, <2>4 DEF KernelNext
<1>3. CASE UNCHANGED vars
  BY <1>3, Stutters
<1> QED BY <1>1, <1>2, <1>3 DEF Next

\* In every state of the boot and after it.
LEMMA Invariant == Spec => []KInv
BY Initially, Step, PTL DEF Spec

-----------------------------------------------------------------------------
(* The theorems                                                            *)

\* The tables map the kernel to where it is.
LEMMA Frames ==
  /\ BootTable[DdrPA] = Mapped(DdrPA)
  /\ BootTable[DdrVA] = Mapped(DdrPA)
  /\ FinalTable[DdrVA] = Mapped(DdrPA)
  /\ DdrPA \in Section /\ DdrVA \in Section
<1>1. DdrPA \in Identity /\ DdrVA \in KernelVA
  BY KernelAssumption DEF Identity, KernelVA
<1>2. DdrPA \in Section /\ DdrVA \in Section /\ DdrVA \notin Identity
  BY <1>1, KernelAssumption
<1>3. DdrVA - DdrVA + DdrPA = DdrPA
  BY KernelAssumption
<1> QED BY <1>1, <1>2, <1>3 DEF BootTable, FinalTable

\* Behind mmu_init the high address of the kernel is the one that counts.
LEMMA HighReaches == ASSUME KInv, step \in HighStep PROVE Reaches(DdrVA, DdrPA)
<1>1. mmu /\ pgd = FinalTable
  BY DEF KInv, TableInv, HighStep, EarlyStep, UartStep, TimerStep, OpenStep, LoaderStep, LowStep
<1>2. tlb[DdrVA].valid => tlb[DdrVA] = FinalTable[DdrVA]
  BY <1>1, Frames DEF KInv, TlbInv
<1> QED BY <1>1, <1>2, Frames DEF Reaches, Translations, Mapped

\* Before, both do.
LEMMA LowReaches ==
  ASSUME KInv, mmu, step \notin HighStep,
         NEW va \in {DdrPA, DdrVA}, va = DdrVA \/ step \in {"stacks", "jump"}
  PROVE  Reaches(va, DdrPA)
<1> USE DEF KInv, KernelStep, TrampolineStep, MovingStep, LoaderStep, LowStep
<1>1. pgd[va] = Mapped(DdrPA)
  <2>1. pgd = BootTable \/ (va = DdrVA /\ pgd = FinalTable)
    BY DEF TableInv
  <2> QED BY <2>1, Frames
<1>2. tlb[va].valid => tlb[va] = Mapped(DdrPA)
  BY Frames DEF TlbInv
<1>3. Mapped(DdrPA).valid /\ Mapped(DdrPA).frame = DdrPA
  BY DEF Mapped
<1>4. \A e \in Translations(va) : e = Mapped(DdrPA)
  BY <1>1, <1>2 DEF Translations
<1> QED BY <1>1, <1>3, <1>4, Zenon DEF Reaches

\* Through MMU, move of the stacks, jump and removal of the identity map the
\* running code and its stack stay where they are.
THEOREM CodeTheorem == Spec => []CodeStaysMapped
<1>1. KInv => CodeStaysMapped
  <2> SUFFICES ASSUME KInv PROVE CodeStaysMapped
    OBVIOUS
  <2>1. CASE step \in LoaderStep \cup LowStep
    BY <2>1 DEF KInv, TableInv, PlaceInv, CodeStaysMapped, Reaches
  <2>2. CASE step \in HighStep
    <3>1. code = DdrVA /\ stacks = DdrVA
      BY <2>2 DEF KInv, PlaceInv
    <3> QED BY <2>2, <3>1, HighReaches DEF CodeStaysMapped
  <2>3. CASE step \in {"stacks", "jump"} \cup TrampolineStep \cup MovingStep
    <3>1. mmu /\ step \notin HighStep
      BY <2>3 DEF KInv, TableInv, TrampolineStep, MovingStep, LoaderStep, LowStep, HighStep,
                  EarlyStep, UartStep, TimerStep, OpenStep
    <3>2. \A va \in {code, stacks} :
            va \in {DdrPA, DdrVA} /\ (va = DdrVA \/ step \in {"stacks", "jump"})
      BY <2>3 DEF KInv, PlaceInv
    <3> QED BY <3>1, <3>2, LowReaches DEF CodeStaysMapped
  <2> QED BY <2>1, <2>2, <2>3 DEF KInv, KernelStep
<1> QED BY <1>1, Invariant, PTL

\* An interrupt that can be taken finds its vectors mapped and its handler in
\* the table.
THEOREM HandlersTheorem == Spec => []InterruptsHaveHandlers
<1>1. KInv => InterruptsHaveHandlers
  <2> SUFFICES ASSUME KInv, ~ masked PROVE Reaches(vbar, DdrPA) /\ Line \ mir \subseteq handlers
    BY DEF InterruptsHaveHandlers
  <2>1. step \in OpenStep
    BY DEF KInv, MaskInv
  <2>2. vbar = DdrVA /\ step \in HighStep
    BY <2>1 DEF KInv, PlaceInv, HighStep
  <2>3. Line \subseteq handlers
    BY <2>1 DEF KInv, MaskInv, Line
  <2> QED BY <2>2, <2>3, HighReaches
<1> QED BY <1>1, Invariant, PTL

\* User space and peripherals lie outside the kernel's frames.
LEMMA Apart ==
  ASSUME NEW va \in Section, FinalTable[va].valid
  PROVE  /\ FinalTable[va].user => FinalTable[va].frame \notin KernelFrame
         /\ FinalTable[va].frame \in KernelFrame =>
              va = FinalTable[va].frame - DdrPA + DdrVA
<1> DEFINE e == FinalTable[va]
<1>1. UserFrame \notin KernelFrame
  BY KernelAssumption DEF UserFrame, KernelFrame
<1>2. KernelFrame \subseteq Identity
  BY KernelAssumption DEF KernelFrame, Identity
<1>3. \/ va \in KernelVA /\ e = Mapped(va - DdrVA + DdrPA)
      \/ e = User(UserFrame)
      \/ va \in Peripheral /\ e = Mapped(va)
  BY DEF FinalTable, BootTable, Unmapped
<1>4. CASE va \in KernelVA /\ e = Mapped(va - DdrVA + DdrPA)
  <2>1. va = (va - DdrVA + DdrPA) - DdrPA + DdrVA
    BY <1>4, KernelAssumption DEF KernelVA
  <2> QED BY <1>4, <2>1 DEF Mapped
<1>5. CASE e = User(UserFrame)
  BY <1>5, <1>1 DEF User
<1>6. CASE va \in Peripheral /\ e = Mapped(va)
  <2>1. va \notin KernelFrame
    BY <1>6, <1>2, KernelAssumption
  <2> QED BY <1>6, <2>1 DEF Mapped
<1> QED BY <1>3, <1>4, <1>5, <1>6

\* When tasks run, user code reaches no frame of the kernel and each of its
\* frames has one address, in the page table and in what the CPU has kept.
THEOREM IsolationTheorem == Spec => []Isolated
<1>1. KInv => Isolated
  <2> SUFFICES ASSUME KInv, step \in OpenStep, NEW va \in Section, NEW e \in Translations(va)
               PROVE  /\ e.user => e.frame \notin KernelFrame
                      /\ e.frame \in KernelFrame => va = e.frame - DdrPA + DdrVA
    BY DEF Isolated, OpenStep
  <2>1. mmu /\ pgd = FinalTable
    BY DEF KInv, TableInv, HighStep, OpenStep, LoaderStep, LowStep
  <2>2. e = FinalTable[va] /\ e.valid
    BY <2>1 DEF KInv, TlbInv, Translations, HighStep
  <2> QED BY <2>2, Apart
<1> QED BY <1>1, Invariant, PTL

\* A handler runs only for a device that wants it.
THEOREM PhantomTheorem == Spec => []NoPhantomInterrupt
<1>1. KInv => NoPhantomInterrupt
  BY DEF KInv, ServiceInv, NoPhantomInterrupt
<1> QED BY <1>1, Invariant, PTL

-----------------------------------------------------------------------------
(* The image                                                               *)

\* The bootloader before the memory test, before the first ACMD41, with the
\* card being made ready, with it being selected, and reading.
ClockStep == {"wdt1", "wdt2", "uart", "bypass", "lock", "emif", "mmc0", "uart0", "vtp"}
ResetStep == {"reset", "lines", "power", "clock", "init", "cmd0", "cmd8"}
ReadyStep == {"cmd55", "cmd41"}
SelectStep == {"cmd2", "cmd3", "cmd9", "cmd7", "clock2", "cmd16", "initialized"}
ReadStep == {"brr", "tc", "next"}
CheckStep == {"magic", "flush"}

CardRecord ==
  [state : {"idle", "ready", "ident", "stby", "tran"},
   v2 : BOOLEAN, app : BOOLEAN, sdhc : BOOLEAN, sized : BOOLEAN]

LoaderType ==
  /\ timeout \in -1 .. Polls
  /\ fault \in StuckBit \cup {Sound}
  /\ card \in CardRecord
  /\ {missed, sdhc_card, damaged} \subseteq BOOLEAN
  /\ memory \in [Cell -> MemoryWord]

\* The counter of attempts is a sector while the kernel is read.
CountInv ==
  /\ attempt \in Nat
  /\ step \in ReadStep => attempt \in Cell
  /\ step \in ClockStep \cup {"test"} \cup ResetStep => attempt = 0
  /\ step \in ReadyStep => attempt < Tries

\* Behind the memory test every tested cell holds what is written to it.
SoundInv ==
  /\ step \in ClockStep => fault = Sound
  /\ step \in ResetStep \cup ReadyStep \cup SelectStep \cup ReadStep \cup CheckStep =>
       \A a \in Cell : fault.cell = a => a >= Tested

\* A card that is more than idle has told the host its kind, unless that answer
\* is the one that was missed.
CardInv ==
  /\ step \in ClockStep \cup {"test"} \cup ResetStep => sdhc_card = FALSE /\ ~ missed
  /\ step \in ClockStep \cup {"test"} \cup ResetStep \cup ReadyStep /\ ~ missed =>
       card.state = "idle"
  /\ step \in SelectStep \cup ReadStep /\ ~ missed =>
       card.state = "idle" \/ sdhc_card = card.sdhc

\* The sectors that have been read are in memory, where it works.
Copied(a) == memory[a] = Disk[KernelStart + a] \/ fault.cell = a

BlockInv ==
  /\ step \in ClockStep \cup {"test"} \cup ResetStep \cup ReadyStep \cup SelectStep =>
       "brr" \notin ready /\ "tc" \notin ready
  /\ step = "brr" => "tc" \notin ready
  /\ step = "brr" /\ "brr" \in ready => card.state = "tran" /\ Addressed \in DOMAIN Disk
  /\ step = "tc" /\ "tc" \in ready => ~ damaged
  /\ step = "tc" /\ ~ missed /\ ~ damaged => Copied(attempt)
  /\ step = "next" /\ ~ missed => Copied(attempt)
  /\ step \in ReadStep /\ ~ missed => \A a \in Cell : a < attempt => Copied(a)
  /\ step \in CheckStep /\ ~ missed => \A a \in Cell : Copied(a)

LInv == LoaderType /\ CountInv /\ SoundInv /\ CardInv /\ BlockInv

\* What ddr_test writes are words.
LEMMA PatternWords == Pattern[1] \in MemoryWord /\ Pattern[2] \in MemoryWord
<1>1. Pattern \in Seq(MemoryWord) /\ Len(Pattern) = 2
  BY LoaderAssumption
<1>2. 1 \in 1 .. Len(Pattern) /\ 2 \in 1 .. Len(Pattern)
  BY <1>1
<1> QED BY <1>1, <1>2

\* Watchdog, UART and clocks.
LEMMA Clocked ==
  ASSUME LInv, disable_watchdog \/ uart_init \/ enable_peripheral_clocks \/ config_ddr_pll
  PROVE  LInv'
<1> USE PollsAssumption, LoaderAssumption
      DEF LInv, ClockStep, ResetStep, ReadyStep, SelectStep, ReadStep, CheckStep, Go,
      cardVars, memoryVars, loaderVars, disable_watchdog, uart_init, enable_peripheral_clocks,
      config_ddr_pll, Forever, GivesUp, Bounded
<1>1. LoaderType'
  BY DEF LoaderType
<1>2. CountInv'
  BY DEF CountInv
<1>3. SoundInv'
  BY DEF SoundInv
<1>4. CardInv'
  BY DEF CardInv
<1>5. BlockInv'
  BY DEF BlockInv, Copied, Addressed, Argument
<1> QED BY <1>1, <1>2, <1>3, <1>4, <1>5

\* The MMC controller.
LEMMA Controlled ==
  ASSUME LInv, mmc_controller \/ FasterClock
  PROVE  LInv'
<1> USE PollsAssumption, LoaderAssumption
      DEF LInv, ClockStep, ResetStep, ReadyStep, SelectStep, ReadStep, CheckStep, Go,
      cardVars, memoryVars, loaderVars, mmc_controller, FasterClock, OrFail
<1>1. LoaderType'
  BY DEF LoaderType
<1>2. CountInv'
  BY DEF CountInv
<1>3. SoundInv'
  BY DEF SoundInv
<1>4. CardInv'
  BY DEF CardInv
<1>5. BlockInv'
  BY DEF BlockInv, Copied, Addressed, Argument
<1> QED BY <1>1, <1>2, <1>3, <1>4, <1>5

\* Reading begins.
LEMMA Initializes ==
  ASSUME LInv, Initialized
  PROVE  LInv'
<1> USE PollsAssumption, LoaderAssumption
      DEF LInv, ClockStep, ResetStep, ReadyStep, SelectStep, ReadStep, CheckStep, Go,
      cardVars, memoryVars, loaderVars, Initialized, Cell
<1>1. LoaderType'
  BY DEF LoaderType
<1>2. CountInv'
  BY DEF CountInv
<1>3. SoundInv'
  BY DEF SoundInv
<1>4. CardInv'
  BY DEF CardInv
<1>5. BlockInv'
  BY DEF BlockInv, Copied, Addressed, Argument
<1> QED BY <1>1, <1>2, <1>3, <1>4, <1>5

\* The transfer of a block is complete and without an error.
LEMMA Finishes ==
  ASSUME LInv, FinishBlock
  PROVE  LInv'
<1> USE PollsAssumption, LoaderAssumption
      DEF LInv, ClockStep, ResetStep, ReadyStep, SelectStep, ReadStep, CheckStep, Go,
      cardVars, memoryVars, loaderVars, FinishBlock, Completes, OrFail
<1>1. LoaderType'
  BY DEF LoaderType
<1>2. CountInv'
  BY DEF CountInv
<1>3. SoundInv'
  BY DEF SoundInv
<1>4. CardInv'
  BY DEF CardInv
<1>5. BlockInv'
  BY DEF BlockInv, Copied, Addressed, Argument
<1> QED BY <1>1, <1>2, <1>3, <1>4, <1>5

\* The magic word, and the jump.
LEMMA Checks ==
  ASSUME LInv, CheckMagic \/ uart_flush
  PROVE  LInv'
<1> USE PollsAssumption, LoaderAssumption
      DEF LInv, ClockStep, ResetStep, ReadyStep, SelectStep, ReadStep, CheckStep, Go,
      cardVars, memoryVars, loaderVars, CheckMagic, uart_flush
<1>1. LoaderType'
  <2>1. CASE CheckMagic
    BY <2>1 DEF LoaderType
  <2>2. CASE uart_flush
    <3>1. card' \in CardRecord
      BY <2>2 DEF CardRecord
    <3>2. memory' \in [Cell -> MemoryWord]
      BY <2>2, PatternWords
    <3>3. {missed', sdhc_card', damaged'} \subseteq BOOLEAN
      BY <2>2
    <3>4. timeout' \in -1 .. Polls /\ fault' = Sound
      BY <2>2
    <3> QED BY <3>1, <3>2, <3>3, <3>4, Zenon DEF LoaderType
  <2> QED BY <2>1, <2>2
<1>2. CountInv'
  BY DEF CountInv
<1>3. SoundInv'
  BY DEF SoundInv
<1>4. CardInv'
  BY DEF CardInv
<1>5. BlockInv'
  BY DEF BlockInv, Copied, Addressed, Argument
<1> QED BY <1>1, <1>2, <1>3, <1>4, <1>5

\* One sector more.
LEMMA Nexts ==
  ASSUME LInv, NextBlock
  PROVE  LInv'
<1> USE PollsAssumption, LoaderAssumption
      DEF LInv, ClockStep, ResetStep, ReadyStep, SelectStep, ReadStep, CheckStep, Go,
      cardVars, memoryVars, loaderVars, NextBlock, Last, Cell
<1>1. LoaderType'
  BY DEF LoaderType
<1>2. CountInv'
  BY DEF CountInv
<1>3. SoundInv'
  BY DEF SoundInv
<1>4. CardInv'
  BY DEF CardInv
<1>5. BlockInv'
  <2>1. ~ missed => \A a \in Cell : a < attempt + 1 => Copied(a)
    BY DEF BlockInv, CountInv
  <2>2. ~ missed /\ Last => \A a \in Cell : Copied(a)
    BY <2>1 DEF Last
  <2> QED BY <2>1, <2>2 DEF BlockInv, Copied, Addressed, Argument
<1> QED BY <1>1, <1>2, <1>3, <1>4, <1>5

\* What a command, obeyed or missed, makes of the card.
LEMMA Command ==
  ASSUME card \in CardRecord, NEW ok \in BOOLEAN,
         NEW c \in {"cmd0", "cmd8", "cmd55", "cmd41", "cmd2", "cmd3", "cmd9", "cmd7", "cmd16"},
         mmc_send_cmd(c, ok)
  PROVE  /\ card' \in CardRecord /\ card'.sdhc = card.sdhc
         /\ card.state = "idle" => card'.state = "idle" \/ (c = "cmd41" /\ card'.state = "ready")
         /\ c = "cmd41" /\ ok => rsp' = Answer(c, card')
<1>1. CASE UNCHANGED <<card, rsp>> /\ ok = (c = "cmd0")
  BY <1>1
<1>2. CASE Obeys(c) /\ card' \in After(c)
  <2>1. \A x \in After(c) :
          /\ x \in CardRecord /\ x.sdhc = card.sdhc
          /\ card.state = "idle" => x.state = "idle" \/ (c = "cmd41" /\ x.state = "ready")
    <3> USE <1>2 DEF Obeys, After, CardRecord
    <3>1. CASE c = "cmd0" BY <3>1
    <3>2. CASE c = "cmd8" BY <3>2
    <3>3. CASE c = "cmd55" BY <3>3
    <3>4. CASE c = "cmd41" BY <3>4, ZenonT(40)
    <3>5. CASE c = "cmd2" BY <3>5
    <3>6. CASE c = "cmd3" BY <3>6
    <3>7. CASE c = "cmd9" BY <3>7
    <3>8. CASE c = "cmd7" BY <3>8
    <3>9. CASE c = "cmd16" BY <3>9
    <3> QED BY <3>1, <3>2, <3>3, <3>4, <3>5, <3>6, <3>7, <3>8, <3>9
  <2>3. c = "cmd41" /\ ok => rsp' = Answer(c, card')
    BY DEF mmc_send_cmd
  <2> QED BY <1>2, <2>1, <2>3
<1> QED BY <1>1, <1>2 DEF mmc_send_cmd

\* The commands before the first ACMD41.
LEMMA Resetting ==
  ASSUME LInv, Reset
  PROVE  LInv'
<1> USE PollsAssumption, LoaderAssumption
      DEF LInv, ClockStep, ResetStep, ReadyStep, SelectStep, ReadStep, CheckStep, Go,
      cardVars, memoryVars, loaderVars, Reset, Unchecked
<1>6. card' \in CardRecord /\ (card.state = "idle" => card'.state = "idle")
  BY Command DEF LoaderType
<1>1. LoaderType'
  BY <1>6 DEF LoaderType
<1>2. CountInv'
  BY <1>6 DEF CountInv
<1>3. SoundInv'
  BY <1>6 DEF SoundInv
<1>4. CardInv'
  BY <1>6 DEF CardInv
<1>5. BlockInv'
  BY <1>6 DEF BlockInv
<1> QED BY <1>1, <1>2, <1>3, <1>4, <1>5

\* One attempt more, with the card as it is.
LEMMA Tried ==
  ASSUME LInv, step \in ReadyStep, TryAgain, UNCHANGED <<ready, memoryVars>>,
         card' \in CardRecord, missed' \in BOOLEAN,
         ~ missed' => ~ missed /\ card'.state = "idle"
  PROVE  LInv'
<1> USE PollsAssumption, LoaderAssumption
      DEF LInv, ClockStep, ResetStep, ReadyStep, SelectStep, ReadStep, CheckStep, Go,
      cardVars, memoryVars, loaderVars
<1>1. attempt' = attempt + 1 /\ step' \in {"cmd55", "cmd2"} /\ timeout' = Polls
  BY DEF TryAgain
<1>2. step' = "cmd55" => attempt + 1 < Tries
  BY DEF TryAgain
<1>3. LoaderType' BY <1>1 DEF LoaderType, TryAgain
<1>4. CountInv' BY <1>1, <1>2 DEF CountInv
<1>5. SoundInv' BY <1>1 DEF SoundInv
<1>6. CardInv' BY <1>1 DEF CardInv
<1>7. BlockInv' BY <1>1 DEF BlockInv
<1> QED BY <1>3, <1>4, <1>5, <1>6, <1>7

\* CMD55.
LEMMA Announced == ASSUME LInv, APP_CMD PROVE LInv'
<1> USE PollsAssumption, LoaderAssumption
      DEF LInv, ClockStep, ResetStep, ReadyStep, SelectStep, ReadStep, CheckStep, Go,
      cardVars, memoryVars, loaderVars
<1>1. card' \in CardRecord /\ (card.state = "idle" => card'.state = "idle")
  BY Command DEF LoaderType, APP_CMD
<1>2. step = "cmd55" /\ (~ missed => card'.state = "idle") /\ UNCHANGED <<ready, missed, memoryVars>>
  BY <1>1 DEF APP_CMD, CardInv
<1>3. CASE TryAgain
  BY <1>1, <1>2, <1>3, Tried DEF LoaderType
<1>4. CASE step' = "cmd41" /\ timeout' = Polls /\ UNCHANGED <<attempt, sdhc_card>>
  <2>1. LoaderType' BY <1>1, <1>2, <1>4 DEF LoaderType
  <2>2. CountInv' BY <1>2, <1>4 DEF CountInv
  <2>3. SoundInv' BY <1>2, <1>4 DEF SoundInv
  <2>4. CardInv' BY <1>2, <1>4 DEF CardInv
  <2>5. BlockInv' BY <1>2, <1>4 DEF BlockInv
  <2> QED BY <2>1, <2>2, <2>3, <2>4, <2>5
<1> QED BY <1>3, <1>4 DEF APP_CMD

\* ACMD41: a card that becomes ready says of which kind it is, or is missed.
LEMMA Asked == ASSUME LInv, ACMD41 PROVE LInv'
<1> USE PollsAssumption, LoaderAssumption
      DEF LInv, ClockStep, ResetStep, ReadyStep, SelectStep, ReadStep, CheckStep, Go,
      cardVars, memoryVars, loaderVars
<1>1. /\ card' \in CardRecord
      /\ card.state = "idle" => card'.state \in {"idle", "ready"}
  BY Command DEF LoaderType, ACMD41
<1>2. step = "cmd41" /\ (~ missed => card.state = "idle") /\ UNCHANGED <<ready, memoryVars>>
  BY DEF ACMD41, CardInv
<1>3. CASE mmc_send_cmd("cmd41", FALSE) /\ TryAgain /\ missed' = (missed \/ card'.state = "ready")
  <2>1. ~ missed' => ~ missed /\ card'.state = "idle"
    BY <1>1, <1>2, <1>3 DEF LoaderType
  <2> QED BY <1>1, <1>2, <1>3, <2>1, Tried DEF LoaderType
<1>4. ASSUME mmc_send_cmd("cmd41", TRUE)
      PROVE  rsp' = Answer("cmd41", card')
  BY <1>4, Command DEF LoaderType
<1>5. CASE mmc_send_cmd("cmd41", TRUE) /\ rsp' = "busy" /\ TryAgain /\ UNCHANGED missed
  <2>1. card'.state # "ready"
    BY <1>4, <1>5 DEF Answer
  <2> QED BY <1>1, <1>2, <1>5, <2>1, Tried DEF LoaderType
<1>6. CASE /\ mmc_send_cmd("cmd41", TRUE) /\ rsp' # "busy"
           /\ sdhc_card' = Capacity
           /\ Go("cmd2")
           /\ UNCHANGED <<attempt, missed>>
  <2>1. card'.sdhc \in BOOLEAN /\ sdhc_card' = card'.sdhc
    BY <1>1, <1>4, <1>6 DEF Answer, Capacity, CardRecord
  <2>2. LoaderType' BY <1>1, <1>2, <1>6, <2>1 DEF LoaderType
  <2>3. CountInv' BY <1>2, <1>6 DEF CountInv
  <2>4. SoundInv' BY <1>2, <1>6 DEF SoundInv
  <2>5. CardInv' BY <1>6, <2>1 DEF CardInv
  <2>6. BlockInv' BY <1>2, <1>6 DEF BlockInv
  <2> QED BY <2>2, <2>3, <2>4, <2>5, <2>6
<1> QED BY <1>3, <1>5, <1>6 DEF ACMD41

\* The commands behind it.
LEMMA Selected ==
  ASSUME LInv, Identify
  PROVE  LInv'
<1> USE PollsAssumption, LoaderAssumption
      DEF LInv, ClockStep, ResetStep, ReadyStep, SelectStep, ReadStep, CheckStep, Go,
      cardVars, memoryVars, loaderVars, Identify, Unchecked
<1>6. /\ card' \in CardRecord /\ card'.sdhc = card.sdhc
      /\ card.state = "idle" => card'.state = "idle"
  BY Command DEF LoaderType
<1>1. LoaderType'
  BY <1>6 DEF LoaderType
<1>2. CountInv'
  BY <1>6 DEF CountInv
<1>3. SoundInv'
  BY <1>6 DEF SoundInv
<1>4. CardInv'
  BY <1>6 DEF CardInv
<1>5. BlockInv'
  BY <1>6 DEF BlockInv
<1> QED BY <1>1, <1>2, <1>3, <1>4, <1>5

-----------------------------------------------------------------------------
(* Memory and blocks                                                       *)

\* A cell without a stuck bit holds what is written to it, and a stuck bit does
\* not pass both patterns.
LEMMA SoundHolds ==
  ASSUME NEW a \in Cell, fault.cell # a, NEW w
  PROVE  Held(a, w) = w
BY DEF Held

LEMMA StuckFails ==
  ASSUME NEW a \in Cell, fault \in StuckBit, fault.cell = a
  PROVE  ~ Holds(a)
<1>1. fault.bit \in Bits /\ fault.value \in {0, 1}
  BY DEF StuckBit
<1>2. \A w \in MemoryWord : Held(a, w) = w => w[fault.bit] = fault.value
  <2> SUFFICES ASSUME NEW w \in MemoryWord, Held(a, w) = w PROVE w[fault.bit] = fault.value
    OBVIOUS
  <2>1. [w EXCEPT ![fault.bit] = fault.value] = w
    BY DEF Held
  <2>2. [w EXCEPT ![fault.bit] = fault.value][fault.bit] = fault.value
    BY <1>1 DEF MemoryWord
  <2> QED BY <2>1, <2>2
<1>3. Pattern[1][fault.bit] # Pattern[2][fault.bit]
  <2>1. Pattern[1][fault.bit] \in {0, 1}
    BY <1>1, PatternWords DEF MemoryWord
  <2>2. Pattern[2][fault.bit] = 1 - Pattern[1][fault.bit]
    BY <1>1, LoaderAssumption
  <2> QED BY <2>1, <2>2
<1> QED BY <1>2, <1>3, PatternWords DEF Holds

\* A word stays a word in any memory.
LEMMA HeldWord ==
  ASSUME NEW a \in Cell, NEW w \in MemoryWord, fault \in StuckBit \cup {Sound}
  PROVE  Held(a, w) \in MemoryWord
<1>1. CASE fault.cell = a
  <2>1. Sound.cell # a
    BY LoaderAssumption DEF Sound, Cell
  <2>2. fault.bit \in Bits /\ fault.value \in {0, 1}
    BY <1>1, <2>1 DEF StuckBit
  <2> QED BY <1>1, <2>2 DEF Held, MemoryWord
<1>2. CASE fault.cell # a
  BY <1>2 DEF Held
<1> QED BY <1>1, <1>2

\* Clock and calibration may have failed.
LEMMA Calibrated == ASSUME LInv, ddr_init PROVE LInv'
<1> USE PollsAssumption, LoaderAssumption
      DEF LInv, ClockStep, ResetStep, ReadyStep, SelectStep, ReadStep, CheckStep, Go,
      cardVars, memoryVars, loaderVars
<1>1. /\ step = "vtp" /\ step' \in {"vtp", "test"} /\ timeout' \in -1 .. Polls
      /\ UNCHANGED <<ready, cardVars, damaged, memory>>
  BY DEF ddr_init, GivesUp, Bounded, LoaderType
<1>2. fault' \in StuckBit \cup {Sound} /\ (step' = "vtp" => fault' = fault)
  BY <1>1 DEF ddr_init, LoaderType
<1>3. LoaderType' BY <1>1, <1>2 DEF LoaderType
<1>4. CountInv' BY <1>1 DEF CountInv
<1>5. SoundInv' BY <1>1, <1>2 DEF SoundInv
<1>6. CardInv' BY <1>1 DEF CardInv
<1>7. BlockInv' BY <1>1 DEF BlockInv
<1> QED BY <1>3, <1>4, <1>5, <1>6, <1>7

\* A memory that passes the test has no stuck bit among the tested cells.
LEMMA MemoryTest == ASSUME LInv, ddr_test PROVE LInv'
<1> USE PollsAssumption, LoaderAssumption
      DEF LInv, ClockStep, ResetStep, ReadyStep, SelectStep, ReadStep, CheckStep, Go,
      cardVars, memoryVars, loaderVars
<1>1. /\ step = "test" /\ step' \in {"reset", "panic"} /\ timeout' = Polls
      /\ UNCHANGED <<ready, cardVars, fault, damaged>>
      /\ memory' = [a \in Cell |-> IF a < Tested THEN Held(a, Pattern[2]) ELSE memory[a]]
  BY DEF ddr_test
<1>2. step' = "reset" => \A a \in Cell : a < Tested => Holds(a)
  BY DEF ddr_test
<1>3. \A a \in Cell : Sound.cell # a
  BY DEF Sound, Cell
<1>4. LoaderType'
  <2>1. memory' \in [Cell -> MemoryWord]
    BY <1>1, HeldWord, PatternWords DEF LoaderType
  <2> QED BY <1>1, <2>1 DEF LoaderType
<1>5. CountInv' BY <1>1 DEF CountInv
<1>6. SoundInv'
  <2>1. step' = "reset" => \A a \in Cell : fault.cell = a => ~ (a < Tested)
    BY <1>2, <1>3, StuckFails DEF LoaderType
  <2> QED BY <1>1, <2>1 DEF SoundInv
<1>7. CardInv' BY <1>1 DEF CardInv
<1>8. BlockInv' BY <1>1 DEF BlockInv
<1> QED BY <1>4, <1>5, <1>6, <1>7, <1>8

\* A host that knows the kind of the card reads the sector it means.
LEMMA RightSector ==
  ASSUME sdhc_card = card.sdhc, attempt \in Nat
  PROVE  Addressed = KernelStart + attempt
<1>1. KernelStart + attempt \in Nat /\ BlockSize \in Nat \ {0}
  BY LoaderAssumption
<1>2. \A x \in Nat : (x * BlockSize) \div BlockSize = x
  BY <1>1
<1> QED BY <1>1, <1>2 DEF Addressed, Argument

\* A block goes to its cell; one without a damage is the sector that was meant.
LEMMA Reads == ASSUME LInv, ReadBlock PROVE LInv'
<1> USE PollsAssumption, LoaderAssumption
      DEF LInv, ClockStep, ResetStep, ReadyStep, SelectStep, ReadStep, CheckStep, Go,
      cardVars, memoryVars, loaderVars
<1>1. /\ step = "brr" /\ attempt \in Cell /\ timeout' \in -1 .. Polls
      /\ UNCHANGED <<ready, cardVars, fault, damaged>>
      /\ step' \in {"brr", "tc", "panic"}
  BY DEF ReadBlock, OrFail, LoaderType, CountInv
<1>2. step' # "tc" => UNCHANGED memory
  BY DEF ReadBlock
<1>3. attempt \in Cell
  BY <1>1
<1>4. ASSUME step' = "tc"
      PROVE  /\ Addressed \in DOMAIN Disk
             /\ \E w \in MemoryWord :
                  /\ memory' = [memory EXCEPT ![attempt] = w]
                  /\ ~ damaged => w = Held(attempt, Disk[Addressed])
  <2>1. "brr" \in ready
    BY <1>4 DEF ReadBlock, OrFail
  <2>2. Addressed \in DOMAIN Disk
    BY <1>1, <2>1 DEF BlockInv
  <2>3. PICK w \in (IF damaged THEN MemoryWord ELSE {Disk[Addressed]}) :
             memory' = [memory EXCEPT ![attempt] = Held(attempt, w)]
    BY <1>4 DEF ReadBlock
  <2>4. w \in MemoryWord /\ (~ damaged => w = Disk[Addressed])
    BY <2>2, <2>3
  <2>5. Held(attempt, w) \in MemoryWord
    BY <1>3, <2>4, HeldWord DEF LoaderType
  <2> QED BY <2>2, <2>3, <2>4, <2>5
<1>5. ASSUME step' = "tc", ~ missed
      PROVE  Addressed = KernelStart + attempt
  <2>1. "brr" \in ready
    BY <1>5 DEF ReadBlock, OrFail
  <2>2. card.state = "tran"
    BY <1>1, <2>1 DEF BlockInv
  <2>3. sdhc_card = card.sdhc
    BY <1>1, <1>5, <2>2 DEF CardInv
  <2> QED BY <1>1, <2>3, RightSector DEF CountInv
<1>6. LoaderType'
  <2>1. memory' \in [Cell -> MemoryWord]
    BY <1>1, <1>2, <1>4 DEF LoaderType
  <2> QED BY <1>1, <2>1 DEF LoaderType
<1>7. CountInv' BY <1>1 DEF CountInv
<1>8. SoundInv' BY <1>1 DEF SoundInv
<1>9. CardInv' BY <1>1 DEF CardInv
<1>10. BlockInv'
  <2>1. CASE step' = "panic"
    BY <2>1 DEF BlockInv
  <2>2. CASE step' = "brr"
    <3>1. UNCHANGED <<step, memory>> /\ UNCHANGED <<ready, cardVars, fault, damaged>>
      BY <1>1, <1>2, <2>2
    <3> QED BY <3>1 DEF BlockInv, Copied, Addressed, Argument
  <2>3. CASE step' = "tc"
    <3>1. "tc" \notin ready'
      BY <1>1 DEF BlockInv
    <3>2. \A a \in Cell : a # attempt => memory'[a] = memory[a]
      BY <1>4, <2>3 DEF LoaderType
    <3>3. ~ missed /\ ~ damaged => Copied(attempt)'
      <4> SUFFICES ASSUME ~ missed, ~ damaged, fault.cell # attempt
                   PROVE  memory'[attempt] = Disk[KernelStart + attempt]
        BY <1>1 DEF Copied
      <4>1. memory'[attempt] = Held(attempt, Disk[Addressed])
        BY <1>3, <1>4, <2>3 DEF LoaderType
      <4> QED BY <1>3, <1>5, <2>3, <4>1, SoundHolds
    <3>4. ~ missed => \A a \in Cell : a < attempt => Copied(a)
      BY <1>1 DEF BlockInv
    <3>5. ~ missed => \A a \in Cell : a < attempt => memory'[a] = Disk[KernelStart + a] \/ fault'.cell = a
      BY <1>1, <3>2, <3>4 DEF Copied, Cell
    <3> QED BY <1>1, <2>3, <3>1, <3>3, <3>5 DEF BlockInv, Copied
  <2> QED BY <1>1, <2>1, <2>2, <2>3
<1> QED BY <1>6, <1>7, <1>8, <1>9, <1>10

\* The card's part of a read.
LEMMA Transfers == ASSUME LInv, Card PROVE LInv'
<1> USE PollsAssumption, LoaderAssumption
      DEF LInv, ClockStep, ResetStep, ReadyStep, SelectStep, ReadStep, CheckStep, Go,
      cardVars, memoryVars, loaderVars
<1>1. CASE Sends
  <2>1. /\ step = "brr" /\ ready' = ready \cup {"brr"} /\ UNCHANGED <<step, timeout>>
        /\ damaged' \in BOOLEAN /\ UNCHANGED <<cardVars, fault, memory>>
        /\ card.state = "tran" /\ Addressed \in DOMAIN Disk
    BY <1>1 DEF Sends, Responds
  <2>2. LoaderType' BY <2>1 DEF LoaderType
  <2>3. CountInv' BY <2>1 DEF CountInv
  <2>4. SoundInv' BY <2>1 DEF SoundInv
  <2>5. CardInv' BY <2>1 DEF CardInv
  <2>6. BlockInv' BY <2>1 DEF BlockInv, Copied, Addressed, Argument
  <2> QED BY <2>2, <2>3, <2>4, <2>5, <2>6
<1>2. CASE TransferCompletes
  <2>1. /\ step = "tc" /\ ready' = ready \cup {"tc"} /\ UNCHANGED <<step, timeout>>
        /\ ~ damaged /\ UNCHANGED loaderVars
    BY <1>2 DEF TransferCompletes, Responds
  <2>2. LoaderType' BY <2>1 DEF LoaderType
  <2>3. CountInv' BY <2>1 DEF CountInv
  <2>4. SoundInv' BY <2>1 DEF SoundInv
  <2>5. CardInv' BY <2>1 DEF CardInv
  <2>6. BlockInv' BY <2>1 DEF BlockInv, Copied, Addressed, Argument
  <2> QED BY <2>2, <2>3, <2>4, <2>5, <2>6
<1>3. CASE ReadError
  <2>1. step' = "panic" /\ timeout' = Polls /\ UNCHANGED <<ready, loaderVars>>
    BY <1>3 DEF ReadError
  <2>2. LoaderType' BY <2>1 DEF LoaderType
  <2>3. CountInv' BY <2>1 DEF CountInv
  <2>4. SoundInv' BY <2>1 DEF SoundInv
  <2>5. CardInv' BY <2>1 DEF CardInv
  <2>6. BlockInv' BY <2>1 DEF BlockInv
  <2> QED BY <2>2, <2>3, <2>4, <2>5, <2>6
<1> QED BY <1>1, <1>2, <1>3 DEF Card

\* A device sets its bit.
LEMMA Ticks ==
  ASSUME LInv, NEW w \in LoaderDevice, Responds(w), UNCHANGED loaderVars
  PROVE  LInv'
<1> USE PollsAssumption, LoaderAssumption
      DEF LInv, ClockStep, ResetStep, ReadyStep, SelectStep, ReadStep, CheckStep, Go,
      cardVars, memoryVars, loaderVars
<1>1. /\ w # "brr" /\ w # "tc" /\ ready' = ready \cup {w}
      /\ UNCHANGED <<step, timeout>> /\ UNCHANGED loaderVars
  BY DEF Responds, LoaderDevice, LoaderForever
<1>2. LoaderType' BY <1>1 DEF LoaderType
<1>3. CountInv' BY <1>1 DEF CountInv
<1>4. SoundInv' BY <1>1 DEF SoundInv
<1>5. CardInv' BY <1>1 DEF CardInv
<1>6. BlockInv' BY <1>1 DEF BlockInv, Copied, Addressed, Argument
<1> QED BY <1>2, <1>3, <1>4, <1>5, <1>6

\* Every step of the loader.
LEMMA Loads == ASSUME LInv, LoaderNext PROVE LInv'
BY Clocked, Calibrated, MemoryTest, Controlled, Resetting, Announced, Asked, Selected, Initializes,
   Reads, Finishes, Nexts, Checks, Transfers, Ticks
   DEF LoaderNext, bootloader_main

-----------------------------------------------------------------------------
(* The loader's state while the kernel runs                                *)

\* The kernel's steps, listed, and the budgets of its waits.
LEMMA KernelSteps ==
  /\ {"map", "enable", "stacks", "jump", "wdt clock", "first write", "second write", "identity",
      "flush tlb", "vbar", "intc", "irq table", "uart clock", "uart irq", "domain", "module",
      "soft reset", "stop", "load", "counter", "timer irq", "auto reload", "tasks", "irq enable",
      "scheduler", "run", "halt"} \subseteq KernelStep
  /\ Polls \in -1 .. Polls
  /\ \A n \in -1 .. Polls : n >= 0 => n - 1 \in -1 .. Polls
BY PollsAssumption DEF KernelStep, LowStep, TrampolineStep, MovingStep, EarlyStep, UartStep,
   TimerStep, OpenStep, HighStep

\* A step of a wait leaves it where it is or goes on, within its budget.
LEMMA Waits ==
  ASSUME timeout \in -1 .. Polls, NEW w, NEW next, NEW fail,
         Bounded(w, next, fail) \/ HaltsAtZero(w, next, fail)
  PROVE  step' \in {w, next, fail} /\ timeout' \in -1 .. Polls /\ UNCHANGED ready
<1>1. CASE Bounded(w, next, fail)
  BY <1>1, PollsAssumption DEF Bounded, Go
<1>2. CASE HaltsAtZero(w, next, fail)
  BY <1>2, PollsAssumption DEF HaltsAtZero, Go
<1> QED BY <1>1, <1>2

\* No step of the kernel is one of the loader's but the first, and the kernel
\* leaves the loader's variables alone.
LEMMA KernelPolls ==
  ASSUME kernel_main, timeout \in -1 .. Polls
  PROVE  /\ UNCHANGED ready /\ timeout' \in -1 .. Polls
         /\ step' \in KernelStep
<1> USE DEF Go, Do
<1>1. CASE reset_handler \/ mmu_build_page_table_boot \/ mmu_enable \/ ReloadStacks \/ Trampoline
  <2>1. step' \in {"map", "enable", "stacks", "jump", "wdt clock"} /\ timeout' = Polls /\ UNCHANGED ready
    BY <1>1 DEF reset_handler, mmu_build_page_table_boot, mmu_enable, ReloadStacks, Trampoline
  <2> QED BY <2>1, KernelSteps
<1>2. CASE watchdog_disable \/ uart_enable_rx_interrupt
  <2>1. /\ step' \in {"first write", "second write", "identity", "uart irq", "domain"}
        /\ timeout' = Polls /\ UNCHANGED ready
    BY <1>2 DEF watchdog_disable, uart_enable_rx_interrupt, Forever
  <2> QED BY <2>1, KernelSteps
<1>3. CASE RemoveIdentity \/ FlushTlb \/ MoveVectors \/ intc_init \/ irq_init
  <2>1. /\ step' \in {"flush tlb", "vbar", "intc", "irq table", "uart clock"}
        /\ timeout' = Polls /\ UNCHANGED ready
    BY <1>3 DEF RemoveIdentity, FlushTlb, MoveVectors, intc_init, irq_init
  <2> QED BY <2>1, KernelSteps
<1>4. CASE timer2_clock_enable
  <2>1. step' \in {"domain", "module", "soft reset", "halt"} /\ timeout' \in -1 .. Polls /\ UNCHANGED ready
    BY <1>4, Waits DEF timer2_clock_enable
  <2> QED BY <2>1, KernelSteps
<1>5. CASE timer_init
  <2>1. step' \in {"soft reset", "stop", "load", "counter", "timer irq", "auto reload", "tasks", "halt"}
    BY <1>5, Waits DEF timer_init, GivesUp
  <2>2. timeout' \in -1 .. Polls /\ UNCHANGED ready
    BY <1>5, Waits, KernelSteps DEF timer_init, GivesUp
  <2> QED BY <2>1, <2>2, KernelSteps
<1>6. CASE PrepareTasks \/ irq_enable \/ scheduler_start
  <2>1. step' \in {"irq enable", "scheduler", "run"} /\ timeout' = Polls /\ UNCHANGED ready
    BY <1>6 DEF PrepareTasks, irq_enable, scheduler_start
  <2> QED BY <2>1, KernelSteps
<1> QED BY <1>1, <1>2, <1>3, <1>4, <1>5, <1>6 DEF kernel_main

\* An interrupt is served between two steps of the kernel.
LEMMA Interrupts ==
  ASSUME InterruptCode \/ (\E line \in Line : Raise(line))
         \/ (\E what \in Line \cup {Spurious} : Present(what)) \/ (\E va \in Section : TlbFill(va))
  PROVE  UNCHANGED polling
BY DEF InterruptCode, interruptStep, exception_entry_irq, irq_dispatch, timer_irq_handler,
   uart_rx_irq_handler, Handler, EndOfInterrupt, ReturnFromInterrupt, Raise, Present, TlbFill

\* What has nothing to do with the loader.
LEMMA Untouched == ASSUME LInv, UNCHANGED polling, UNCHANGED loaderVars PROVE LInv'
<1> USE DEF LInv, polling, cardVars, memoryVars, loaderVars
<1>1. LoaderType' BY DEF LoaderType
<1>2. CountInv' BY DEF CountInv
<1>3. SoundInv' BY DEF SoundInv
<1>4. CardInv' BY DEF CardInv
<1>5. BlockInv' BY DEF BlockInv, Copied, Addressed, Argument
<1> QED BY <1>1, <1>2, <1>3, <1>4, <1>5

LEMMA Runs == ASSUME LInv, KernelNext, UNCHANGED loaderVars PROVE LInv'
<1> USE DEF cardVars, memoryVars, loaderVars
<1>1. CASE kernel_main
  <2>1. timeout' \in -1 .. Polls /\ step' \in KernelStep
    BY <1>1, KernelPolls DEF LInv, LoaderType
  <2>2. step' \notin ClockStep \cup {"test"} \cup ResetStep \cup ReadyStep \cup SelectStep
                     \cup ReadStep \cup CheckStep
    BY <2>1 DEF KernelStep, LowStep, TrampolineStep, MovingStep, EarlyStep, UartStep, TimerStep,
       OpenStep, HighStep, ClockStep, ResetStep, ReadyStep, SelectStep, ReadStep, CheckStep
  <2>3. LoaderType' BY <2>1 DEF LInv, LoaderType
  <2>4. CountInv' BY <2>2 DEF LInv, CountInv
  <2>5. SoundInv' BY <2>2 DEF SoundInv
  <2>6. CardInv' BY <2>2 DEF CardInv
  <2>7. BlockInv' BY <2>2 DEF BlockInv, ReadStep
  <2> QED BY <2>3, <2>4, <2>5, <2>6, <2>7 DEF LInv
<1>2. CASE \E w \in KernelDevice : Responds(w) /\ UNCHANGED kernelVars
  <2>1. PICK w \in KernelDevice : Responds(w)
    BY <1>2
  <2>2. /\ w # "brr" /\ w # "tc" /\ step # "brr" /\ step # "tc"
        /\ ready' = ready \cup {w} /\ UNCHANGED <<step, timeout>>
    BY <2>1 DEF Responds, KernelDevice, KernelForever
  <2>3. LoaderType' BY <2>2 DEF LInv, LoaderType
  <2>4. CountInv' BY <2>2 DEF LInv, CountInv
  <2>5. SoundInv' BY <2>2 DEF LInv, SoundInv
  <2>6. CardInv' BY <2>2 DEF LInv, CardInv
  <2>7. BlockInv' BY <2>2 DEF LInv, BlockInv, Copied
  <2> QED BY <2>3, <2>4, <2>5, <2>6, <2>7 DEF LInv
<1>3. CASE UNCHANGED polling
  BY <1>3, Untouched
<1> QED BY <1>1, <1>2, <1>3, Interrupts DEF KernelNext, Devices

\* A cold start.
LEMMA LoaderInitially == Init => LInv
<1> SUFFICES ASSUME LoaderInit PROVE LInv
  BY DEF Init
<1> USE PollsAssumption, LoaderAssumption
      DEF LoaderInit, ClockStep, ResetStep, ReadyStep, SelectStep, ReadStep, CheckStep
<1>1. LoaderType
  <2>1. card \in CardRecord BY DEF CardRecord
  <2>2. memory \in [Cell -> MemoryWord] BY PatternWords
  <2>3. timeout \in -1 .. Polls BY KernelSteps
  <2>4. {missed, sdhc_card, damaged} \subseteq BOOLEAN OBVIOUS
  <2>5. fault = Sound OBVIOUS
  <2> QED BY <2>1, <2>2, <2>3, <2>4, <2>5, Zenon DEF LoaderType
<1>2. CountInv BY DEF CountInv
<1>3. SoundInv BY DEF SoundInv
<1>4. CardInv BY DEF CardInv
<1>5. BlockInv BY DEF BlockInv
<1> QED BY <1>1, <1>2, <1>3, <1>4, <1>5 DEF LInv

\* Nothing that card, memory and devices do breaks the invariant of the loader.
LEMMA LoaderInvariant == Spec => []LInv
<1>1. LInv /\ [Next]_vars => LInv'
  <2>1. LInv /\ Next => LInv'
    BY Loads, Runs DEF Next
  <2>2. LInv /\ UNCHANGED vars => LInv'
    BY Untouched DEF vars
  <2> QED BY <2>1, <2>2
<1> QED BY <1>1, LoaderInitially, PTL DEF Spec

\* What is entered as the kernel is the kernel of the card, word for word, but
\* for a bit that is stuck behind the words ddr_test tries.
THEOREM ImageTheorem == Spec => []KernelIsTheImage
<1>1. LInv => KernelIsTheImage
  BY DEF LInv, SoundInv, BlockInv, KernelIsTheImage, CheckStep, Copied
<1> QED BY <1>1, LoaderInvariant, PTL

-----------------------------------------------------------------------------
(* Types                                                                   *)

KernelType ==
  /\ DOMAIN pgd = Section
  /\ {code, stacks, vbar} \subseteq {DdrPA, DdrVA}
  /\ mir \subseteq Line
  /\ {active, serving} \subseteq Line \cup {Spurious, None}
  /\ irq \in {"idle", "dispatch", "handler", "end", "return"}

LEMMA KernelTypes == ASSUME KernelType, KernelNext PROVE KernelType'
<1> USE DEF KernelType, mapping, interrupts, kernelVars, Line
<1>1. CASE reset_handler \/ mmu_build_page_table_boot \/ mmu_enable \/ ReloadStacks \/ Trampoline
  BY <1>1 DEF reset_handler, mmu_build_page_table_boot, mmu_enable, ReloadStacks, Reloaded, Trampoline
<1>2. CASE watchdog_disable \/ RemoveIdentity \/ FlushTlb \/ MoveVectors
  BY <1>2 DEF watchdog_disable, RemoveIdentity, FlushTlb, MoveVectors, HighVectors
<1>3. CASE intc_init \/ irq_init \/ uart_enable_rx_interrupt
  BY <1>3 DEF intc_init, irq_init, uart_enable_rx_interrupt, Register, intc_eoi
<1>4. CASE timer2_clock_enable \/ timer_init \/ PrepareTasks \/ irq_enable \/ scheduler_start
  BY <1>4 DEF timer2_clock_enable, timer_init, PrepareTasks, irq_enable, scheduler_start, Register
<1>5. CASE exception_entry_irq \/ EndOfInterrupt \/ ReturnFromInterrupt
  BY <1>5 DEF exception_entry_irq, EndOfInterrupt, ReturnFromInterrupt, Ends, intc_eoi, interruptStep
<1>6. CASE irq_dispatch
  BY <1>6 DEF irq_dispatch, Called, Unhandled, Ends, intc_eoi, interruptStep
<1>7. CASE timer_irq_handler \/ uart_rx_irq_handler
  BY <1>7 DEF timer_irq_handler, uart_rx_irq_handler, Handler, interruptStep
<1>8. CASE Devices
  BY <1>8 DEF Devices, Responds, Raise, Present
<1>9. CASE \E va \in Section : TlbFill(va)
  BY <1>9 DEF TlbFill
<1> QED BY <1>1, <1>2, <1>3, <1>4, <1>5, <1>6, <1>7, <1>8, <1>9
        DEF KernelNext, kernel_main, InterruptCode

\* The types, with the bounds of the counter of attempts.
THEOREM TypeCorrect == Spec => []TypeOK
<1>1. Init => KernelType
  BY DEF Init, KernelInit, KernelType
<1>2. KernelType /\ [Next]_vars => KernelType'
  BY KernelTypes DEF Next, vars, KernelType, mapping, interrupts, kernelVars
<1>3. KInv /\ LInv /\ KernelType => TypeOK
  <2> SUFFICES ASSUME KInv, LInv, KernelType PROVE TypeOK
    OBVIOUS
  <2>1. card.state \in {"idle", "ready", "ident", "stby", "tran"}
    BY DEF LInv, LoaderType, CardRecord
  <2>2. /\ attempt \in Nat
        /\ step \in {"cmd55", "cmd41"} => attempt < Tries
        /\ step \in {"brr", "tc", "next"} => attempt < Cells
    BY LoaderAssumption DEF LInv, CountInv, ReadyStep, ReadStep, Cell
  <2>3. DOMAIN tlb = Section /\ handlers \subseteq Line /\ raised \subseteq enabled
    BY DEF KInv, TlbInv, MaskInv
  <2> QED BY <2>1, <2>2, <2>3 DEF TypeOK, LInv, LoaderType, KernelType
<1> QED BY <1>1, <1>2, <1>3, Invariant, LoaderInvariant, PTL DEF Spec

=============================================================================
