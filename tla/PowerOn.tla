-------------------------------- MODULE PowerOn --------------------------------
(***************************************************************************)
(* From power on to the running system: the bootloader, then the kernel it *)
(* has read from the card.                                                 *)
(***************************************************************************)
EXTENDS Bootloader, KernelBoot

vars == <<polling, loaderVars, kernelVars>>

Init == LoaderInit /\ KernelInit

Next ==
  \/ LoaderNext /\ UNCHANGED kernelVars
  \/ KernelNext /\ UNCHANGED loaderVars

Spec == Init /\ [][Next]_vars

\* The CPU executes; between two interrupts the interrupted code gets on (the
\* timer's period is 10 ms); the bits that are waited for without a limit come.
\* Nothing is assumed of the other devices and of the card.
Fairness ==
  /\ WF_vars((bootloader_main /\ UNCHANGED kernelVars) \/ (InterruptCode /\ UNCHANGED loaderVars))
  /\ SF_vars(kernel_main /\ UNCHANGED loaderVars)
  /\ \A w \in LoaderForever \cup KernelForever :
       WF_vars(Responds(w) /\ UNCHANGED <<loaderVars, kernelVars>>)

FairSpec == Spec /\ Fairness

-----------------------------------------------------------------------------
(* Properties                                                              *)

TypeOK ==
  /\ timeout \in -1 .. Polls
  /\ fault \in StuckBit \cup {Sound}
  /\ card.state \in {"idle", "ready", "ident", "stby", "tran"}
  /\ attempt \in Nat
  /\ step \in {"cmd55", "cmd41"} => attempt < Tries
  /\ step \in {"brr", "tc", "next"} => attempt < Cells
  /\ memory \in [Cell -> MemoryWord]
  /\ DOMAIN pgd = Section /\ DOMAIN tlb = Section
  /\ {code, stacks, vbar} \subseteq {DdrPA, DdrVA}
  /\ handlers \subseteq Line /\ mir \subseteq Line /\ raised \subseteq enabled
  /\ {active, serving} \subseteq Line \cup {Spurious, None}
  /\ irq \in {"idle", "dispatch", "handler", "end", "return"}

\* What runs as the kernel is the kernel of the card, word for word, but for a
\* memory fault where ddr_test has not looked: lost commands and answers, a
\* card that is never ready or never selected, damaged blocks and a fault among
\* the tested words all end in a panic.  Only a card whose one answer "ready"
\* was lost can be addressed in the wrong unit.
KernelIsTheImage ==
  step = "flush" /\ ~ missed =>
    \A a \in Cell : memory[a] = Disk[KernelStart + a] \/ (fault.cell = a /\ a >= Tested)

\* What the CPU may use for an address.
Translations(va) == {e \in {pgd[va], tlb[va]} : e.valid}
Reaches(va, frame) ==
  IF mmu THEN pgd[va].valid /\ \A e \in Translations(va) : e.frame = frame
  ELSE va = frame

\* Through MMU, move of the stacks, jump, and removal of the identity map the
\* running code and its stack stay where they are in memory.
CodeStaysMapped == Reaches(code, DdrPA) /\ Reaches(stacks, DdrPA)

\* Whenever an interrupt can be taken the vectors are mapped and every line the
\* controller lets through has its handler.
InterruptsHaveHandlers ==
  ~ masked => Reaches(vbar, DdrPA) /\ Line \ mir \subseteq handlers

\* Once interrupts and tasks run, user code reaches no frame of the kernel, and
\* a frame of the kernel has one address, old translations included.
Isolated ==
  step \in {"scheduler", "run"} =>
    \A va \in Section : \A e \in Translations(va) :
      /\ e.user => e.frame \notin KernelFrame
      /\ e.frame \in KernelFrame => va = e.frame - DdrPA + DdrVA

\* A handler runs only for a device that wants it: clearing comes before the
\* end of interrupt, or the line would be presented a second time.
NoPhantomInterrupt == irq = "handler" => serving \in raised

\* The boot ends, whatever the bounded waits meet.
BootEnds == <>(step \in {"run", "halt", "panic"})

\* Once interrupts are on, each that is presented is ended, on each of three paths.
InterruptsEnd == (active # None /\ ~ masked) ~> active = None

\* "[ERROR] L4LS wakeup timeout!", "[ERROR] Timer soft reset timeout!", and a
\* halt: the code stops where the device has not answered, and only there.
DevicesAreReady ==
  [][\A w \in {"domain", "soft reset"} :
       step = w /\ step' # w => (step' = "halt" <=> w \notin ready)]_vars

=============================================================================
