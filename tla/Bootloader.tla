------------------------------ MODULE Bootloader ------------------------------
(***************************************************************************)
(* The bootloader: from the watchdog to the jump into the kernel image.    *)
(* Clocks and memory first, then the SD card is identified and selected,   *)
(* and the sectors of the kernel are copied to the start of the memory.    *)
(*                                                                         *)
(* The card and the memory are hardware: the card may miss a command, its  *)
(* answer may be lost, a block may arrive damaged or not at all.  A word   *)
(* is a few bits; a block of the card holds one word.                      *)
(***************************************************************************)
EXTENDS Polling, Sequences, FiniteSets

CONSTANTS
  Bits,            \* of a word
  Pattern,         \* the two words of ddr_test, each other's complement
  Magic,           \* words the vector table of a kernel may start with
  Cells,           \* words of the kernel, read to the start of the memory
  Tested,          \* words ddr_test tries, 1024 of the 262144 that are read
  Disk,            \* block number -> word
  KernelStart,     \* the kernel's first sector
  BlockSize,       \* bytes of a block
  Tries            \* bound: attempts of ACMD41, 2000 in the code

Cell == 0 .. Cells - 1
MemoryWord == [Bits -> {0, 1}]

ASSUME LoaderAssumption ==
  /\ Cells \in Nat \ {0} /\ Tested \in 1 .. Cells /\ BlockSize \in Nat \ {0, 1} /\ Tries \in Nat \ {0}
  /\ KernelStart \in Nat
  /\ Pattern \in Seq(MemoryWord) /\ Len(Pattern) = 2
  /\ \A b \in Bits : Pattern[2][b] = 1 - Pattern[1][b]
  /\ \A i \in Cell : KernelStart + i \in DOMAIN Disk
  /\ \A b \in DOMAIN Disk : Disk[b] \in MemoryWord

VARIABLES
  fault,       \* what is wrong with the memory
  card,        \* the SD card
  rsp, rca,    \* the last answer (MMC_RSP10), the address the host uses
  sdhc_card,   \* the host takes sector numbers for addresses
  attempt,     \* of ACMD41; then the sector that is read
  damaged,     \* the block on the line fails its check
  memory,
  missed       \* the card has become ready and the host was not told

cardVars == <<card, rsp, rca, sdhc_card, attempt, missed>>
memoryVars == <<fault, damaged, memory>>
loaderVars == <<cardVars, memoryVars>>

Sound == [cell |-> -1, bit |-> 0, value |-> 0]
StuckBit == [cell : Cell, bit : Bits, value : {0, 1}]

\* What a cell holds after a write of w.
Held(a, w) == IF fault.cell = a THEN [w EXCEPT ![fault.bit] = fault.value] ELSE w

\* The card is in one of the states of its identification, has seen CMD8 or not,
\* has the next command announced as an application command, and has the block
\* size the host expects.
LoaderInit ==
  /\ step = "wdt1" /\ timeout = Polls /\ ready = {}
  /\ fault = Sound
  /\ card \in [state : {"idle"}, v2 : {FALSE}, app : {FALSE}, sdhc : BOOLEAN, sized : BOOLEAN]
  /\ card.sdhc => card.sized
  /\ rsp = "none" /\ rca = "none" /\ sdhc_card = FALSE
  /\ attempt = 0 /\ damaged = FALSE
  /\ memory = [a \in Cell |-> Pattern[2]]
  /\ missed = FALSE

-----------------------------------------------------------------------------
(* Clocks and memory                                                       *)

disable_watchdog ==
  /\ Forever("wdt1", "wdt2") \/ Forever("wdt2", "uart")
  /\ UNCHANGED loaderVars

uart_init == Forever("uart", "bypass") /\ UNCHANGED loaderVars

config_ddr_pll ==
  /\ GivesUp("bypass", "lock") \/ GivesUp("lock", "emif")
  /\ UNCHANGED loaderVars

enable_peripheral_clocks ==
  /\ Forever("emif", "mmc0") \/ Forever("mmc0", "uart0") \/ Forever("uart0", "vtp")
  /\ UNCHANGED loaderVars

\* A memory that has its clock and its impedance works; otherwise a bit may not.
ddr_init ==
  /\ GivesUp("vtp", "test")
  /\ fault' \in IF step' = "test" /\ ~ {"bypass", "lock", "vtp"} \subseteq ready
                THEN StuckBit \cup {Sound} ELSE {fault}
  /\ UNCHANGED <<cardVars, damaged, memory>>

\* Each pattern is written to the first Tested cells, then read back; a fault
\* behind them, where most of the kernel goes, is not seen.
MutHolds(a) == Held(a, Pattern[1]) = Pattern[1]
Holds(a) == \A n \in 1 .. 2 : Held(a, Pattern[n]) = Pattern[n]

ddr_test ==
  /\ step = "test"
  /\ Go(IF \A a \in Cell : a < Tested => Holds(a) THEN "reset" ELSE "panic")
  /\ memory' = [a \in Cell |-> IF a < Tested THEN Held(a, Pattern[2]) ELSE memory[a]]
  /\ UNCHANGED <<ready, cardVars, fault, damaged>>

-----------------------------------------------------------------------------
(* The SD card                                                             *)

\* Controller, lines, bus power, internal clock, 80 clocks for the card.
mmc_controller ==
  /\ \/ OrFail("reset", "lines", "panic") \/ OrFail("lines", "power", "panic")
     \/ OrFail("power", "clock", "panic") \/ OrFail("clock", "init", "panic")
     \/ OrFail("init", "cmd0", "panic")
  /\ UNCHANGED loaderVars

\* The states in which the card obeys a command, by the SD specification.
Obeys(c) ==
  CASE c = "cmd0" -> TRUE
    [] c \in {"cmd8", "cmd55"} -> card.state = "idle"
    [] c = "cmd41" -> card.state = "idle" /\ card.app
    [] c = "cmd2" -> card.state = "ready"
    [] c = "cmd3" -> card.state \in {"ident", "stby"}
    [] c \in {"cmd9", "cmd7"} -> card.state = "stby" /\ rca = "rca"
    [] c = "cmd16" -> card.state = "tran"

\* What it becomes; a card of high capacity waits for CMD8.
After(c) ==
  CASE c = "cmd0" -> {[card EXCEPT !.state = "idle", !.v2 = FALSE, !.app = FALSE]}
    [] c = "cmd8" -> {[card EXCEPT !.v2 = TRUE]}
    [] c = "cmd55" -> {[card EXCEPT !.app = TRUE]}
    [] c = "cmd41" -> {[card EXCEPT !.app = FALSE]} \cup
                      (IF card.sdhc /\ ~ card.v2 THEN {}
                       ELSE {[card EXCEPT !.app = FALSE, !.state = "ready"]})
    [] c = "cmd2" -> {[card EXCEPT !.state = "ident"]}
    [] c = "cmd3" -> {[card EXCEPT !.state = "stby"]}
    [] c = "cmd9" -> {card}
    [] c = "cmd7" -> {[card EXCEPT !.state = "tran"]}
    [] c = "cmd16" -> {[card EXCEPT !.sized = TRUE]}

Answer(c, next) ==
  CASE c = "cmd41" /\ next.state = "ready" -> IF next.sdhc THEN "ready, high capacity" ELSE "ready"
    [] c = "cmd41" /\ next.state # "ready" -> "busy"
    [] c = "cmd2" -> "cid"
    [] c = "cmd3" -> "rca"
    [] OTHER -> "status"

\* Command complete, or an error or a timeout: then the card may have obeyed or
\* not, and the answer is lost or damaged.  CMD0 has no answer and always completes.
mmc_send_cmd(c, ok) ==
  \/ /\ Obeys(c)
     /\ card' \in After(c)
     /\ \/ ok /\ rsp' = (IF c = "cmd0" THEN rsp ELSE Answer(c, card'))
        \/ ~ ok /\ c # "cmd0" /\ rsp' \in {rsp, "damaged"}
  \/ ok = (c = "cmd0") /\ UNCHANGED <<card, rsp>>

\* The result of the command is not looked at.
Unchecked(c, next) ==
  /\ step = c
  /\ \E ok \in BOOLEAN : mmc_send_cmd(c, ok)
  /\ Go(next)
  /\ UNCHANGED <<ready, memoryVars>>

Reset ==
  /\ Unchecked("cmd0", "cmd8") \/ Unchecked("cmd8", "cmd55")
  /\ UNCHANGED <<rca, sdhc_card, attempt, missed>>

\* One more attempt, or the loop is over, with the card ready or not.
TryAgain ==
  /\ attempt' = attempt + 1
  /\ Go(IF attempt + 1 < Tries THEN "cmd55" ELSE "cmd2")
  /\ UNCHANGED sdhc_card

APP_CMD ==
  /\ step = "cmd55"
  /\ \/ mmc_send_cmd("cmd55", FALSE) /\ TryAgain
     \/ mmc_send_cmd("cmd55", TRUE) /\ Go("cmd41") /\ UNCHANGED <<attempt, sdhc_card>>
  /\ UNCHANGED <<ready, rca, missed, memoryVars>>

MutCapacity == FALSE
Capacity == rsp' = "ready, high capacity"

ACMD41 ==
  /\ step = "cmd41"
  /\ \/ /\ mmc_send_cmd("cmd41", FALSE) /\ TryAgain
        /\ missed' = (missed \/ card'.state = "ready")
     \/ mmc_send_cmd("cmd41", TRUE) /\ rsp' = "busy" /\ TryAgain /\ UNCHANGED missed
     \/ /\ mmc_send_cmd("cmd41", TRUE) /\ rsp' # "busy"
        /\ sdhc_card' = Capacity
        /\ Go("cmd2")
        /\ UNCHANGED <<attempt, missed>>
  /\ UNCHANGED <<ready, rca, memoryVars>>

\* The card's address is taken from the last answer, whichever it was.
Identify ==
  /\ \/ Unchecked("cmd2", "cmd3") /\ UNCHANGED rca
     \/ Unchecked("cmd3", "cmd9") /\ rca' = rsp'
     \/ Unchecked("cmd9", "cmd7") /\ UNCHANGED rca
     \/ Unchecked("cmd7", "clock2") /\ UNCHANGED rca
     \/ Unchecked("cmd16", "initialized") /\ UNCHANGED rca
  /\ UNCHANGED <<sdhc_card, attempt, missed>>

FasterClock == OrFail("clock2", "cmd16", "panic") /\ UNCHANGED loaderVars

\* mmc_init has returned 0.
Initialized ==
  /\ step = "initialized"
  /\ attempt' = 0
  /\ Go("brr")
  /\ UNCHANGED <<ready, card, rsp, rca, sdhc_card, missed, memoryVars>>

-----------------------------------------------------------------------------
(* Reading the kernel                                                      *)

\* The argument of CMD17 and the block the card takes it for.
Argument(i) == IF sdhc_card THEN KernelStart + i ELSE (KernelStart + i) * BlockSize
Addressed == IF card.sdhc THEN Argument(attempt) ELSE Argument(attempt) \div BlockSize

\* A selected card sends a block it has; an error may be signalled first.
Sends ==
  /\ card.state = "tran" /\ card.sized /\ Addressed \in DOMAIN Disk
  /\ Responds("brr")
  /\ damaged' \in BOOLEAN
  /\ UNCHANGED <<cardVars, fault, memory>>

TransferCompletes == ~ damaged /\ Responds("tc") /\ UNCHANGED loaderVars

ReadError ==
  /\ step = "brr" /\ "brr" \notin ready
  /\ Go("panic")
  /\ UNCHANGED <<ready, loaderVars>>

\* The words are copied as soon as the buffer is ready.
ReadBlock ==
  /\ OrFail("brr", "tc", "panic")
  /\ \/ step' # "tc" /\ UNCHANGED memory
     \/ /\ step' = "tc"
        /\ \E w \in IF damaged THEN MemoryWord ELSE {Disk[Addressed]} :
             memory' = [memory EXCEPT ![attempt] = Held(attempt, w)]
  /\ UNCHANGED <<cardVars, fault, damaged>>

MutCompletes(next) == GivesUp("tc", next)
Completes(next) == OrFail("tc", next, "panic")

FinishBlock == Completes("next") /\ UNCHANGED loaderVars

MutLast == attempt = Cells
Last == attempt + 1 = Cells

\* The status is cleared for the next block.
NextBlock ==
  /\ step = "next"
  /\ Go(IF Last THEN "magic" ELSE "brr")
  /\ ready' = ready \ {"brr", "tc"}
  /\ attempt' = IF Last THEN 0 ELSE attempt + 1
  /\ UNCHANGED <<card, rsp, rca, sdhc_card, missed, memoryVars>>

CheckMagic ==
  /\ step = "magic"
  /\ Go(IF memory[0] \in Magic THEN "flush" ELSE "panic")
  /\ UNCHANGED <<ready, loaderVars>>

\* The kernel is entered.  Nothing looks at the card and the test of the memory
\* any more: their variables get the values of no card and no fault.
uart_flush ==
  /\ step = "flush" /\ step \in ready
  /\ Go("kernel")
  /\ ready' = {}
  /\ fault' = Sound /\ damaged' = FALSE /\ memory' = [a \in Cell |-> Pattern[2]]
  /\ card' = [state |-> "idle", v2 |-> FALSE, app |-> FALSE, sdhc |-> FALSE, sized |-> TRUE]
  /\ rsp' = "none" /\ rca' = "none" /\ sdhc_card' = FALSE
  /\ attempt' = 0 /\ missed' = FALSE

-----------------------------------------------------------------------------

\* Bits that working clocks, watchdog and UART do set.
LoaderForever == {"wdt1", "wdt2", "uart", "emif", "mmc0", "uart0", "flush"}
LoaderDevice ==
  LoaderForever \cup {"bypass", "lock", "vtp", "reset", "lines", "power", "clock", "init", "clock2"}

bootloader_main ==
  \/ disable_watchdog \/ uart_init \/ config_ddr_pll \/ enable_peripheral_clocks
  \/ ddr_init \/ ddr_test \/ mmc_controller \/ Reset \/ APP_CMD \/ ACMD41 \/ Identify
  \/ FasterClock \/ Initialized \/ ReadBlock \/ FinishBlock \/ NextBlock
  \/ CheckMagic \/ uart_flush

Card == Sends \/ TransferCompletes \/ ReadError

LoaderNext ==
  \/ bootloader_main \/ Card
  \/ \E w \in LoaderDevice : Responds(w) /\ UNCHANGED loaderVars

=============================================================================
