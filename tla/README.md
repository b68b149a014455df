# Verification of RefARM-OS

TLA+ models, TLC runs and TLAPS proofs for VinixOS, the ARMv7-A teaching
kernel of this repository (`src/VinixOS`), for its bootloader and its shell, and for the
division routine of its cross compiler (`src/CrossCompiler`). `PROJECT.json` maps every definition to
the lines it translates and lists runs, mutants, hazards, findings and theorems.

## 1. Inventory

| Component | State it keeps | Operations | Hard behaviour | What makes it correct |
|---|---|---|---|---|
| Scheduler (`kernel/scheduler/*.c`, `context_switch.S`) | `tasks[]`, `task_count`, `current_task`, `current_task_index`, `need_reschedule`, saved SP and SP_usr, canaries | `scheduler_add_task`, `scheduler_start`, `scheduler_yield`, `scheduler_tick`, `scheduler_terminate_task`, idle loop | ticks between any two stores; the books name the successor before the stacks are exchanged; a dying task switches away on its own stack | books and CPU agree, READY contexts are complete, dead tasks stay dead, READY tasks get the CPU |
| Exception vectors and fault containment (`exception_entry.S`, `exception_handlers.c`) | CPSR.I, banked registers, frames on the kernel stack | SVC, aborts, undefined, IRQ, FIQ | the interrupt mask is not part of a context | a mask never outlives the exception that set it |
| System calls (`svc_handler.c`) | the caller's frame, the image at 0x40000000 | write, read, yield, exit, tasks, meminfo, file calls, exec | user pointers validated then used; exec overwrites the caller's image step by step | a failed exec leaves the caller runnable, descriptors balance |
| VFS and RAMFS (`vfs.c`, `ramfs.c`) | mount table, `fd_table[16]` | mount, open, read, close, listdir | descriptor reuse, full tables, descriptors outliving a task | a descriptor names one open file, reads return successive bytes |
| UART (`uart.c`) | `rx_buffer[256]`, head, tail | RX interrupt, `uart_getc`, `uart_rx_available`, `uart_rx_clear` | interrupt and reader share the ring without a lock | bytes leave in order, none twice, the newest are dropped when full |
| IRQ framework, INTC, timer, watchdog (`irq_core.c`, `intc.c`, `timer.c`, `watchdog.c`) | handler table, line masks, the line presented | register, dispatch, end of interrupt, timer set-up | level lines that come back if the device is not cleared; three paths through the dispatch; set-up loops with budgets | every interrupt taken is ended, a handler finds its device wanting it, a silent device is noticed |
| Boot and MMU (`entry.S`, `reset.S`, `mmu_enable.S`, `mmu.c`, `main.c`) | page table, TLB, VBAR, stacks, pc | page table, MMU on, move of stacks, jump, identity map off, vectors moved | code, stacks and vectors must be mapped at every instant; old translations | nothing that runs loses its mapping; kernel memory has one address and no user mapping |
| Userspace shell (`apps/shell`) | line buffer, argument vector, file buffer of cat | read line, split, eight commands, formatted output | editing at both ends of a buffer, splitting in place, several ways out of a command | screen equals line, output equals what was asked for, descriptors come back |
| Userspace library (`userspace/lib`) | registers | call wrappers, crt0 | none of its own | registers as the kernel expects them |
| Bootloader (`bootloader/src`) | clocks, DDR, MMC controller and card, `rca`, `sdhc_card` | clocks, memory test, card initialisation, block read, jump | some thirty polling loops in six styles; lost and damaged answers; results nobody looks at | what is started is the kernel of the card; the boot ends |
| Cross compiler (`toolchain`) | register pools, spill slots, IR | lex, parse, check, lower, allocate, emit | allocation beyond the register file; division in software | two live names never share a register; `divmod` equals division |

Interactions: a task enters the kernel by SVC, by a fault or by an IRQ. SVC
dispatches to `svc_handler`, which calls the scheduler, the VFS or the UART.
The timer IRQ calls `scheduler_tick`, which only sets `need_reschedule`; the
UART IRQ fills the receive ring. `scheduler_yield`, called by the idle loop,
`sys_yield` and `scheduler_terminate_task`, is the only place where the CPU
changes hands. There is one CPU, so all concurrency is that of interrupts with
the code they interrupt and of tasks that take turns, and of hardware with the code that
polls it.

The hazards, each at its line, are in `PROJECT.json`.

## 2. Modules

| Module | Models | Composes, refines | Proofs |
|---|---|---|---|
| `Scheduler` | task table, round robin, context switch, exceptions | refines `RoundRobin` | `Scheduler_proofs` |
| `UartRx` | receive interrupt, ring, readers | refines `RxQueue` | `UartRx_proofs` |
| `Files`, `Vfs` | RAMFS and descriptors as operators; the calls as steps | `Vfs` refines `OpenFiles` | `Files_proofs`, `Vfs_proofs` |
| `Exec` | system calls, pointer checks, program loading | uses `Files` | `Exec_proofs` |
| `Shell` | line editor, commands, output | uses `Files` | `Shell_proofs` |
| `Polling` | the styles of busy waiting | | |
| `Bootloader` | watchdog to kernel jump, SD card, memory | uses `Polling` | `PowerOn_proofs` |
| `KernelBoot` | reset vector to scheduler, interrupts | uses `Polling` | `PowerOn_proofs` |
| `PowerOn` | the boot as a whole | composes `Bootloader` and `KernelBoot` | `PowerOn_proofs` |
| `DivMod` | `__aeabi_idivmod` | | `DivMod_proofs` |
| `SchedulerClaims`, `MC...` | claims of the documents; instances | | |

The least-element facts that several proofs share are in `Files_proofs`. Modules that are proved
about use no RECURSIVE operator; every constant has a named assumption; invariants are
conjunctions of named parts.

Every invariant and every action property that a passing run checks is also a theorem, and so are the three refinements. Two of
the theorems hold up to a limit that their statements name: what a system call does after it has written over its own kernel
stack (section 5), and words that the memory test does not try (section 8). The liveness
properties (`ReadyRuns`, `BytesAreRead`, `DivisionReturns`, `CommandReturns`, `BootEnds`,
`InterruptsEnd`) stay with TLC, because fairness and ENABLED are out of the prover's reach; for the loops of
the division, of `sys_exec` and of the shell's commands a theorem gives the half of the argument that is safety: each
step lowers a measure.

What is left to do: such measures for the loops of the bootloader, lemmas that say that the answers of the
abstract specifications fit together (a program that `sys_exec` loads from `OpenFiles`), and register allocation of the
compiler (see section 9).

## 3. The scheduler model

`Scheduler.tla` is one CPU executing one context at a time: the boot context of
`kernel_main` (`NoTask`) or a task slot. `pc[c]` is the point where context `c` is, or
will resume. Kernel code is cut into steps wherever an interrupt can fall between two
accesses to shared state: store of `need_reschedule`, gate (`test`), clear, canary and
single-task check, search with the update of states and books (`pick`), and the stack
exchange (`switch`). Interrupt entry is the action `exception_entry_irq`; it is one step
because the handler runs with CPSR.I set, on the interrupted stack.

| Code | Model |
|---|---|
| `tasks[i]->state`, NULL slots | `state[i]`, `"NULL"` |
| `tasks[i]->context` (sp, sp_usr, lr_usr) | `context[i]`: the task whose stacks the saved values point into |
| SP of the CPU, banked SP_usr | `onCpu`, `sp_usr` |
| return address of `scheduler_yield` | `frame[i]`, by caller, and `ResumeLabel` |
| CPSR.I | `irq_masked` |
| INTC pending lines | `pending` |
| word at `stack_base` | `canary[i]` |

User code is arbitrary: it may trap, fault, execute an undefined instruction, overrun its
stack or loop. Fatal paths end in `halt`, as `PANIC` does. `sys_exit` restarts the
shell in place and terminates any other task, as the code does by name.

Abstracted: register contents other than the two stack pointers, printing, the depth of the abort-mode stack. The fatal second fallback of
`scheduler_yield` (`next_task->state != READY`) is unreachable after the first one and is
folded into `PickNone`. The write beyond `tasks[]` cannot happen, which `TypeOK` says.
A stack overrun is modelled for user tasks only.

### Runs

| Run | Instance | Shows |
|---|---|---|
| `SchedulerCrowded` | 4 slots; idle and shell alone, or five `scheduler_add_task` calls | type invariant, six safety invariants, `DeadStaysDead`, refinement of `RoundRobin`, `ReadyRuns` (across NULL slots too) |
| `ClaimPreemptive` | 4 slots, 2 tasks | the code refutes "preemptive, 10 ms slices" |
| `ClaimTimerServed` | same | the code refutes "no switch leaks masked interrupts" after an abort |

Bounds: the table has the code's own four slots. `BootTasks` is the set of numbers of tasks a
boot may add: two is what `kernel_main` adds, five is one more than fits. No counter grows, so no
other bound is needed: these state spaces are complete.

Fairness. `KernelFairness`: the CPU executes kernel steps (weak fairness), the
auto-reload timer raises its line again and again (weak), a raised unmasked line is taken
(strong, since the mask comes and goes). `CooperativeApps` is needed for `ReadyRuns`
alone: applications keep trapping and keep calling `sys_yield`, as the shell's main loop does
when no key is there. Without it the system starves, which is `ClaimPreemptive`.

### Findings

* The scheduler is cooperative; the documents call it preemptive (`ClaimPreemptive`).
* The abort vectors reach `scheduler_terminate_task` with CPSR.I set, and the mask is
  inherited by the idle task, which resumes inside the kernel. If idle is the only
  other task, no interrupt is ever served again (`ClaimTimerServed`).

### Proofs

`Scheduler_proofs.tla` proves, for every `MaxTasks`, `BootTasks` and `Shell`
(`SchedulerAssumption`), all seven invariants of `SchedulerCrowded` and
`DeadStaysDead`. None of them is inductive. The strengthening `IInv` says, besides `TypeOK`:

* `TableInv`: NULL slots are those from `task_count` up; READY tasks have their canary;
* `BootInv`: during boot every slot is parked at its first entry and none is dead;
* `RunInv`: whatever its code point, the task on the CPU has its own SP_usr, idle is READY or
  RUNNING, every other live task is parked, the flag is set at the gate, the canary was
  seen intact before a switch, and masked interrupts outside SVC entry mean an aborted task;
* `CurrentInv` and `SwitchInv`: what the books say outside and inside the window between the
  update of `current_task` and the stack exchange.

One lemma per action shows that it preserves `IInv`. `PickNext` and `PickNone` rest on
lemmas about the search loop: it stays inside `tasks[]`, ends at the first READY
slot (least element by well-foundedness), and visits every slot, so a READY idle is found.

The refinement `ImplementsRoundRobin` is proved as well. The promise of `RoundRobin` is that the CPU goes
to the nearest live task behind the current one. The code computes it by a search with a fallback, publishes it in
`current_task` and exchanges the stacks later, so the mapped step happens at the exchange. `FollowsInv` carries the
fact over the window between the two: what the books say is what `RoundRobin` would choose, and no live
task can appear or die meanwhile. `VisitDistance` says that the k-th slot of the search is at distance k,
`CandidateFollows` that the first READY slot found is therefore the nearest.

Model-checked only: `ReadyRuns` (liveness).

## 4. The receive path

`UartRx.tla`: the wire puts frames into the hardware FIFO (external, with the LSR error
bits), `uart_rx_irq_handler` empties it in a loop, a task reads.

| Code | Model |
|---|---|
| `rx_buffer.data`, `head`, `tail` | `data`, `head`, `tail` |
| LSR_OE; PE, FE, BI of a frame | `overrun`; `bad` in a frame of `fifo` |
| one turn of the handler's loop | `Discard`, `Accept`; the way out is `HandlerReturn` |
| `uart_getc`, `uart_rx_clear` (interrupts masked) | one step each |
| `uart_rx_available` (not masked) | two steps, one per load |

The wire may act at every turn of the loop, the reader never: the handler runs with CPSR.I
set. The abstract `RxQueue` promises a FIFO queue of `Size - 1` bytes whose reader finds
nothing only when nothing is queued. It may lose frames; `LossOnlyWhenFull` says when
the code really does: the ring is full, or LSR shows an error. One consequence of the code: an
overrun of the FIFO makes the handler throw away the next character, a good one.

| Run | Instance | Shows |
|---|---|---|
| `UartRing` | ring of 3, FIFO of 2, two byte values, 2 frames during a handler run | type invariant, `AvailableIsReadable`, `ImplementsQueue`, `LossOnlyWhenFull`; every stored byte is read (`BytesAreRead`), which a handler kept in its loop by errors would prevent |

A ring of three cells holds two bytes, has a wrap in the middle of a burst and a burst that fills it; two byte values
distinguish order, since the model never compares bytes. `Burst` bounds the frames that arrive
while the handler runs, at 115200 baud far more than the hardware can deliver. Fairness: the CPU executes the
handler and finishes a call it has begun, and the reader polls again and again, which is the
shell's loop.

Left out: counters of fired interrupts and overflows, the early return when IIR shows no
interrupt (the line is level-triggered on the FIFO), register set-up.

`UartRx_proofs` proves for every ring size, FIFO depth and byte set: `TypeOK`,
`AvailableIsReadable`, `LossOnlyWhenFull` and the refinement `Spec => ImplementsQueue`. The abstract queue is the cells
from `tail` up to `head` (`Contents`); the lemmas say that `head` is the cell behind the
last unread byte (`HeadIsFree`), that a store appends and that a take removes the first. For the losses,
`TakenByHandler` says that a FIFO that has lost its first frame was read by the handler. `BytesAreRead` is
model-checked only.

## 5. Files and program loading

`Files.tla` holds RAMFS and the descriptor table as operators on the value of the table, so that
`sys_exec` can chain several calls. `Vfs.tla` makes each call a step, with any argument a caller may
pass. `OpenFiles.tla` is the promise: a handle holds the bytes not read yet, handles are
independent, an open fails only for a missing file or when all handles are taken. The mapping
sends descriptor `fd` to the bytes of `file_index` behind `offset`.

`Exec.tla` is the shell task with its memory, and `svc_handler` with every call but `sys_yield`.
The address space is `mem`, a function on the words modulo `Words`; user space is a window in it
and every cell outside holds `KernelCell`, so that a write that escapes shows. User code puts
anything it likes into the registers (`Registers`).

Two cells of user space and its surroundings are special. The kernel stack of the shell is the top of user space
itself: `kernel_main` gives `task_stack_init` the last 4 KB of the user section, and SP_svc starts at the end of it.
`validate_user_pointer` does not know, so a buffer or a segment that it accepts may cover the frames of the very call
that fills it. `Frame` are those cells (`SvcStack` of them, for every depth of calls); a call that writes there ends in
`pc = "lost"`, and what comes then is not modelled, because the code defines nothing from there on. What
sits in `Frame` is not modelled either: a path that user code keeps there is read as it was stored, and `Store` there
harms nobody, since no call is in progress. Everything that is said of `sys_exec` and of the file calls is therefore said of
calls that stay below the kernel stack, and the properties say no more of the others than that nothing outside user space
has been written when they are lost. Second, no section is mapped behind user space (`Unmapped`;
`mmu_build_page_table_boot` maps 1 MB): a kernel write there is a data abort in a privileged mode, on
which `handle_data_abort` halts the kernel (`pc = "panic"`).

| Code | Model |
|---|---|
| `validate_user_pointer` | `Valid` |
| both ABIs of `sys_write`, `sys_read` (file and UART) | `Request`, `sys_write`, `sys_read` |
| `sys_open`, `sys_read_file`, `sys_close`, `sys_listdir`, `sys_get_tasks`, `sys_get_meminfo` | same names; `Listed` is the loop of `scheduler_get_tasks`, `EntryCount` that of `vfs_listdir`, which takes its limit as signed (`SignedCount`) |
| a copy into the caller's buffer | `Put`: it completes, or is `Hindered` by the kernel stack or the unmapped section |
| default case | `Unassigned` |
| `sys_exit` of the shell | `sys_exit`, `Start` |
| `sys_exec`: path check, first `vfs_open` | `ExecOpen` |
| ELF header | `ExecHeader` (`HeaderError` is `validate_elf_header`) |
| head of the loop, program header and its checks | `ExecPhdr` |
| second `vfs_open`, skip, read, close, bss | `ExecSegment`; it reads the path again |
| final close, registers | `ExecDone`, `ExecReturn` |

A path, an ELF header, a program header and a byte of data are each one cell. Reads that end
early leave what they copied in memory, as `vfs_read_exact` does. `sys_exit` copies the
payload back and starts the shell over, on the same stack and with the same descriptors.
The depth of the user stack is `sp`; the stack's contents are not in `mem`.

| Run | Instance | Shows |
|---|---|---|
| `VfsCalls` | 3 files (one empty), 2 free descriptors, bad numbers, lengths and flags | type invariant, `ImplementsOpenFiles` |
| `Exec` | 9 words, 5 of them user space with the kernel stack in its last; the word behind it is not mapped, the one behind that is kernel memory; seven programs, of which one loads and six are broken (segment that wraps, that is longer than its file, that starts behind its end, missing header, entry point outside, bss over the kernel stack); listings of 1, 3 and 6 entries of three cells, of which 3 and 6 have the size 0 in a word | type invariant, `KernelUntouched`, `SoundBuffersReturn`, `DescriptorsBalance`, `TooManyFilesIsHarmless`, `ImageLoaded` |
| `ClaimFreshStack` | nested calls before exec | the code refutes crt0's "Kernel already sets SP for this task" |

Two free descriptors are what `sys_exec` needs, so user code that holds one or both brings out
every shortage. Nine words let every sum and the sizes of listings wrap. A panic stops the system and a lost call is not
followed, so these runs do not check for deadlock. The state spaces are complete but for
`MaxDepth`, the bound on calls in progress on the user stack. User code stores only paths, at two
addresses (one inside, one outside the image), which is all that `sys_exec` tells apart.

`ImageLoaded` asks that no segment but the last covers the path: the code opens the path anew for
each segment, and a segment that replaces it makes the next open find another file or
none. `TooManyFilesIsHarmless` is what the code guarantees of late failures; other errors after the
first segment return to a caller that may be overwritten, see the hazards.

Counts that wrap. `sys_get_tasks` and `sys_listdir` compute the size they check in 32 bits, from a count that user
code chooses. For 2^29 tasks it is 0: any address in user space, and its very end, passes as the buffer, and whole
entries are then written behind what was checked. `Count` holds such numbers and `ExecAssumption` excludes none. What
the run shows of them is mixed. `KernelUntouched` holds, but not because of the check: the write leaves user space and
runs into the unmapped section, where the data abort halts the kernel. A user program can so stop the system, and
`scheduler.c:417` ("Buffer validation is handled by ... validate_user_pointer() ... No additional validation needed here")
is wrong for such a count: TLC reaches `pc = "panic"` in the second step, by a listing of three entries at the end of user
space. If a section were ever mapped behind user space, `KernelUntouched` would fail too; `UserEnd \in Unmapped` in `ExecAssumption` is where this is said.
`SoundBuffersReturn` is the promise to a caller that has done its part: a call that goes wrong was not given room, in user space and below the
kernel stack, for all that it may write. It fails if a listing goes on past the count or a read past the length.

`Vfs_proofs` proves `TypeOK` and the refinement `Spec => ImplementsOpenFiles` for every set of
files and table size: least-element lemmas give what `vfs_open` returns, `LeftSplits` that a
read of n bytes splits the rest of a file, and one lemma per call that the mapped step is one
of `OpenFiles`.

`Exec_proofs` proves the six invariants of the run for every
address space, kernel stack, payload, set of files and arguments of user code, counts of every size included. `AcceptedRange` is the arithmetic: a sum
below `2 * Words` either does not wrap or lies below its start. Where the size has wrapped, only the start of the buffer is known to lie in user
space or at its end; `UnhinderedKept` says that a write which does not meet the unmapped word behind it has stayed inside. `RoomIsEnough` with
the bounds on what each call writes (`PutStep`, `EntriesLength`, `SegmentHindered`) gives `SoundBuffersReturn`. `AbisApart` says why the two ABIs cannot be
mistaken: a descriptor or a short length is never the address of a buffer. `DescriptorsBalance` needs a
strengthening (`IInv`) because it speaks of `done` only: while `sys_exec` works, the table differs from the one at
the call in `exec.fd` alone (`Borrowed`), and free slots are cleared, so that closing what was
borrowed restores the table (`GiveBack`, `AllBack`). `ProgramInv` says how far the descriptor has
moved, which makes the cell read next a program header; only one that was checked reaches
`ExecSegment`. For `TooManyFilesIsHarmless` the invariant (`HarmlessInv`) is that a descriptor can be missing only before the
first segment is loaded: afterwards the one that was given back is still free.

`ImageLoaded` follows from `ImageInv`: the path in memory is still the one of the call as long as a segment is to
come (`PathSurvives`), so each open finds the same file; the segments before `exec.i` are in place (`Loaded`), and an
exact read of `filesz` bytes behind an exact skip delivers the bytes that the program header names (`ExactBytes`,
`SegmentCells`). `ImageGrows` is the step from one segment to the next where they overlap. `NearerTheorem` is about
the loop: every step of the call lowers the pair of its phase and the program headers left, whatever the headers say,
or loses the call, when a segment is laid over the frame of `sys_exec`; the counter of the loop lies in that frame, and
nothing is claimed of a loop that goes on with another one.

## 6. Division

`DivMod.tla` translates `__aeabi_idivmod` and `__aeabi_idiv` loop turn by loop turn. Registers
are words modulo `4 * Quarter`; `Lsl`, `Lsr`, `Negated` and the conditions `ls` (unsigned) and `ge`
(signed) are what the instructions do. The routine stops when it returns, so these runs
do not check for deadlock.

| Run | Instance | Shows |
|---|---|---|
| `DivMod` | all pairs of 6-bit operands | `DivisionIsExact`, `DivisionReturns` for operands `InRange` |
| `ClaimDivision` | all pairs of 4-bit operands | the code refutes "Signed integer division ... Returns: r0 = quotient" for all operands |

Fairness in `FairSpec` is that the CPU executes. Six bits give numerators up to fifteen in range
and divisors of five bits, which the alignment shifts up to four times.

Findings. The align loop compares unsigned and the divide loop signed. An aligned divisor with
the top bit set is taken for a negative number and subtracted: with 32 bits `2^30 / 1` gives `-2^31`. For the
most negative numerator and a power of two the align loop shifts the divisor out of the
register and never ends. `InRange` is the part of the operands that is safe.

`DivMod_proofs` proves `DivisionIsExact` for every `Quarter`. The invariant says that
the shifted divisor is the divisor times the current bit, and that quotient times divisor plus
what is left is the numerator (`Halfway`). That a bit other than 1 is even comes from `Bit`,
the least set that holds 1 and is closed under doubling, which needs no induction. The signs are put back by
arithmetic modulo the word size (`RemainderWraps`, `SignsPutBack`). `BoundTheorem` says that for operands in range every
step lowers a bound on the steps left: the divisor doubles below `Half`, its bit is halved down to zero. That the
CPU takes those steps, and so `DivisionReturns`, is model-checked only.

## 7. The shell

`Shell.tla` is `apps/shell`: the line editor, the in-place split into arguments, the eight
commands and the print functions down to `sys_write`. The key is the input; what is observed is
the last line of a terminal and the characters a command has sent. It uses the operators of
`Files`, so `ls`, `cat` and `exec` meet the real descriptor table, which applications change too.

| Code | Model |
|---|---|
| `line_buffer` | `data`, `pos` |
| `p`, `argv` of `execute_command` | `p`, `argv`; an argument is a position in `data` |
| `fd`, `buffer` of `cmd_cat` | `fd`, `buffer` |
| `shell_puts`, `shell_putc`, `printf`, `uint_to_buf`, `pad_spaces` | operators that give the characters sent |
| `cmd_table` | `Commands` |
| `execute_command` up to its loop, a round of the loop | `Enter`, `Word` |
| main loop's poll that finds no key, `sys_yield` | no step: nothing changes |

`edit`, `held`, `out` and `expected` record for the properties what the user typed, the
descriptors held when the shell started, and what a command sends and should send. `expected` is
written from the user's side (words of the typed line, bytes of the file, decimal digits by
division, columns by width), not with the operators of the code.

| Run | Instance | Shows |
|---|---|---|
| `Shell` | lines of five characters over two letters and the blank, two arguments, staging and file buffers of two characters, two files (one with a NUL byte), two free descriptors | `LineIsWhatWasTyped`, `EchoMatches`, `ArgumentsAreWords`, `CommandsPrint`, `PromptHoldsNoFile`, `CommandReturns` |

Five characters spell every command, most with an argument, and let the buffer be full with
blanks in front, between and behind. Both files are longer than a read. Fairness: the scheduler
gives the shell the CPU (`ReadyRuns` of the scheduler); the user need not type and an application
need not end. Wording of messages is one character, one number stands for the five of `mem`, the
yield between two polls is left out.

`Shell_proofs` proves `TypeOK`, `LineIsWhatWasTyped`, `EchoMatches`, `ArgumentsAreWords`, `CommandsPrint` and
`PromptHoldsNoFile` for every size of the line, of the argument vector and of the three buffers, every set of characters,
command table, files and tasks. `ShellAssumption` asks that printable characters do not move the cursor or end a string, that
names are made of them, that `shell_puts` sends no more than `sys_write` takes, and that numbers have at most ten digits,
as 32 bits have. The invariants:

* `DataInv`: the line buffer has its terminator at `pos`, so every string in it ends inside it.
* `KeyInv`, `SplitInv`: the cells up to `pos`, and while the line is being cut those from `p` on, are what was typed; `p`
  stands on a word or at the end; arguments lie before it.
* `ScreenInv`: at a key the terminal shows prompt and line; while a command works it starts and ends on an empty line.
  This is why `EchoMatches` holds after any command: each path of each command ends with a
  newline (`LinesEnd`, `Settled`), which is an obligation on every command and not on the editor.
* `TableInv`: the descriptor table is the one at the start of the shell, but for the descriptor of `cat`.
* `WordsInv`, for the arguments: those found so far are the first words of the typed line, in order, although blanks
  around them have become terminators. Words are counted, not listed, by the user's definition; `CountTells` says that the
  word whose number of predecessors is n - 1 is the n-th.
* `PrintInv`, for `CommandsPrint`: nothing has been sent when a command starts, and while `cat` works the part of the file
  before the offset has gone out.

`Alike` is the relation `CommandsPrint` is about: equal but for carriage returns. It is preserved by concatenation,
so the commands are proved piece by piece. The lemmas below are about the staging buffer of `shell_puts` (`Collected`: what is
flushed and what is staged are together what was put in, and the buffer never holds more than a write may take), the digits of
`uint_to_buf` (`QuotientsDivide`) against `Decimal`, and padding against `Column`. What is folded over a
sequence is described by its steps, and induction is made on sets of positions (`BySnoc`, `UpTo`).

`NearerTheorem`: every step between Enter and the prompt lowers the phase of the command or what is left
of the line or of the file, because a read that returns nothing ends `cat`. `CommandReturns`, which adds the fairness
of the scheduler, is model-checked only.

## 8. Power on

`PowerOn.tla` composes `Bootloader.tla` and `KernelBoot.tla`, which hand over at the jump. Both use
`Polling.tla`, one operator for each style of loop in the code:

| Loop | Operator |
|---|---|
| `while (!bit);` | `Forever` |
| `for (i = 0; i < N; i++) if (bit) break;` | `GivesUp`; `Bounded` if the end of the budget is told apart |
| `while (!bit) if (--timeout == 0) fail;` | `OrFail` |
| `while (!bit && timeout--); if (!timeout) fail;` | `HaltsAtZero`, with the counter at -1 for its wrap |

A wait is named by the step it is in; its device may answer in any poll or never (`Responds`).
`Polls` (2) is the budget of a loop, which separates the first, the last and no answer.

**Bootloader.** Memory that has missed its clock or calibration may have a stuck bit (`fault`). `ddr_test` tries the first
`Tested` cells of memory and no more: 1024 words, 4 KB, of the megabyte that the kernel may fill (`main.c:163` of the bootloader). The card (external) follows the identification states of its
specification; each command may miss it, and its answer may be lost or damaged. Results the code does not
look at are not looked at in the model (`Unchecked`); `rca` is whatever the last answer was. Blocks
may be damaged, and are copied before the transfer is known to be complete, as in the code. It is assumed that
the controller does not report a complete transfer for a block with a CRC error.

`KernelIsTheImage` says that what is started is the kernel on the card, word for word, with two exceptions. The first is a
faulty word behind the tested ones: nothing notices it, since the CRC of a block covers its way over the bus and not the
memory it is stored in, and the kernel is started with that word damaged (the magic word is the first word, which is
tested). Every other word is right even then. The second is the answer to ACMD41 that
says "ready" is itself lost. The code repeats the command until its attempts are used up,
a card that is ready no longer obeys it, and `sdhc_card` stays 0. A card of high capacity then takes
byte addresses for sector numbers, and only the magic word stands between the boot and another
image. The variable `missed` marks this case and the property excludes it; the hazard list names both.

**Kernel.** Addresses are sections of 1 MB. `pgd` is the page table, `tlb` what the CPU has kept:
`TlbFill` may keep any valid entry at any time. `code`, `stacks` and `vbar` are the sections in
which pc, all stacks and the vectors are. `CodeStaysMapped` says they never
lose the memory they are in, `Isolated` that at the end kernel memory has one address and
user space reaches none of it, old translations included. Kernel memory is here the 5 MB of the kernel's own sections; the kernel
stack of the shell task, which lies in the user section (`main.c:101`), is user memory for this property (see section 5).

The interrupt part has one action per leg: device, controller (`Present`, also with a
spurious number), entry, `irq_dispatch` on each of its three paths, handlers, end of interrupt,
return. The two early returns of the dispatcher, a number out of range and a line without a handler, share an action
(`Unhandled`), and the second cannot happen in the model, as no code unmasks a line before it has registered
its handler; the run reaches the first by a spurious number. `NoPhantomInterrupt`, `InterruptsHaveHandlers` and `InterruptsEnd` are about their order and
the order of `kernel_main`. The tick itself is in `Scheduler`, the loop of the receive handler in
`UartRx`.

| Run | Instance | Shows |
|---|---|---|
| `PowerOn` | both kinds of card, words of two bits, a kernel of two sectors with another image behind it, two attempts of ACMD41, two memory cells of which one is tested, 8 sections | type invariant and the properties named above; `BootEnds` |
| `ClaimDevices` | same | the code refutes its own time-out tests in `timer.c` |

Two sectors bring out the loop over sectors and its end; two bits let a stuck bit, both patterns and
a magic word differ, and the check of the magic word looks at one of them, so that a bit the memory test misses can get by; one section each for kernel, user space and peripherals, with one to spare,
makes every mapping meet every other. The jump gives the bootloader's variables fixed
values (nothing reads them again), so that the two halves add up instead of multiplying.

Fairness: the CPU executes; `kernel_main` gets on between two interrupts (strong fairness, justified
by the timer period of 10 ms); bits that are polled without a limit come, because clocks,
watchdog and UART set them. No other device and not the card is assumed to answer.

Abstracted: register values, pins, timings, delays, transmission of characters, clearing of .bss,
caches. `PrepareTasks` stands for what `Vfs`, `Exec` and `Scheduler` model.

Finding: `timeout--` in the condition of two loops of `timer.c` (lines 115 and 208) leaves the counter at
2^32 - 1 after a real time-out and at 0 after an answer to the last poll, so the test behind the loop
halts in the wrong case (`ClaimDevices`).

`PowerOn_proofs` proves every safety property of the run, `TypeOK` included, for every address space, kernel, card,
memory fault and budget that satisfy `PollsAssumption`, `LoaderAssumption` and `KernelAssumption`. There are two
invariants, because each half leaves the other's variables alone:

* `KInv`, of the kernel. `TableInv` says which page table is in force at which step, `PlaceInv` where code,
  stacks and vectors are, `TlbInv` that what the CPU keeps is an entry of a table that was in force,
  and of the last one only once the TLB has been flushed. `MaskInv` keeps interrupts off until both
  handlers are known. `ServiceInv` says that a line that is presented stays up until its handler has cleared it.
* `LInv`, of the bootloader. `SoundInv`: behind `ddr_test` no cell that is used has a stuck bit, since the two
  patterns differ in every bit (`StuckFails`), unless it lies behind the tested ones, and there is at most one such cell. `CardInv`: a card that is more than idle has told the host
  its kind, or is the one that was missed; hence the sector read is the one meant (`RightSector`). `BlockInv`: the
  sectors before the current one are in memory, and the current one is if its transfer is complete.

`KernelIsTheImage` is the part of `BlockInv` at the jump; the others follow from `KInv` and the arithmetic of
sections (`Frames`, `Apart`). `BootEnds` and `InterruptsEnd` are model-checked only.

## 9. Not modelled

* **Cross compiler.** A sequential translator written in Python: its correctness is the equivalence of source and output for every
  program, which a state space of small instances does not reach. Its runtime division is section 6. The register
  allocator's fallback (two names in r4) stays in the hazard list without a property.
* **`reflibc`** keeps no state; its system call convention is the second ABI in `Exec`.
* **Userspace call wrappers** (`userspace/lib/syscall.c`) put arguments into registers; `Exec` starts from
  the registers.
* **Exceptions.** FIQ is never enabled. What the abort handlers print is left out. That is why the component is "partly".
* **UART transmission** polls one register and keeps no state; `uart_printf` formats.
* **Functions without a caller:** `irq_unregister_handler`, `irq_get_count`, `intc_disable_irq`, `intc_set_priority`.
* **Caches.** Code loaded by exec is not cleaned from the data cache before it runs; nothing in the code states
  what it relies on.

Comments that the model contradicts without a run of their own: `scheduler.c:417` on the validation of buffers (section 5,
"Counts that wrap"), and `mmu.c:102-103`, which names a kernel mapping of
127 MB and a user bootstrap at 0xC0000000; the code maps `KERNEL_DDR_MB` = 5 sections and user
space at 0x40000000.
