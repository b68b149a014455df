--------------------------------- MODULE Exec ---------------------------------
(***************************************************************************)
(* The shell task and the system calls: those on files, those that fill or *)
(* read a buffer of the caller, sys_exec and sys_exit.  sys_yield, which   *)
(* does nothing to memory and files, is in Scheduler.                      *)
(*                                                                         *)
(* sys_exec works on the memory of its caller, who passed the path in that *)
(* memory: the program headers are read through one descriptor, every      *)
(* segment through a second one, opened by the path as it then is.         *)
(* Interrupts touch neither files nor user memory, so the steps below are  *)
(* cut for reading, at the points where sys_exec may give up.              *)
(*                                                                         *)
(* One cell stands for the unit a call moves: a byte of data, a path, an   *)
(* ELF header, a program header, or part of a process_info_t, file_info_t  *)
(* or mem_info_t, which have EntrySize cells each.  Addresses are words    *)
(* modulo Words.                                                           *)
(*                                                                         *)
(* The kernel stack of the shell is the top of user space itself.  A call  *)
(* whose buffer or segment meets it writes over its own frame: what comes  *)
(* then is not modelled, the call is "lost".  No section is mapped behind  *)
(* user space: a call that writes there is stopped by the data abort, and  *)
(* the kernel with it ("panic").                                           *)
(***************************************************************************)
EXTENDS Files

CONSTANTS
  Words,              \* 2^32
  UserBase, UserSize, \* USER_SPACE_VA and the megabyte behind it
  MaxPath,            \* MAX_PATH
  Zero, Unwritten,    \* a cleared cell, one nobody has written
  SvcStack,           \* cells of the shell's kernel stack
  Unmapped,           \* addresses no section is mapped for
  KernelCell,         \* a cell outside user space
  Payload,            \* the shell image in the kernel
  Stored, StoredAt,   \* what user code writes to its memory, and where
  Number,             \* descriptors user code passes
  Pointer, Buffer, Length,  \* addresses and lengths it passes
  Registers,          \* r0 to r2 of its sys_write and sys_read
  Typed,              \* characters the UART may deliver
  MaxWrite,           \* 256
  EntrySize, Count,   \* cells of an entry, numbers of entries it asks for
  Info, TaskCount,    \* what the kernel writes there, tasks in the table
  Root,               \* the path "/"
  MaxDepth            \* bound: calls in progress on the user stack

Word == 0 .. Words - 1
UserEnd == UserBase + UserSize
User == UserBase .. UserEnd - 1

\* task_stack_init puts SP_svc at the very end of user space.
Frame == UserEnd - SvcStack .. UserEnd - 1

Ehdr == [entry : Word, phnum : Nat]
Phdr == [load : BOOLEAN, offset : Word, vaddr : Word, filesz : Word, memsz : Word]

HasHeader(f) == Content[f] # <<>> /\ Content[f][1] \in Ehdr

\* A file with an ELF header has its program headers behind it (e_phoff is
\* checked), unless it is cut short.  Of the numbers of entries user code may
\* ask for nothing is assumed: their size in cells may be more than a word holds.
ASSUME ExecAssumption ==
  /\ Words \in Nat /\ UserBase \in Nat /\ UserSize \in Nat \ {0} /\ MaxPath \in Nat \ {0}
  /\ UserEnd < Words
  /\ SvcStack \in 1 .. UserSize
  /\ Unmapped \subseteq Word \ User /\ UserEnd \in Unmapped
  /\ Payload \in Seq(Byte) /\ Len(Payload) <= UserSize - SvcStack
  /\ StoredAt \subseteq User
  /\ Pointer \subseteq Word /\ Buffer \subseteq Word /\ Length \subseteq Word
  /\ Registers \subseteq Word \X Word \X Word /\ MaxWrite \in Nat
  /\ EntrySize \in Nat \ {0} /\ EntrySize < Words
  /\ Count \subseteq Word
  /\ TaskCount \in Nat
  /\ MaxDepth \in Nat
  /\ \A f \in Files : HasHeader(f) =>
       \A i \in 1 .. Content[f][1].phnum :
         i + 1 <= Size(f) => Content[f][i + 1] \in Phdr

VARIABLES
  fd_table,
  mem,        \* the address space
  pc,         \* "entry", "user", where sys_exec stands, "lost" or "panic"
  exec,       \* locals of sys_exec
  result,     \* r0: the path while sys_exec works, then what the call returned
  base, sp    \* depth of the user stack at the entry point and now

stack == <<base, sp>>
vars == <<fd_table, mem, pc, exec, result, stack>>

-----------------------------------------------------------------------------
(* Pointers and paths                                                      *)

MutValid(ptr, len) ==
  ptr >= UserBase /\ (ptr + len) % Words <= UserEnd

\* validate_user_pointer: the end wraps, and must not lie below the start.
Valid(ptr, len) ==
  LET end == (ptr + len) % Words IN
  /\ ~ end < ptr
  /\ ptr >= UserBase
  /\ end <= UserEnd

\* The path a cell spells; what is no path is looked up as it is.
Spelled(cell) == IF cell \in Path THEN cell ELSE [slash |-> FALSE, name |-> cell]
PathAt(p) == Spelled(mem[p])

\* Memory after bytes have been copied to ptr.
Copied(m, ptr, bytes) ==
  [a \in Word |-> IF a \in ptr .. ptr + Len(bytes) - 1 THEN bytes[a - ptr + 1] ELSE m[a]]

Cleared(m, from, to) == [a \in Word |-> IF a \in from .. to - 1 THEN Zero ELSE m[a]]

-----------------------------------------------------------------------------
(* User code                                                               *)

\* before, fds and called remember the state at the call, roomy whether the
\* caller of a call that went wrong had room enough, for the properties.
NoExec ==
  [path |-> UserBase, fd |-> 0, header |-> Zero, i |-> 0, phdr |-> Zero,
   called |-> Zero, before |-> <<>>, fds |-> <<>>, roomy |-> FALSE]

\* User space below the kernel stack.
Room(ptr, size) == ptr .. ptr + size - 1 \subseteq User \ Frame

\* The kernel writes n cells from ptr on, of the size its caller has given it;
\* hindered, it returns nothing.
Unhindered(ptr, n) == (ptr .. ptr + n - 1) \cap (Frame \cup Unmapped) = {}
Hindered(ptr, n, size) ==
  /\ ~ Unhindered(ptr, n)
  /\ pc' = IF (ptr .. ptr + n - 1) \cap Frame # {} THEN "lost" ELSE "panic"
  /\ exec' = [NoExec EXCEPT !.roomy = Room(ptr, size)]
  /\ result' = E_OK
  /\ UNCHANGED <<mem, stack>>

\* It fills a buffer of its caller and returns r.
Put(ptr, size, bytes, r) ==
  \/ /\ Unhindered(ptr, Len(bytes))
     /\ mem' = Copied(mem, ptr, bytes)
     /\ result' = r
     /\ UNCHANGED <<pc, exec, stack>>
  \/ Hindered(ptr, Len(bytes), size)

\* kernel_main has copied the shell to USER_SPACE_VA; the rest of user space
\* has not been written.
Init ==
  /\ fd_table = [fd \in Fd |-> Unused]
  /\ mem = Copied([a \in Word |-> IF a \in User THEN Unwritten ELSE KernelCell], UserBase, Payload)
  /\ pc = "entry"
  /\ exec = NoExec
  /\ result = E_OK
  /\ base = 0 /\ sp = 0

Start ==
  /\ pc = "entry"
  /\ pc' = "user"
  /\ base' = sp
  /\ UNCHANGED <<fd_table, mem, exec, result, sp>>

Store(a, v) ==
  /\ pc = "user"
  /\ mem' = [mem EXCEPT ![a] = v]
  /\ UNCHANGED <<fd_table, pc, exec, result, stack>>

Call ==
  /\ pc = "user"
  /\ sp < MaxDepth
  /\ sp' = sp + 1
  /\ UNCHANGED <<fd_table, mem, pc, exec, result, base>>

Return ==
  /\ pc = "user"
  /\ sp > base
  /\ sp' = sp - 1
  /\ UNCHANGED <<fd_table, mem, pc, exec, result, base>>

-----------------------------------------------------------------------------
(* File calls                                                              *)

sys_open(p, flags) ==
  /\ pc = "user"
  /\ IF Valid(p, MaxPath)
     THEN /\ fd_table' = AfterOpen(fd_table, PathAt(p), flags)
          /\ result' = OpenResult(fd_table, PathAt(p), flags)
     ELSE result' = E_PTR /\ UNCHANGED fd_table
  /\ UNCHANGED <<mem, pc, exec, stack>>

sys_read_file(fd, buf, len) ==
  /\ pc = "user"
  /\ \/ /\ ~ Valid(buf, len)
        /\ result' = E_PTR
        /\ UNCHANGED <<fd_table, mem, pc, exec, stack>>
     \/ /\ Valid(buf, len) /\ ~ IsOpen(fd_table, fd)
        /\ result' = E_BADF
        /\ UNCHANGED <<fd_table, mem, pc, exec, stack>>
     \/ /\ Valid(buf, len) /\ IsOpen(fd_table, fd)
        /\ LET bytes == DataOf(fd_table, fd, len) IN
             /\ Put(buf, len, bytes, Len(bytes))
             /\ fd_table' = Advanced(fd_table, fd, Len(bytes))

sys_close(fd) ==
  /\ pc = "user"
  /\ IF IsOpen(fd_table, fd)
     THEN fd_table' = Closed(fd_table, fd) /\ result' = E_OK
     ELSE result' = E_BADF /\ UNCHANGED fd_table
  /\ UNCHANGED <<mem, pc, exec, stack>>

\* The shell task does not die: its image is copied again and it starts over.
sys_exit ==
  /\ pc = "user"
  /\ mem' = Copied(mem, UserBase, Payload)
  /\ result' = E_OK
  /\ pc' = "entry"
  /\ UNCHANGED <<fd_table, exec, stack>>

-----------------------------------------------------------------------------
(* Console, listings and numbers nobody has assigned                       *)

E_INVAL == -2

\* Two ABIs share sys_write and sys_read: (buf, len) of the shell's library is
\* tried first, (fd, buf, count) of the compiler's runtime second.
MutRequest(r, std) ==
  IF Valid(r[1], r[2]) THEN [fd |-> std, buf |-> r[1], len |-> r[2]]
  ELSE [fd |-> r[1], buf |-> r[2], len |-> r[3]]
Request(r, std) ==
  IF Valid(r[1], r[2]) THEN [fd |-> std, buf |-> r[1], len |-> r[2]]
  ELSE IF Valid(r[2], r[3]) THEN [fd |-> r[1], buf |-> r[2], len |-> r[3]]
  ELSE [fd |-> E_PTR, buf |-> 0, len |-> 0]

\* Reads the caller's memory and touches nothing; the UART is not in this module.
sys_write(r) ==
  LET q == Request(r, 1) IN
  /\ pc = "user"
  /\ result' = IF q.fd = E_PTR THEN E_PTR
               ELSE IF q.fd \notin {1, 2} \/ q.len > MaxWrite THEN E_ARG
               ELSE q.len
  /\ UNCHANGED <<fd_table, mem, pc, exec, stack>>

\* At most one character, whatever the length.
sys_read(r) ==
  LET q == Request(r, 0) IN
  /\ pc = "user"
  /\ \/ /\ q.fd # 0
        /\ result' = IF q.fd = E_PTR THEN E_PTR ELSE E_ARG
        /\ UNCHANGED <<mem, pc, exec, stack>>
     \/ /\ q.fd = 0   \* len = 0, or uart_getc is -1
        /\ result' = 0
        /\ UNCHANGED <<mem, pc, exec, stack>>
     \/ q.fd = 0 /\ q.len > 0 /\ \E c \in Typed : Put(q.buf, q.len, <<c>>, 1)
  /\ UNCHANGED fd_table

Entries(n) == [i \in 1 .. n * EntrySize |-> Info]

\* n entries for a buffer that was checked for max of them: the product that is
\* checked wraps, so the buffer may be shorter than what is written.
FillOrRefuse(buf, max, n) ==
  /\ pc = "user"
  /\ IF Valid(buf, (max * EntrySize) % Words)
     THEN Put(buf, max * EntrySize, Entries(n), n)
     ELSE result' = E_PTR /\ UNCHANGED <<mem, pc, exec, stack>>
  /\ UNCHANGED fd_table

\* scheduler_get_tasks stops at max entries.
MutListed(max, n) == n
Listed(max, n) == IF n < max THEN n ELSE max

sys_get_tasks(buf, max) == FillOrRefuse(buf, max, Listed(max, TaskCount))

sys_get_meminfo(buf) ==
  /\ pc = "user"
  /\ IF Valid(buf, EntrySize)
     THEN Put(buf, EntrySize, Entries(1), E_OK)
     ELSE result' = E_PTR /\ UNCHANGED <<mem, pc, exec, stack>>
  /\ UNCHANGED fd_table

\* Only the root can be listed.  vfs_listdir takes max for a signed number.
SignedCount(max) == IF max >= Words \div 2 THEN max - Words ELSE max

sys_listdir(p, buf, max) ==
  \/ /\ Valid(p, MaxPath) /\ mem[p] = Root
     /\ FillOrRefuse(buf, max, EntryCount(SignedCount(max)))
  \/ /\ pc = "user"
     /\ \/ ~ Valid(p, MaxPath) /\ result' = E_PTR
        \/ /\ Valid(p, MaxPath) /\ mem[p] # Root
           /\ result' = IF Valid(buf, (max * EntrySize) % Words) THEN E_NOENT ELSE E_PTR
     /\ UNCHANGED <<fd_table, mem, pc, exec, stack>>

Unassigned ==
  /\ pc = "user"
  /\ result' = E_INVAL
  /\ UNCHANGED <<fd_table, mem, pc, exec, stack>>

-----------------------------------------------------------------------------
(* sys_exec                                                                *)

\* vfs_read_exact and vfs_skip_bytes: all len cells, or what is left and E_FAIL.
Exact(t, fd, len) == Len(DataOf(t, fd, len)) = len
Moved(t, fd, len) == Advanced(t, fd, Len(DataOf(t, fd, len)))

Finish(t, r) ==
  /\ fd_table' = t
  /\ result' = r
  /\ pc' = "done"
  /\ UNCHANGED <<exec, stack>>

ExecOpen(p) ==
  /\ pc = "user"
  /\ LET fd == OpenResult(fd_table, PathAt(p), O_RDONLY)
         locals == [NoExec EXCEPT !.path = p, !.fd = fd,
                      !.called = mem[p], !.before = mem, !.fds = fd_table]
     IN  \/ /\ ~ Valid(p, MaxPath)
            /\ result' = E_PTR
            /\ UNCHANGED <<fd_table, pc, exec>>
         \/ /\ Valid(p, MaxPath)
            /\ exec' = locals
            /\ fd_table' = AfterOpen(fd_table, PathAt(p), O_RDONLY)
            /\ IF fd < 0 THEN pc' = "done" /\ result' = fd
               ELSE pc' = "header" /\ result' = p
  /\ UNCHANGED <<mem, stack>>

\* validate_elf_header
HeaderError(cell) ==
  IF cell \notin Ehdr \/ cell.phnum = 0 THEN E_ARG
  ELSE IF ~ Valid(cell.entry, 1) THEN E_PTR
  ELSE E_OK

MutRelease(t) == t
Release(t) == Closed(t, exec.fd)

ExecHeader ==
  LET cell == DataOf(fd_table, exec.fd, 1)[1]
      t == Moved(fd_table, exec.fd, 1)
  IN
  /\ pc = "header"
  /\ UNCHANGED mem
  /\ \/ ~ Exact(fd_table, exec.fd, 1) /\ Finish(Release(t), E_FAIL)
     \/ /\ Exact(fd_table, exec.fd, 1) /\ HeaderError(cell) # E_OK
        /\ Finish(Release(t), HeaderError(cell))
     \/ /\ Exact(fd_table, exec.fd, 1) /\ HeaderError(cell) = E_OK
        /\ fd_table' = t
        /\ exec' = [exec EXCEPT !.header = cell]
        /\ pc' = "phdr"
        /\ UNCHANGED <<result, stack>>

\* Head of the loop: the next program header, up to the check of its pointer.
ExecPhdr ==
  LET ph == DataOf(fd_table, exec.fd, 1)[1]
      t == Moved(fd_table, exec.fd, 1)
  IN
  /\ pc = "phdr"
  /\ exec.i < exec.header.phnum
  /\ UNCHANGED mem
  /\ IF ~ Exact(fd_table, exec.fd, 1) THEN Finish(Release(t), E_FAIL)
     ELSE IF ph.load /\ ph.filesz > ph.memsz THEN Finish(Release(t), E_ARG)
     ELSE IF ph.load /\ ~ Valid(ph.vaddr, ph.memsz) THEN Finish(Release(t), E_PTR)
     ELSE /\ fd_table' = t
          /\ exec' = [exec EXCEPT !.i = IF ph.load THEN @ ELSE @ + 1, !.phdr = ph]
          /\ pc' = IF ph.load THEN "segment" ELSE "phdr"
          /\ UNCHANGED <<result, stack>>

MutSegClosed(t, seg) == t
SegClosed(t, seg) == Closed(t, seg)

\* The bss part; the pointer check covered all of memsz.
MutBss(m, ph) == m
Bss(m, ph) == Cleared(m, ph.vaddr + ph.filesz, ph.vaddr + ph.memsz)

\* Rest of the iteration: open the path again, skip to the segment, copy it.  A
\* segment that covers the kernel stack is laid over the frames of sys_exec.
ExecSegment ==
  LET ph == exec.phdr
      path == PathAt(exec.path)
      seg == OpenResult(fd_table, path, O_RDONLY)
      opened == AfterOpen(fd_table, path, O_RDONLY)
      there == Moved(opened, seg, ph.offset)
      bytes == DataOf(there, seg, ph.filesz)
      copied == Copied(mem, ph.vaddr, bytes)
      written == IF Exact(there, seg, ph.filesz) THEN ph.memsz ELSE Len(bytes)
      closed == SegClosed(Moved(there, seg, ph.filesz), seg)
  IN
  /\ pc = "segment"
  /\ \/ seg < 0 /\ Finish(Release(fd_table), seg) /\ UNCHANGED mem
     \/ /\ seg >= 0 /\ ~ Exact(opened, seg, ph.offset)
        /\ Finish(Release(SegClosed(there, seg)), E_FAIL)
        /\ UNCHANGED mem
     \/ /\ seg >= 0 /\ Exact(opened, seg, ph.offset) /\ ~ Exact(there, seg, ph.filesz)
        /\ Unhindered(ph.vaddr, written)
        /\ Finish(Release(closed), E_FAIL)
        /\ mem' = copied
     \/ /\ seg >= 0 /\ Exact(opened, seg, ph.offset) /\ Exact(there, seg, ph.filesz)
        /\ Unhindered(ph.vaddr, written)
        /\ fd_table' = closed
        /\ mem' = Bss(copied, ph)
        /\ exec' = [exec EXCEPT !.i = @ + 1]
        /\ pc' = "phdr"
        /\ UNCHANGED <<result, stack>>
     \/ /\ seg >= 0 /\ Exact(opened, seg, ph.offset)
        /\ Hindered(ph.vaddr, written, ph.memsz)
        /\ UNCHANGED fd_table

ExecDone ==
  /\ pc = "phdr"
  /\ exec.i = exec.header.phnum
  /\ Finish(Release(fd_table), E_OK)
  /\ UNCHANGED mem

\* Back to user mode: after the call, or at e_entry on the same stack.
ExecReturn ==
  /\ pc = "done"
  /\ pc' = IF result = E_OK THEN "entry" ELSE "user"
  /\ exec' = NoExec
  /\ UNCHANGED <<fd_table, mem, result, stack>>

sys_exec ==
  (\E p \in Pointer : ExecOpen(p)) \/ ExecHeader \/ ExecPhdr \/ ExecSegment \/ ExecDone \/ ExecReturn

\* The switch over r7.
svc_handler ==
  \/ sys_exit \/ sys_exec \/ Unassigned
  \/ \E p \in Pointer, flags \in 0 .. 1 : sys_open(p, flags)
  \/ \E fd \in Number, buf \in Buffer, len \in Length : sys_read_file(fd, buf, len)
  \/ \E fd \in Number : sys_close(fd)
  \/ \E r \in Registers : sys_write(r) \/ sys_read(r)
  \/ \E buf \in Buffer, max \in Count : sys_get_tasks(buf, max)
  \/ \E buf \in Buffer : sys_get_meminfo(buf)
  \/ \E p \in Pointer, buf \in Buffer, max \in Count : sys_listdir(p, buf, max)

Next ==
  \/ Start \/ Call \/ Return
  \/ \E a \in StoredAt, v \in Stored : Store(a, v)
  \/ svc_handler

Spec == Init /\ [][Next]_vars

-----------------------------------------------------------------------------
(* Properties                                                              *)

\* Descriptors are sound, and sys_exec holds an open descriptor while it works.
TypeOK ==
  /\ fd_table \in [Fd -> [in_use : BOOLEAN, file_index : Nat, offset : Nat]]
  /\ \A fd \in Fd : fd_table[fd].in_use =>
       /\ fd \in Handle
       /\ fd_table[fd].file_index \in Files
       /\ fd_table[fd].offset <= Size(fd_table[fd].file_index)
  /\ DOMAIN mem = Word
  /\ pc \in {"entry", "user", "header", "phdr", "segment", "done", "lost", "panic"}
  /\ pc \in {"header", "phdr", "segment"} => IsOpen(fd_table, exec.fd)
  /\ base \in 0 .. MaxDepth /\ sp \in base .. MaxDepth

\* "This sandboxes User interactions preventing Kernel corruption": whatever
\* pointers, lengths and counts user code and ELF headers hold, sums and
\* products wrapping included, nothing outside user space is written up to a
\* lost call.  A listing whose size has wrapped owes this to the unmapped
\* section behind user space, not to the check.
KernelUntouched == \A a \in Word \ User : mem[a] = KernelCell

\* "Buffer validation is handled by validate_user_pointer()": a call that has
\* been given room for all that it may write, in user space and below the
\* kernel stack, never stops the kernel and never writes over its own frame;
\* listings stop at what was asked for, reads at the length, and a segment's
\* two parts at its size in memory.
SoundBuffersReturn == pc \in {"lost", "panic"} => ~ exec.roomy

\* On every one of its many returns sys_exec has given back exactly the
\* descriptors it took: the table is what it was at the call.
DescriptorsBalance == pc = "done" => fd_table = exec.fds

\* A lack of descriptors is found before the image is touched: the two
\* descriptors sys_exec needs are taken before the first cell is copied, and
\* the second one is free again for every later segment.
TooManyFilesIsHarmless ==
  pc = "done" /\ result = E_MFILE => mem = exec.before

Program(f) == [i \in 1 .. Content[f][1].phnum |-> Content[f][i + 1]]
Loads(f) == {i \in DOMAIN Program(f) : Program(f)[i].load}
Extent(ph) == ph.vaddr .. ph.vaddr + ph.memsz - 1

\* No segment but the last one covers the path.
PathSurvives(f) == \A i, k \in Loads(f) : i < k => exec.path \notin Extent(Program(f)[i])

\* After a successful sys_exec every cell of a segment, unless a later segment
\* covers it, holds its byte of the file named at the call, or zero behind
\* the file's part.  The path is read again for every segment, from memory
\* the image may have replaced, so this asks for a path that survives.
ImageLoaded ==
  pc = "done" /\ result = E_OK =>
    LET f == ramfs_lookup(Spelled(exec.called).name) IN
    PathSurvives(f) =>
      \A i \in Loads(f) : \A a \in Extent(Program(f)[i]) :
        LET ph == Program(f)[i] IN
        (\A k \in Loads(f) : k > i => a \notin Extent(Program(f)[k])) =>
          mem[a] = IF a < ph.vaddr + ph.filesz
                   THEN Content[f][ph.offset + (a - ph.vaddr) + 1]
                   ELSE Zero

\* crt0.S: "Kernel already sets SP for this task".
StartsOnFreshStack == pc = "entry" => sp = 0

=============================================================================
