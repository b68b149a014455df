----------------------------- MODULE Exec_proofs ------------------------------
(***************************************************************************)
(* For every address space, every set of files and every table: nothing    *)
(* outside user space is written, a call that has room enough returns, and *)
(* sys_exec gives back its descriptors.                                    *)
(***************************************************************************)
EXTENDS Exec, Files_proofs, TLAPS

-----------------------------------------------------------------------------
(* Addresses                                                               *)

\* A range that validate_user_pointer accepts lies in user space, although the
\* end of the range is computed modulo the word size.
THEOREM AcceptedRange ==
  ASSUME NEW ptr \in Word, NEW len \in Word, Valid(ptr, len)
  PROVE  /\ ptr >= UserBase /\ ptr + len <= UserEnd
         /\ ptr .. ptr + len - 1 \subseteq User
<1>1. /\ Words \in Nat \ {0} /\ UserBase \in Nat /\ UserEnd \in Nat
      /\ ptr \in 0 .. Words - 1 /\ len \in 0 .. Words - 1
  BY ExecAssumption DEF Word, UserEnd
<1> DEFINE sum == ptr + len
           end == sum % Words
<1>2. ptr >= UserBase /\ end <= UserEnd /\ ~ (end < ptr)
  BY DEF Valid
<1>3. sum \in Nat /\ sum < 2 * Words
  BY <1>1
<1>4. CASE sum < Words
  <2>1. end = sum
    <3> HIDE DEF sum
    <3> QED BY <1>1, <1>3, <1>4
  <2> QED BY <1>1, <1>2, <2>1 DEF User
<1>5. CASE sum >= Words
  <2>1. end = (sum - Words) % Words
    <3> HIDE DEF sum
    <3> QED BY <1>1, <1>3
  <2>2. sum - Words \in 0 .. Words - 1
    BY <1>1, <1>3, <1>5
  <2>3. end = sum - Words
    <3> HIDE DEF sum
    <3> QED BY <1>1, <2>1, <2>2
  <2> QED BY <1>1, <1>2, <2>3
<1> QED BY <1>1, <1>3, <1>4, <1>5

\* A memory whose cells outside user space are as at boot.
Kept(m) == DOMAIN m = Word /\ \A a \in Word \ User : m[a] = KernelCell

LEMMA CopiedKept ==
  ASSUME NEW m, Kept(m), NEW ptr \in Int, NEW bytes, NEW n \in Int,
         Len(bytes) \in Nat, Len(bytes) <= n, ptr .. ptr + n - 1 \subseteq User
  PROVE  Kept(Copied(m, ptr, bytes))
<1>1. ptr .. ptr + Len(bytes) - 1 \subseteq User
  <2>1. ptr .. ptr + Len(bytes) - 1 \subseteq ptr .. ptr + n - 1
    OBVIOUS
  <2> QED BY <2>1
<1> QED BY <1>1 DEF Kept, Copied

LEMMA ClearedKept ==
  ASSUME NEW m, Kept(m), NEW from, NEW to, from .. to - 1 \subseteq User
  PROVE  Kept(Cleared(m, from, to))
BY DEF Kept, Cleared

-----------------------------------------------------------------------------
(* Tables                                                                  *)

\* The same for vfs_read_exact and vfs_skip_bytes.
LEMMA MovedGood ==
  ASSUME NEW t, Good(t), NEW fd, IsOpen(t, fd), NEW len \in Nat
  PROVE  LET n == Len(DataOf(t, fd, len)) IN
         /\ n \in Nat /\ n <= len
         /\ Good(Moved(t, fd, len)) /\ Moved(t, fd, len) = Advanced(t, fd, n)
         /\ IsOpen(Moved(t, fd, len), fd)
         /\ Moved(t, fd, len)[fd].file_index = t[fd].file_index
         /\ Moved(t, fd, len)[fd].offset = t[fd].offset + n
         /\ \A x \in Fd \ {fd} : Moved(t, fd, len)[x] = t[x]
BY AdvancedGood DEF Moved

-----------------------------------------------------------------------------
(* The inductive invariant                                                 *)

Working == {"header", "phdr", "segment"}

StackInv == base \in 0 .. MaxDepth /\ sp \in base .. MaxDepth

\* While sys_exec works, exec.fd is all that it has borrowed.
WorkInv == pc \in Working =>
  /\ IsOpen(fd_table, exec.fd)
  /\ Borrowed(exec.fds, fd_table, {exec.fd})

\* How far the file behind exec.fd has been read, and what has been checked.
ReadTo(o) == fd_table[exec.fd].offset = o

ProgramInv ==
  /\ pc = "header" => ReadTo(0) /\ exec.i = 0
  /\ pc \in {"phdr", "segment"} =>
       /\ HasHeader(fd_table[exec.fd].file_index)
       /\ exec.header = Content[fd_table[exec.fd].file_index][1]
       /\ exec.i \in Nat /\ exec.i <= exec.header.phnum
  /\ pc = "phdr" => ReadTo(exec.i + 1)
  /\ pc = "segment" =>
       /\ ReadTo(exec.i + 2)
       /\ exec.i < exec.header.phnum
       /\ exec.phdr \in Phdr
       /\ exec.phdr.filesz <= exec.phdr.memsz
       /\ Valid(exec.phdr.vaddr, exec.phdr.memsz)

\* A call that went wrong, and all the modes in which sys_exec is not at work.
Gone == {"lost", "panic"}
Elsewhere == {"entry", "user"} \cup Gone

IInv ==
  /\ pc \in Elsewhere \cup Working \cup {"done"}
  /\ Good(fd_table) /\ Kept(mem) /\ StackInv
  /\ DOMAIN exec = DOMAIN NoExec
  /\ WorkInv /\ ProgramInv /\ DescriptorsBalance /\ SoundBuffersReturn

LEMMA Fields ==
  DOMAIN NoExec =
    {"path", "fd", "header", "i", "phdr", "called", "before", "fds", "roomy"}
BY DEF NoExec

LEMMA IInvImplies ==
  IInv => TypeOK /\ KernelUntouched /\ DescriptorsBalance /\ SoundBuffersReturn
BY DEF IInv, TypeOK, KernelUntouched, Good, Sound, FdSlot, Kept, StackInv, WorkInv, Working,
       Elsewhere, Gone

\* Where sys_exec is not at work the parts about it say nothing.
LEMMA ElsewhereInv ==
  ASSUME pc' \in Elsewhere, Good(fd_table'), Kept(mem'), StackInv',
         DOMAIN exec' = DOMAIN NoExec, SoundBuffersReturn'
  PROVE  IInv'
BY DEF IInv, WorkInv, ProgramInv, DescriptorsBalance, Working, Elsewhere, Gone

LEMMA UnusedIsSlot == Unused \in FdSlot /\ ~ Unused.in_use
BY DEF Unused, FdSlot

LEMMA UserIsWord == User \subseteq Word /\ UserBase \in Int
BY ExecAssumption DEF User, Word

\* The payload fits into user space.
LEMMA PayloadKept ==
  ASSUME NEW m, Kept(m)
  PROVE  Kept(Copied(m, UserBase, Payload))
<1>1. Len(Payload) \in Nat /\ Len(Payload) <= UserSize /\ UserBase \in Int /\ UserSize \in Int
  BY ExecAssumption
<1>2. UserBase .. UserBase + UserSize - 1 \subseteq User
  BY <1>1 DEF User, UserEnd
<1> QED BY <1>1, <1>2, CopiedKept

LEMMA InitInv == Init => IInv
<1> SUFFICES ASSUME Init
             PROVE  IInv
  OBVIOUS
<1>1. Good(fd_table)
  BY UnusedIsSlot DEF Init, Good, Sound, Clean
<1>2. Kept(mem)
  <2> DEFINE m == [a \in Word |-> IF a \in User THEN Unwritten ELSE KernelCell]
  <2>1. Kept(m)
    BY DEF Kept
  <2>2. mem = Copied(m, UserBase, Payload)
    BY DEF Init
  <2> HIDE DEF m
  <2> QED BY <2>1, <2>2, PayloadKept
<1>3. StackInv
  BY ExecAssumption DEF Init, StackInv
<1> QED BY <1>1, <1>2, <1>3
      DEF Init, IInv, WorkInv, ProgramInv, DescriptorsBalance, SoundBuffersReturn, Working,
          Elsewhere, Gone

-----------------------------------------------------------------------------
(* User code and file calls                                                *)

LEMMA OpenStep ==
  ASSUME NEW t, Good(t), NEW path, NEW flags
  PROVE  Good(AfterOpen(t, path, flags))
<1>1. CASE OpenResult(t, path, flags) >= 0
  <2>1. /\ OpenResult(t, path, flags) \in Handle
        /\ ramfs_lookup(path.name) \in Files
        /\ AfterOpen(t, path, flags) = Opened(t, OpenResult(t, path, flags), ramfs_lookup(path.name))
    BY <1>1, OpenFacts
  <2> QED BY <2>1, OpenedGood
<1>2. CASE ~ (OpenResult(t, path, flags) >= 0)
  BY <1>2, OpenFailsFacts
<1> QED BY <1>1, <1>2

\* What a call of one step leaves to its caller, or to nobody.
Served ==
  /\ pc' \in Elsewhere /\ DOMAIN exec' = DOMAIN NoExec /\ SoundBuffersReturn'
  /\ UNCHANGED <<base, sp>>

\* A call that has room enough for what it writes is not hindered.
LEMMA RoomIsEnough ==
  ASSUME NEW ptr \in Int, NEW n \in Int, NEW size \in Int, n <= size, Room(ptr, size)
  PROVE  Unhindered(ptr, n)
<1>1. ptr .. ptr + n - 1 \subseteq ptr .. ptr + size - 1
  OBVIOUS
<1>2. Unmapped \cap User = {}
  BY ExecAssumption
<1> QED BY <1>1, <1>2 DEF Room, Unhindered

LEMMA HinderedServes ==
  ASSUME NEW ptr \in Int, NEW n \in Int, NEW size \in Int, n <= size,
         Hindered(ptr, n, size)
  PROVE  Served /\ pc' \in Gone /\ UNCHANGED mem
<1>1. exec' = [NoExec EXCEPT !.roomy = Room(ptr, size)] /\ ~ Room(ptr, size)
  BY RoomIsEnough DEF Hindered
<1>2. ~ exec'.roomy /\ DOMAIN exec' = DOMAIN NoExec
  BY <1>1, Fields
<1>3. pc' \in Gone /\ UNCHANGED <<mem, base, sp>>
  BY DEF Hindered, Gone, stack
<1> QED BY <1>2, <1>3 DEF Served, SoundBuffersReturn, Elsewhere

\* What starts in user space, or at its end, stays there unless it is hindered:
\* the word behind user space is not mapped.
LEMMA UnhinderedKept ==
  ASSUME Kept(mem), NEW ptr \in Int, UserBase <= ptr, ptr <= UserEnd,
         NEW bytes, Len(bytes) \in Nat, Unhindered(ptr, Len(bytes))
  PROVE  Kept(Copied(mem, ptr, bytes))
<1>1. PICK n \in Nat : n = Len(bytes)
  OBVIOUS
<1>2. UserBase \in Int /\ UserEnd \in Int /\ UserEnd \notin ptr .. ptr + n - 1
  BY <1>1, ExecAssumption DEF Unhindered, UserEnd
<1>3. ptr .. ptr + n - 1 \subseteq User
  BY <1>2 DEF User
<1>4. ptr .. ptr + Len(bytes) - 1 \subseteq User
  BY <1>1, <1>3
<1> QED BY <1>4 DEF Kept, Copied

\* A call that puts no more into a buffer than it was asked for.
LEMMA PutStep ==
  ASSUME IInv, pc = "user", NEW ptr \in Int, UserBase <= ptr, ptr <= UserEnd,
         NEW bytes, NEW size \in Int, Len(bytes) \in Nat, Len(bytes) <= size,
         NEW r, Put(ptr, size, bytes, r)
  PROVE  Served /\ Kept(mem')
<1>1. Kept(mem) /\ DOMAIN exec = DOMAIN NoExec
  BY DEF IInv
<1>2. CASE Hindered(ptr, Len(bytes), size)
  BY <1>1, <1>2, HinderedServes
<1>3. CASE /\ Unhindered(ptr, Len(bytes)) /\ mem' = Copied(mem, ptr, bytes)
           /\ UNCHANGED <<pc, exec, stack>>
  BY <1>1, <1>3, UnhinderedKept DEF Served, SoundBuffersReturn, Elsewhere, Gone, stack
<1> QED BY <1>2, <1>3 DEF Put

\* A call that returns without a change.
LEMMA RefuseStep ==
  ASSUME IInv, pc = "user", UNCHANGED <<mem, pc, exec, stack>>
  PROVE  Served /\ Kept(mem')
BY DEF IInv, Served, SoundBuffersReturn, Elsewhere, Gone, stack

LEMMA ReadFileStep ==
  ASSUME IInv, NEW fd, NEW buf \in Buffer, NEW len \in Length,
         sys_read_file(fd, buf, len)
  PROVE  Served /\ Good(fd_table') /\ Kept(mem')
<1>1. Good(fd_table) /\ pc = "user"
  BY DEF IInv, sys_read_file
<1>2. buf \in Word /\ len \in Word /\ len \in Nat /\ buf \in Int
  BY ExecAssumption DEF Word
<1>3. CASE UNCHANGED <<fd_table, mem, pc, exec, stack>>
  BY <1>1, <1>3, RefuseStep
<1>4. CASE /\ Valid(buf, len) /\ IsOpen(fd_table, fd)
           /\ Put(buf, len, DataOf(fd_table, fd, len), Len(DataOf(fd_table, fd, len)))
           /\ fd_table' = Advanced(fd_table, fd, Len(DataOf(fd_table, fd, len)))
  <2> DEFINE bytes == DataOf(fd_table, fd, len)
  <2>1. /\ Len(bytes) \in Nat /\ Len(bytes) <= len
        /\ Good(Advanced(fd_table, fd, Len(bytes)))
    BY <1>1, <1>2, <1>4, MovedGood
  <2>2. buf >= UserBase /\ buf + len <= UserEnd
    BY <1>2, <1>4, AcceptedRange
  <2>3. UserBase <= buf /\ buf <= UserEnd /\ len \in Int
    BY <1>2, <2>2, ExecAssumption DEF UserEnd
  <2> HIDE DEF bytes
  <2>4. Put(buf, len, bytes, Len(bytes))
    BY <1>4 DEF bytes
  <2>5. Served /\ Kept(mem')
    BY <1>1, <1>2, <2>1, <2>3, <2>4, PutStep
  <2> QED BY <1>4, <2>1, <2>5 DEF bytes
<1> QED BY <1>3, <1>4 DEF sys_read_file

\* What Request accepts lies in user space, in either of its two forms.
LEMMA RequestRange ==
  ASSUME NEW r \in Registers, NEW std \in {0, 1}, Request(r, std).fd = 0
  PROVE  LET q == Request(r, std) IN
         /\ q.buf \in Int /\ q.len \in Nat
         /\ q.buf >= UserBase /\ q.buf + q.len <= UserEnd
<1>1. /\ r[1] \in Word /\ r[2] \in Word /\ r[3] \in Word
      /\ Word \subseteq Nat /\ Word \subseteq Int
  BY ExecAssumption DEF Word
<1>2. CASE Valid(r[1], r[2])
  <2>1. Request(r, std) = [fd |-> std, buf |-> r[1], len |-> r[2]]
    BY <1>2 DEF Request
  <2>2. r[1] >= UserBase /\ r[1] + r[2] <= UserEnd
    BY <1>1, <1>2, AcceptedRange
  <2>3. Request(r, std).buf = r[1] /\ Request(r, std).len = r[2]
    BY <2>1
  <2>4. r[1] \in Int /\ r[2] \in Nat
    BY <1>1
  <2> QED BY <2>2, <2>3, <2>4
<1>3. CASE ~ Valid(r[1], r[2]) /\ Valid(r[2], r[3])
  <2>1. Request(r, std) = [fd |-> r[1], buf |-> r[2], len |-> r[3]]
    BY <1>3 DEF Request
  <2>2. r[2] >= UserBase /\ r[2] + r[3] <= UserEnd
    BY <1>1, <1>3, AcceptedRange
  <2>3. Request(r, std).buf = r[2] /\ Request(r, std).len = r[3]
    BY <2>1
  <2>4. r[2] \in Int /\ r[3] \in Nat
    BY <1>1
  <2> QED BY <2>2, <2>3, <2>4
<1>4. CASE ~ Valid(r[1], r[2]) /\ ~ Valid(r[2], r[3])
  BY <1>4 DEF Request, E_PTR
<1> QED BY <1>2, <1>3, <1>4

\* The two ABIs of sys_write and sys_read cannot be mistaken for one another: a
\* small number, such as a descriptor or the length of a short line, is never
\* taken for a pointer.
THEOREM AbisApart ==
  ASSUME NEW small \in Word, small < UserBase,
         NEW buf \in Word, NEW len \in Word, NEW std \in {0, 1}, NEW r3
  PROVE  /\ Valid(buf, len) =>
              Request(<<small, buf, len>>, std) = [fd |-> small, buf |-> buf, len |-> len]
         /\ ~ Valid(buf, small) => Request(<<buf, small, r3>>, std).fd = E_PTR
<1>1. \A x : ~ Valid(small, x)
  BY ExecAssumption DEF Valid, Word
<1> QED BY <1>1 DEF Request

LEMMA EntriesLength ==
  ASSUME NEW max \in Nat, NEW n \in Nat, n <= max
  PROVE  /\ Len(Entries(n)) \in Nat /\ max * EntrySize \in Nat
         /\ Len(Entries(n)) <= max * EntrySize
<1>1. EntrySize \in Nat /\ n * EntrySize \in Nat /\ max * EntrySize \in Nat
  BY ExecAssumption
<1>2. n * EntrySize <= max * EntrySize
  <2>1. PICK k \in Nat : max = n + k
    <3>1. max - n \in Nat /\ max = n + (max - n)
      OBVIOUS
    <3> QED BY <3>1
  <2>2. max * EntrySize = n * EntrySize + k * EntrySize /\ k * EntrySize \in Nat
    BY <1>1, <2>1
  <2> QED BY <1>1, <2>2
<1>3. Len(Entries(n)) = n * EntrySize
  BY <1>1 DEF Entries
<1> QED BY <1>1, <1>2, <1>3

\* Even when the size that was checked has wrapped.
LEMMA FillStep ==
  ASSUME IInv, NEW buf \in Buffer, NEW max \in Count, NEW n \in Nat, n <= max,
         FillOrRefuse(buf, max, n)
  PROVE  Served /\ UNCHANGED fd_table /\ Kept(mem')
<1>1. /\ max \in Nat /\ Words \in Nat \ {0} /\ buf \in Word /\ buf \in Int
      /\ max * EntrySize \in Nat
  BY ExecAssumption DEF Word
<1>2. pc = "user" /\ UNCHANGED fd_table
  BY DEF FillOrRefuse
<1>3. CASE Valid(buf, (max * EntrySize) % Words)
  <2> DEFINE product == max * EntrySize
             checked == product % Words
  <2>1. checked \in 0 .. Words - 1
    <3>1. product \in Nat
      BY <1>1
    <3> HIDE DEF product
    <3> QED BY <1>1, <3>1
  <2>2. Valid(buf, checked) /\ checked \in Word
    BY <1>3, <2>1 DEF Word
  <2> HIDE DEF checked
  <2>3. buf >= UserBase /\ buf + checked <= UserEnd
    BY <1>1, <2>2, AcceptedRange
  <2>4. UserBase <= buf /\ buf <= UserEnd
    BY <1>1, <2>1, <2>3, ExecAssumption DEF UserEnd
  <2>5. Put(buf, product, Entries(n), n)
    BY <1>3 DEF FillOrRefuse
  <2>6. Len(Entries(n)) \in Nat /\ Len(Entries(n)) <= product /\ product \in Int
    BY <1>1, EntriesLength
  <2> HIDE DEF product
  <2> QED BY <1>1, <1>2, <2>4, <2>5, <2>6, PutStep
<1>4. CASE ~ Valid(buf, (max * EntrySize) % Words)
  BY <1>2, <1>4, RefuseStep DEF FillOrRefuse
<1> QED BY <1>2, <1>3, <1>4

\* Calls that write a buffer of the caller, or nothing.
BufferCall ==
  \/ Unassigned \/ \E r \in Registers : sys_write(r) \/ sys_read(r)
  \/ \E buf \in Buffer, max \in Count : sys_get_tasks(buf, max)
  \/ \E buf \in Buffer : sys_get_meminfo(buf)
  \/ \E p \in Pointer, buf \in Buffer, max \in Count : sys_listdir(p, buf, max)

\* The steps of user mode: its own, and the calls that end in one step.
UserCode ==
  \/ Start \/ Call \/ Return \/ sys_exit \/ ExecReturn
  \/ \E a \in StoredAt, v \in Stored : Store(a, v)
  \/ \E p \in Pointer, flags \in 0 .. 1 : sys_open(p, flags)
  \/ \E fd \in Number, buf \in Buffer, len \in Length : sys_read_file(fd, buf, len)
  \/ \E fd \in Number : sys_close(fd)
  \/ BufferCall

LEMMA BufferStep ==
  ASSUME IInv, BufferCall
  PROVE  Served /\ UNCHANGED fd_table /\ Kept(mem')
<1>1. ASSUME Unassigned \/ \E r \in Registers : sys_write(r)
      PROVE  Served /\ UNCHANGED fd_table /\ Kept(mem')
  <2>1. pc = "user" /\ UNCHANGED <<fd_table, mem, pc, exec, stack>>
    BY <1>1 DEF Unassigned, sys_write
  <2> QED BY <2>1, RefuseStep
<1>2. ASSUME NEW r \in Registers, sys_read(r)
      PROVE  Served /\ UNCHANGED fd_table /\ Kept(mem')
  <2> DEFINE q == Request(r, 0)
  <2>1. pc = "user" /\ UNCHANGED fd_table
    BY <1>2 DEF sys_read
  <2>2. CASE UNCHANGED <<mem, pc, exec, stack>>
    BY <2>1, <2>2, RefuseStep
  <2>3. ASSUME q.fd = 0, q.len > 0, NEW c \in Typed, Put(q.buf, q.len, <<c>>, 1)
        PROVE  Served /\ Kept(mem')
    <3>1. /\ q.buf \in Int /\ q.len \in Nat
          /\ q.buf >= UserBase /\ q.buf + q.len <= UserEnd
      BY <2>3, RequestRange
    <3> HIDE DEF q
    <3>2. UserBase <= q.buf /\ q.buf <= UserEnd /\ 1 <= q.len /\ q.len \in Int
      BY <2>3, <3>1, ExecAssumption DEF UserEnd
    <3> DEFINE bytes == <<c>>
    <3>3. Len(bytes) = 1
      OBVIOUS
    <3>4. Put(q.buf, q.len, bytes, 1)
      BY <2>3
    <3> HIDE DEF bytes
    <3>5. Len(bytes) \in Nat /\ Len(bytes) <= q.len
      BY <3>2, <3>3
    <3> QED BY <2>1, <3>1, <3>2, <3>4, <3>5, PutStep
  <2> QED BY <1>2, <2>1, <2>2, <2>3 DEF sys_read
<1>3. ASSUME NEW buf \in Buffer, NEW max \in Count, sys_get_tasks(buf, max)
      PROVE  Served /\ UNCHANGED fd_table /\ Kept(mem')
  <2>1. Listed(max, TaskCount) \in Nat /\ Listed(max, TaskCount) <= max
    BY ExecAssumption DEF Listed, Word
  <2> QED BY <1>3, <2>1, FillStep DEF sys_get_tasks
<1>4. ASSUME NEW buf \in Buffer, sys_get_meminfo(buf)
      PROVE  Served /\ UNCHANGED fd_table /\ Kept(mem')
  <2>1. pc = "user" /\ UNCHANGED fd_table
    BY <1>4 DEF sys_get_meminfo
  <2>2. CASE Valid(buf, EntrySize)
    <3>1. /\ 1 \in Nat /\ 1 * EntrySize = EntrySize /\ EntrySize \in Nat /\ EntrySize \in Word
          /\ buf \in Word /\ buf \in Int
      BY ExecAssumption DEF Word
    <3>2. buf >= UserBase /\ buf + EntrySize <= UserEnd
      BY <2>2, <3>1, AcceptedRange
    <3>3. UserBase <= buf /\ buf <= UserEnd /\ EntrySize \in Int
      BY <3>1, <3>2, ExecAssumption DEF UserEnd
    <3>4. Len(Entries(1)) \in Nat /\ Len(Entries(1)) <= EntrySize
      BY <3>1, EntriesLength
    <3>5. Put(buf, EntrySize, Entries(1), E_OK)
      BY <1>4, <2>2 DEF sys_get_meminfo
    <3> QED BY <2>1, <3>1, <3>3, <3>4, <3>5, PutStep
  <2>3. CASE ~ Valid(buf, EntrySize)
    BY <1>4, <2>1, <2>3, RefuseStep DEF sys_get_meminfo
  <2> QED BY <2>2, <2>3
<1>5. ASSUME NEW p \in Pointer, NEW buf \in Buffer, NEW max \in Count, sys_listdir(p, buf, max)
      PROVE  Served /\ UNCHANGED fd_table /\ Kept(mem')
  <2> DEFINE n == EntryCount(SignedCount(max))
  <2>1. n \in Nat /\ n <= max
    <3>1. SignedCount(max) \in Int /\ SignedCount(max) <= max /\ max \in Nat
      BY ExecAssumption DEF SignedCount, Word
    <3> QED BY <3>1, FilesAssumption DEF EntryCount
  <2> HIDE DEF n
  <2>2. CASE FillOrRefuse(buf, max, n)
    BY <2>1, <2>2, FillStep
  <2>3. CASE ~ FillOrRefuse(buf, max, n)
    <3>1. pc = "user" /\ UNCHANGED <<fd_table, mem, pc, exec, stack>>
      BY <1>5, <2>3 DEF sys_listdir, n
    <3> QED BY <3>1, RefuseStep
  <2> QED BY <2>2, <2>3
<1> QED BY <1>1, <1>2, <1>3, <1>4, <1>5 DEF BufferCall

LEMMA UserStep ==
  ASSUME IInv, UserCode
  PROVE  IInv' /\ pc' \in Elsewhere
<1>1. /\ Good(fd_table) /\ Kept(mem) /\ StackInv /\ DOMAIN exec = DOMAIN NoExec
      /\ base \in Nat /\ sp \in Nat /\ MaxDepth \in Nat
  BY ExecAssumption DEF IInv, StackInv
<1>2. ASSUME pc' \in {"entry", "user"}
      PROVE  SoundBuffersReturn' /\ pc' \in Elsewhere
  BY <1>2 DEF SoundBuffersReturn, Elsewhere
<1>3. ASSUME Served, Good(fd_table'), Kept(mem')
      PROVE  IInv' /\ pc' \in Elsewhere
  <2>1. StackInv'
    BY <1>1, <1>3 DEF Served, StackInv
  <2> QED BY <1>3, <2>1, ElsewhereInv DEF Served
<1>4. CASE Start \/ Call \/ Return
  <2>1. pc' \in {"entry", "user"} /\ UNCHANGED <<fd_table, mem, exec>>
    BY <1>4 DEF Start, Call, Return
  <2>2. StackInv'
    BY <1>1, <1>4 DEF StackInv, Start, Call, Return
  <2> QED BY <1>1, <1>2, <2>1, <2>2, ElsewhereInv
<1>5. CASE sys_exit
  <2>1. /\ pc' = "entry" /\ UNCHANGED <<fd_table, exec, base, sp>>
        /\ mem' = Copied(mem, UserBase, Payload)
    BY <1>5 DEF sys_exit, stack
  <2> QED BY <1>1, <1>2, <2>1, PayloadKept, ElsewhereInv DEF StackInv
<1>6. CASE ExecReturn
  <2>1. pc' \in {"entry", "user"} /\ exec' = NoExec /\ UNCHANGED <<fd_table, mem, base, sp>>
    BY <1>6 DEF ExecReturn, stack
  <2> QED BY <1>1, <1>2, <2>1, ElsewhereInv DEF StackInv
<1>7. ASSUME NEW a \in StoredAt, NEW v \in Stored, Store(a, v)
      PROVE  IInv' /\ pc' \in Elsewhere
  <2>1. pc' = "user" /\ mem' = [mem EXCEPT ![a] = v] /\ UNCHANGED <<fd_table, exec, base, sp>>
    BY <1>7 DEF Store, stack
  <2>2. Kept(mem')
    BY <1>1, <2>1, ExecAssumption DEF Kept
  <2> QED BY <1>1, <1>2, <2>1, <2>2, ElsewhereInv DEF StackInv
<1>8. ASSUME NEW p \in Pointer, NEW flags \in 0 .. 1, sys_open(p, flags)
      PROVE  IInv' /\ pc' \in Elsewhere
  <2>1. pc' = "user" /\ UNCHANGED <<mem, exec, base, sp>>
    BY <1>8 DEF sys_open, stack
  <2>2. Good(fd_table')
    BY <1>1, <1>8, OpenStep DEF sys_open
  <2> QED BY <1>1, <1>2, <2>1, <2>2, ElsewhereInv DEF StackInv
<1>9. ASSUME NEW fd, sys_close(fd)
      PROVE  IInv' /\ pc' \in Elsewhere
  <2>1. pc' = "user" /\ UNCHANGED <<mem, exec, base, sp>>
    BY <1>9 DEF sys_close, stack
  <2>2. Good(fd_table')
    BY <1>1, <1>9, ClosedGood DEF sys_close
  <2> QED BY <1>1, <1>2, <2>1, <2>2, ElsewhereInv DEF StackInv
<1>10. ASSUME NEW fd, NEW buf \in Buffer, NEW len \in Length, sys_read_file(fd, buf, len)
       PROVE  IInv' /\ pc' \in Elsewhere
  BY <1>3, <1>10, ReadFileStep
<1>11. CASE BufferCall
  BY <1>1, <1>3, <1>11, BufferStep
<1> QED BY <1>4, <1>5, <1>6, <1>7, <1>8, <1>9, <1>10, <1>11 DEF UserCode

-----------------------------------------------------------------------------
(* sys_exec                                                                *)

\* The cell a read of length one delivers.
LEMMA OneCell ==
  ASSUME NEW t, Good(t), NEW fd, IsOpen(t, fd), Exact(t, fd, 1)
  PROVE  LET f == t[fd].file_index
             o == t[fd].offset
         IN  /\ f \in Files /\ o \in Nat /\ o + 1 <= Size(f)
             /\ DataOf(t, fd, 1)[1] = Content[f][o + 1]
             /\ Content[f] # <<>>
<1> DEFINE f == t[fd].file_index
           o == t[fd].offset
<1>1. f \in Files /\ o \in Nat /\ Size(f) \in Nat
  BY SlotFacts, SizeFacts DEF Good
<1>2. 1 \in 0 .. Size(f) - o /\ DataOf(t, fd, 1) = SubSeq(Content[f], o + 1, o + 1)
  <2>1. Len(DataOf(t, fd, 1)) = 1
    BY DEF Exact
  <2>2. LET n == Len(DataOf(t, fd, 1)) IN
        n \in 0 .. Size(f) - o /\ DataOf(t, fd, 1) = SubSeq(Content[f], o + 1, o + n)
    BY DataFacts DEF Good
  <2> QED BY <2>1, <2>2
<1>3. Content[f] \in Seq(Byte) /\ Len(Content[f]) = Size(f)
  BY <1>1, FilesAssumption DEF Size
<1> HIDE DEF f, o
<1>4. SubSeq(Content[f], o + 1, o + 1)[1] = Content[f][o + 1]
  <2> DEFINE c == Content[f]
  <2>1. c \in Seq(Byte) /\ o + 1 \in 1 .. Len(c)
    BY <1>1, <1>2, <1>3
  <2> HIDE DEF c
  <2>2. SubSeq(c, o + 1, o + 1)[1] = c[o + 1]
    BY <2>1
  <2> QED BY <2>2 DEF c
<1>5. Content[f] # <<>>
  BY <1>1, <1>2, <1>3
<1> QED BY <1>1, <1>2, <1>4, <1>5 DEF f, o

\* A borrowed descriptor that moves is still the only one borrowed.
LEMMA MovedBorrowed ==
  ASSUME NEW t0, NEW t, NEW H, NEW h \in H, Good(t), IsOpen(t, h),
         Borrowed(t0, t, H), NEW len \in Nat
  PROVE  Borrowed(t0, Moved(t, h, len), H)
<1>1. \A x \in Fd \ {h} : Moved(t, h, len)[x] = t[x]
  BY MovedGood
<1> QED BY <1>1 DEF Borrowed

\* vfs_open takes a descriptor that was free at the call.
LEMMA OpenBorrowed ==
  ASSUME NEW t0, NEW t, NEW H, Good(t), Borrowed(t0, t, H), \A x \in H : t[x].in_use,
         NEW path, NEW flags, OpenResult(t, path, flags) >= 0
  PROVE  LET fd == OpenResult(t, path, flags)
             u == AfterOpen(t, path, flags)
         IN  /\ fd \in Fd /\ fd \notin H
             /\ Good(u) /\ IsOpen(u, fd) /\ u[fd].offset = 0
             /\ \A x \in Fd \ {fd} : u[x] = t[x]
             /\ Borrowed(t0, u, H \cup {fd})
<1> DEFINE fd == OpenResult(t, path, flags)
           f == ramfs_lookup(path.name)
           u == AfterOpen(t, path, flags)
<1>1. /\ fd \in Handle /\ ~ t[fd].in_use /\ f \in Files /\ u = Opened(t, fd, f)
  BY OpenFacts
<1>2. fd \in Fd
  BY <1>1, HandlesAreFds
<1> HIDE DEF fd, f, u
<1>3. Good(u) /\ IsOpen(u, fd) /\ u[fd].offset = 0
  BY <1>1, OpenedGood
<1>4. \A x \in Fd \ {fd} : u[x] = t[x]
  BY <1>1, <1>2 DEF Opened, Good, Sound
<1>5. fd \notin H
  BY <1>1
<1>6. ~ t0[fd].in_use
  BY <1>1, <1>2, <1>5 DEF Borrowed
<1>7. Borrowed(t0, u, H \cup {fd})
  BY <1>2, <1>4, <1>6 DEF Borrowed
<1> QED BY <1>2, <1>3, <1>4, <1>5, <1>7 DEF fd, u

LEMMA DoneInv ==
  ASSUME pc' = "done", Good(fd_table'), Kept(mem'), StackInv',
         DOMAIN exec' = DOMAIN NoExec, fd_table' = exec'.fds
  PROVE  IInv'
BY DEF IInv, WorkInv, ProgramInv, DescriptorsBalance, SoundBuffersReturn, Working

\* Giving up, or ending, with one descriptor borrowed gives it back.
LEMMA FinishStep ==
  ASSUME IInv, pc \in Working, NEW t, Good(t), Borrowed(exec.fds, t, {exec.fd}),
         Kept(mem'), NEW r, Finish(Release(t), r)
  PROVE  IInv'
<1>1. fd_table' = Closed(t, exec.fd) /\ pc' = "done" /\ exec' = exec /\ base' = base /\ sp' = sp
  BY DEF Finish, Release, stack
<1>2. Good(Closed(t, exec.fd))
  BY ClosedGood
<1>3. Borrowed(exec.fds, Closed(t, exec.fd), {exec.fd} \ {exec.fd})
  BY GiveBack
<1>4. Closed(t, exec.fd) = exec.fds
  BY <1>2, <1>3, AllBack
<1>5. StackInv' /\ DOMAIN exec' = DOMAIN NoExec
  BY <1>1 DEF IInv, StackInv
<1> QED BY <1>1, <1>2, <1>4, <1>5, DoneInv

LEMMA ExecOpenStep ==
  ASSUME IInv, NEW p \in Pointer, ExecOpen(p)
  PROVE  IInv'
<1> DEFINE path == PathAt(p)
           fd == OpenResult(fd_table, path, O_RDONLY)
           locals == [NoExec EXCEPT !.path = p, !.fd = fd,
                        !.called = mem[p], !.before = mem, !.fds = fd_table]
<1>1. Good(fd_table) /\ Kept(mem) /\ StackInv /\ DOMAIN exec = DOMAIN NoExec
  BY DEF IInv
<1>2. mem' = mem /\ base' = base /\ sp' = sp /\ pc = "user"
  BY DEF ExecOpen, stack
<1>3. Kept(mem') /\ StackInv'
  BY <1>1, <1>2 DEF StackInv
<1>4. locals.fds = fd_table /\ locals.fd = fd /\ locals.i = 0 /\ DOMAIN locals = DOMAIN NoExec
  BY Fields DEF NoExec
<1>5. CASE ~ Valid(p, MaxPath) /\ UNCHANGED <<fd_table, pc, exec>>
  BY <1>1, <1>2, <1>3, <1>5, ElsewhereInv DEF Elsewhere, SoundBuffersReturn
<1>6. CASE /\ exec' = locals /\ fd_table' = AfterOpen(fd_table, path, O_RDONLY)
           /\ fd < 0 /\ pc' = "done"
  <2>1. ~ (fd >= 0)
    <3>1. fd >= 0 => fd \in Handle
      BY OpenFacts
    <3>2. Handle \subseteq Nat
      BY FilesAssumption DEF Handle, FirstFd
    <3> HIDE DEF fd
    <3> QED BY <1>6, <3>1, <3>2
  <2>2. AfterOpen(fd_table, path, O_RDONLY) = fd_table
    BY <2>1, OpenFailsFacts
  <2> HIDE DEF locals
  <2> QED BY <1>1, <1>3, <1>4, <1>6, <2>2, DoneInv
<1>7. CASE /\ exec' = locals /\ fd_table' = AfterOpen(fd_table, path, O_RDONLY)
           /\ ~ (fd < 0) /\ pc' = "header"
  <2>1. fd >= 0
    <3>1. fd \in Int
      <4>1. CASE fd >= 0
        <5>1. fd \in Handle
          BY <4>1, OpenFacts
        <5> HIDE DEF fd
        <5> QED BY <5>1, FilesAssumption DEF Handle, FirstFd
      <4>2. CASE ~ (fd >= 0)
        <5>1. fd = E_NOENT \/ fd = E_MFILE
          BY <4>2, OpenFailsFacts
        <5> QED BY <5>1 DEF E_NOENT, E_MFILE
      <4> QED BY <4>1, <4>2
    <3> HIDE DEF fd
    <3> QED BY <1>7, <3>1
  <2> DEFINE u == AfterOpen(fd_table, path, O_RDONLY)
  <2>2. Borrowed(fd_table, fd_table, {})
    BY <1>1 DEF Borrowed
  <2>3. /\ Good(u) /\ IsOpen(u, fd) /\ u[fd].offset = 0
        /\ Borrowed(fd_table, u, {} \cup {fd})
    <3>1. \A x \in {} : fd_table[x].in_use
      OBVIOUS
    <3> HIDE DEF path
    <3> QED BY <1>1, <2>1, <2>2, <3>1, OpenBorrowed
  <2>4. fd_table' = u /\ exec'.fd = fd /\ exec'.fds = fd_table /\ exec'.i = 0
        /\ DOMAIN exec' = DOMAIN NoExec
    BY <1>4, <1>7
  <2> HIDE DEF u, fd, path, locals
  <2>5. WorkInv'
    BY <2>3, <2>4 DEF WorkInv
  <2>6. ProgramInv'
    BY <1>7, <2>3, <2>4 DEF ProgramInv, ReadTo
  <2> QED BY <1>3, <1>7, <2>3, <2>4, <2>5, <2>6
        DEF IInv, DescriptorsBalance, SoundBuffersReturn, Working
<1> QED BY <1>5, <1>6, <1>7 DEF ExecOpen


\* A step that goes on: sys_exec still holds exec.fd, further on in the file.
LEMMA GoOn ==
  ASSUME IInv, pc \in Working, NEW len \in Nat
  PROVE  LET t == Moved(fd_table, exec.fd, len) IN
         /\ Good(t) /\ IsOpen(t, exec.fd) /\ Borrowed(exec.fds, t, {exec.fd})
         /\ t[exec.fd].file_index = fd_table[exec.fd].file_index
         /\ Exact(fd_table, exec.fd, len) => t[exec.fd].offset = fd_table[exec.fd].offset + len
<1>1. Good(fd_table) /\ IsOpen(fd_table, exec.fd) /\ Borrowed(exec.fds, fd_table, {exec.fd})
  BY DEF IInv, WorkInv
<1>2. Borrowed(exec.fds, Moved(fd_table, exec.fd, len), {exec.fd})
  BY <1>1, MovedBorrowed
<1> QED BY <1>1, <1>2, MovedGood DEF Exact

LEMMA ExecHeaderStep ==
  ASSUME IInv, ExecHeader
  PROVE  IInv'
<1> DEFINE cell == DataOf(fd_table, exec.fd, 1)[1]
           t == Moved(fd_table, exec.fd, 1)
           f == fd_table[exec.fd].file_index
<1>1. /\ Good(fd_table) /\ Kept(mem) /\ StackInv /\ DOMAIN exec = DOMAIN NoExec
      /\ IsOpen(fd_table, exec.fd)
      /\ pc = "header" /\ mem' = mem /\ pc \in Working
      /\ fd_table[exec.fd].offset = 0 /\ exec.i = 0
  BY DEF IInv, WorkInv, ProgramInv, ReadTo, ExecHeader, Working
<1>2. /\ Good(t) /\ IsOpen(t, exec.fd) /\ Borrowed(exec.fds, t, {exec.fd})
      /\ t[exec.fd].file_index = f
      /\ Exact(fd_table, exec.fd, 1) => t[exec.fd].offset = 0 + 1
  BY <1>1, GoOn
<1>3. ASSUME NEW r, Finish(Release(t), r)
      PROVE  IInv'
  BY <1>1, <1>2, <1>3, FinishStep
<1>4. CASE /\ Exact(fd_table, exec.fd, 1) /\ HeaderError(cell) = E_OK
           /\ fd_table' = t /\ exec' = [exec EXCEPT !.header = cell] /\ pc' = "phdr"
           /\ UNCHANGED <<result, stack>>
  <2>1. f \in Files /\ cell = Content[f][0 + 1] /\ Content[f] # <<>>
    BY <1>1, <1>4, OneCell
  <2>2. cell \in Ehdr
    BY <1>4 DEF HeaderError, E_OK, E_ARG
  <2>3. /\ exec'.header = cell /\ exec'.fd = exec.fd /\ exec'.fds = exec.fds
        /\ exec'.i = exec.i /\ DOMAIN exec' = DOMAIN NoExec
    <3> HIDE DEF cell
    <3> QED BY <1>1, <1>4, Fields
  <2>4. cell.phnum \in Nat
    BY <2>2 DEF Ehdr
  <2>5. 0 <= cell.phnum /\ 0 \in Nat
    BY <2>4
  <2>6. base' = base /\ sp' = sp
    BY <1>4 DEF stack
  <2> HIDE DEF cell, t, f
  <2>7. WorkInv'
    BY <1>2, <1>4, <2>3 DEF WorkInv
  <2>8. HasHeader(f) /\ cell = Content[f][1]
    BY <2>1, <2>2 DEF HasHeader
  <2>9. ProgramInv'
    BY <1>1, <1>2, <1>4, <2>3, <2>5, <2>8 DEF ProgramInv, ReadTo
  <2> QED BY <1>1, <1>2, <1>4, <2>3, <2>6, <2>7, <2>9
        DEF IInv, Working, StackInv, DescriptorsBalance, SoundBuffersReturn
<1> QED BY <1>3, <1>4 DEF ExecHeader

LEMMA ExecPhdrStep ==
  ASSUME IInv, ExecPhdr
  PROVE  IInv'
<1> DEFINE ph == DataOf(fd_table, exec.fd, 1)[1]
           t == Moved(fd_table, exec.fd, 1)
           f == fd_table[exec.fd].file_index
           i == exec.i
<1>1. /\ Good(fd_table) /\ Kept(mem) /\ StackInv /\ DOMAIN exec = DOMAIN NoExec
      /\ IsOpen(fd_table, exec.fd)
      /\ pc = "phdr" /\ mem' = mem /\ pc \in Working
      /\ fd_table[exec.fd].offset = i + 1
      /\ HasHeader(f) /\ exec.header = Content[f][1]
      /\ i \in Nat /\ i < exec.header.phnum
  BY DEF IInv, WorkInv, ProgramInv, ReadTo, ExecPhdr, Working
<1>2. /\ Good(t) /\ IsOpen(t, exec.fd) /\ Borrowed(exec.fds, t, {exec.fd})
      /\ t[exec.fd].file_index = f
      /\ Exact(fd_table, exec.fd, 1) => t[exec.fd].offset = i + 1 + 1
  BY <1>1, GoOn
<1>3. ASSUME NEW r, Finish(Release(t), r)
      PROVE  IInv'
  BY <1>1, <1>2, <1>3, FinishStep
<1>4. CASE /\ Exact(fd_table, exec.fd, 1)
           /\ ph.load => ~ (ph.filesz > ph.memsz) /\ Valid(ph.vaddr, ph.memsz)
           /\ fd_table' = t
           /\ exec' = [exec EXCEPT !.i = IF ph.load THEN i ELSE i + 1, !.phdr = ph]
           /\ pc' = IF ph.load THEN "segment" ELSE "phdr"
           /\ UNCHANGED stack
  <2>1. /\ exec'.header = exec.header /\ exec'.fd = exec.fd /\ exec'.fds = exec.fds
        /\ exec'.i = (IF ph.load THEN i ELSE i + 1)
        /\ exec'.phdr = ph /\ DOMAIN exec' = DOMAIN NoExec
    <3> HIDE DEF ph
    <3> QED BY <1>1, <1>4, Fields
  <2>2. f \in Files /\ ph = Content[f][i + 1 + 1] /\ i + 1 + 1 <= Size(f)
    BY <1>1, <1>4, OneCell
  <2>3. Content[f][1].phnum \in Nat
    BY <1>1 DEF HasHeader, Ehdr
  <2> HIDE DEF ph, t, f, i
  <2>4. i + 1 \in 1 .. Content[f][1].phnum /\ i + 1 <= Content[f][1].phnum
    BY <1>1, <2>3
  <2>5. ph \in Phdr
    BY <1>1, <2>2, <2>4, ExecAssumption
  <2>6. ph.filesz \in Int /\ ph.memsz \in Int
    BY <2>5, ExecAssumption DEF Phdr, Word
  <2>7. ph.load => ph.filesz <= ph.memsz /\ Valid(ph.vaddr, ph.memsz)
    BY <1>4, <2>6
  <2>8. i + 1 + 1 = i + 2 /\ i + 1 \in Nat /\ i <= exec.header.phnum
    BY <1>1, <2>3
  <2>9. base' = base /\ sp' = sp
    BY <1>4 DEF stack
  <2>10. WorkInv'
    BY <1>2, <1>4, <2>1 DEF WorkInv
  <2>11. CASE ph.load
    <3>1. ProgramInv'
      BY <1>1, <1>2, <1>4, <2>1, <2>5, <2>7, <2>8, <2>11 DEF ProgramInv, ReadTo, i
    <3> QED BY <1>1, <1>2, <1>4, <2>1, <2>9, <2>10, <2>11, <3>1
          DEF IInv, Working, StackInv, DescriptorsBalance, SoundBuffersReturn
  <2>12. CASE ~ ph.load
    <3>1. ProgramInv'
      BY <1>1, <1>2, <1>4, <2>1, <2>4, <2>8, <2>12 DEF ProgramInv, ReadTo
    <3> QED BY <1>1, <1>2, <1>4, <2>1, <2>9, <2>10, <2>12, <3>1
          DEF IInv, Working, StackInv, DescriptorsBalance, SoundBuffersReturn
  <2> QED BY <2>11, <2>12
<1> QED BY <1>3, <1>4 DEF ExecPhdr

LEMMA ExecDoneStep ==
  ASSUME IInv, ExecDone
  PROVE  IInv'
<1>1. /\ Good(fd_table) /\ Kept(mem) /\ pc \in Working /\ mem' = mem
      /\ Borrowed(exec.fds, fd_table, {exec.fd})
      /\ Finish(Release(fd_table), E_OK)
  BY DEF IInv, WorkInv, ExecDone, Working
<1> QED BY <1>1, FinishStep


\* Closing the descriptor borrowed for a segment leaves the first one as it was.
LEMMA SegmentBack ==
  ASSUME NEW t0, NEW t, NEW h, NEW seg, seg # h, Good(t), Borrowed(t0, t, {h, seg})
  PROVE  /\ Good(SegClosed(t, seg))
         /\ Borrowed(t0, SegClosed(t, seg), {h})
         /\ \A x \in Fd \ {seg} : SegClosed(t, seg)[x] = t[x]
<1>1. Good(Closed(t, seg))
  BY ClosedGood
<1>2. Borrowed(t0, Closed(t, seg), {h, seg} \ {seg})
  BY GiveBack
<1>3. {h, seg} \ {seg} = {h}
  OBVIOUS
<1>4. \A x \in Fd \ {seg} : Closed(t, seg)[x] = t[x]
  BY DEF Closed, Good, Sound
<1> QED BY <1>1, <1>2, <1>3, <1>4 DEF SegClosed

\* What a checked program header may write lies in user space.
LEMMA SegmentMemory ==
  ASSUME NEW ph \in Phdr, ph.filesz <= ph.memsz, Valid(ph.vaddr, ph.memsz),
         NEW m, Kept(m), NEW bytes, Len(bytes) \in Nat, Len(bytes) <= ph.filesz
  PROVE  /\ Kept(Copied(m, ph.vaddr, bytes))
         /\ Kept(Bss(Copied(m, ph.vaddr, bytes), ph))
<1>1. /\ ph.vaddr \in Word /\ ph.memsz \in Word
      /\ ph.vaddr \in Int /\ ph.memsz \in Int /\ ph.filesz \in Nat
  BY ExecAssumption DEF Phdr, Word
<1>2. ph.vaddr .. ph.vaddr + ph.memsz - 1 \subseteq User
  BY <1>1, AcceptedRange
<1>3. Len(bytes) <= ph.memsz
  BY <1>1
<1>4. Kept(Copied(m, ph.vaddr, bytes))
  BY <1>1, <1>2, <1>3, CopiedKept
<1> DEFINE c == Copied(m, ph.vaddr, bytes)
           from == ph.vaddr + ph.filesz
           to == ph.vaddr + ph.memsz
<1>5. Kept(Cleared(c, from, to))
  <2>1. Kept(c)
    BY <1>4
  <2>2. /\ from \in Int /\ to \in Int
        /\ \A x \in Int : from <= x /\ x <= to - 1 => x \in ph.vaddr .. ph.vaddr + ph.memsz - 1
    BY <1>1
  <2> HIDE DEF c, from, to
  <2>3. from .. to - 1 \subseteq User
    BY <1>2, <2>2
  <2> QED BY <2>1, <2>3, ClearedKept
<1> QED BY <1>4, <1>5 DEF Bss

\* A segment that covers the kernel stack: no more is written than the header's
\* check has covered.
LEMMA SegmentHindered ==
  ASSUME IInv, pc \in Working, NEW ph \in Phdr, NEW n \in Nat, n <= ph.memsz,
         Hindered(ph.vaddr, n, ph.memsz), UNCHANGED fd_table
  PROVE  IInv' /\ pc' \in Gone
<1>1. ph.vaddr \in Int /\ ph.memsz \in Int
  BY ExecAssumption DEF Phdr, Word
<1>2. Served /\ pc' \in Gone /\ UNCHANGED mem
  BY <1>1, HinderedServes
<1> QED BY <1>2, ElsewhereInv DEF IInv, Served, StackInv

LEMMA ExecSegmentStep ==
  ASSUME IInv, ExecSegment
  PROVE  IInv'
<1> DEFINE ph == exec.phdr
           h == exec.fd
           path == PathAt(exec.path)
           seg == OpenResult(fd_table, path, O_RDONLY)
           opened == AfterOpen(fd_table, path, O_RDONLY)
           there == Moved(opened, seg, ph.offset)
           bytes == DataOf(there, seg, ph.filesz)
           copied == Copied(mem, ph.vaddr, bytes)
           written == IF Exact(there, seg, ph.filesz) THEN ph.memsz ELSE Len(bytes)
           read == Moved(there, seg, ph.filesz)
           f == fd_table[h].file_index
<1>1. /\ Good(fd_table) /\ Kept(mem) /\ StackInv /\ DOMAIN exec = DOMAIN NoExec
      /\ IsOpen(fd_table, h) /\ h \in Fd /\ fd_table[h].in_use
      /\ Borrowed(exec.fds, fd_table, {h})
      /\ pc = "segment" /\ pc \in Working
      /\ fd_table[h].offset = exec.i + 2
      /\ HasHeader(f) /\ exec.header = Content[f][1]
      /\ exec.i \in Nat /\ exec.i < exec.header.phnum
      /\ ph \in Phdr /\ ph.filesz <= ph.memsz /\ Valid(ph.vaddr, ph.memsz)
  BY DEF IInv, WorkInv, ProgramInv, ReadTo, ExecSegment, Working, IsOpen
<1>2. CASE seg < 0 /\ Finish(Release(fd_table), seg) /\ UNCHANGED mem
  BY <1>1, <1>2, FinishStep
<1>3. CASE seg >= 0
  <2>1. ph.offset \in Nat /\ ph.filesz \in Nat /\ ph.memsz \in Nat
    BY <1>1, ExecAssumption DEF Phdr, Word
  <2>2. /\ seg \in Fd /\ seg # h
        /\ Good(opened) /\ IsOpen(opened, seg)
        /\ \A x \in Fd \ {seg} : opened[x] = fd_table[x]
        /\ Borrowed(exec.fds, opened, {h, seg})
    <3>1. LET fd == OpenResult(fd_table, path, O_RDONLY)
              u == AfterOpen(fd_table, path, O_RDONLY)
          IN  /\ fd \in Fd /\ fd \notin {h}
              /\ Good(u) /\ IsOpen(u, fd) /\ u[fd].offset = 0
              /\ \A x \in Fd \ {fd} : u[x] = fd_table[x]
              /\ Borrowed(exec.fds, u, {h} \cup {fd})
      <4>1. \A x \in {h} : fd_table[x].in_use
        BY <1>1
      <4> HIDE DEF path, h
      <4> QED BY <1>1, <1>3, <4>1, OpenBorrowed
    <3> HIDE DEF h, path
    <3>2. {h, seg} = {h} \cup {seg}
      OBVIOUS
    <3> QED BY <3>1, <3>2
  <2> HIDE DEF ph, h, path, seg, opened, there, bytes, copied, written, read, f
  <2>3. /\ Good(there) /\ IsOpen(there, seg)
        /\ \A x \in Fd \ {seg} : there[x] = opened[x]
    BY <2>1, <2>2, MovedGood DEF there
  <2>4. Borrowed(exec.fds, there, {h, seg})
    BY <2>1, <2>2, MovedBorrowed DEF there
  <2>5. /\ Good(read) /\ Len(bytes) \in Nat /\ Len(bytes) <= ph.filesz
        /\ \A x \in Fd \ {seg} : read[x] = there[x]
    BY <2>1, <2>3, MovedGood DEF read, bytes
  <2>6. Borrowed(exec.fds, read, {h, seg})
    BY <2>1, <2>3, <2>4, MovedBorrowed DEF read
  <2>7. Good(SegClosed(there, seg)) /\ Borrowed(exec.fds, SegClosed(there, seg), {h})
    BY <2>2, <2>3, <2>4, SegmentBack
  <2>8. /\ Good(SegClosed(read, seg)) /\ Borrowed(exec.fds, SegClosed(read, seg), {h})
        /\ SegClosed(read, seg)[h] = fd_table[h]
    <3>1. Good(read) /\ seg # h
      BY <2>2, <2>5
    <3>2. \A x \in Fd \ {seg} : SegClosed(read, seg)[x] = read[x]
      BY <3>1 DEF SegClosed, Closed, Good, Sound
    <3>3. Good(SegClosed(read, seg)) /\ Borrowed(exec.fds, SegClosed(read, seg), {h})
      BY <2>6, <3>1, SegmentBack
    <3> QED BY <1>1, <2>2, <2>3, <2>5, <3>2, <3>3
  <2>9. Kept(copied) /\ Kept(Bss(copied, ph))
    BY <1>1, <2>5, SegmentMemory DEF copied
  <2>10. CASE Finish(Release(SegClosed(there, seg)), E_FAIL) /\ UNCHANGED mem
    BY <1>1, <2>7, <2>10, FinishStep DEF h
  <2>11. CASE Finish(Release(SegClosed(read, seg)), E_FAIL) /\ mem' = copied
    BY <1>1, <2>8, <2>9, <2>11, FinishStep DEF h
  <2>12. CASE /\ fd_table' = SegClosed(read, seg) /\ mem' = Bss(copied, ph)
              /\ exec' = [exec EXCEPT !.i = @ + 1] /\ pc' = "phdr" /\ UNCHANGED stack
    <3>1. /\ exec'.header = exec.header /\ exec'.fd = h /\ exec'.fds = exec.fds
          /\ exec'.i = exec.i + 1 /\ DOMAIN exec' = DOMAIN NoExec
      BY <1>1, <2>12, Fields DEF h
    <3>2. Content[f][1].phnum \in Nat
      BY <1>1 DEF HasHeader, Ehdr
    <3>3. /\ exec.i + 1 \in Nat /\ exec.i + 1 <= exec.header.phnum
          /\ exec.i + 2 = (exec.i + 1) + 1
      BY <1>1, <3>2
    <3>4. fd_table'[h].in_use /\ IsOpen(fd_table', h)
      BY <1>1, <2>8, <2>12 DEF IsOpen
    <3>5. WorkInv'
      BY <2>8, <2>12, <3>1, <3>4 DEF WorkInv
    <3>6. ProgramInv'
      BY <1>1, <2>8, <2>12, <3>1, <3>3 DEF ProgramInv, ReadTo, f
    <3>7. base' = base /\ sp' = sp
      BY <2>12 DEF stack
    <3> QED BY <1>1, <2>8, <2>9, <2>12, <3>1, <3>5, <3>6, <3>7
          DEF IInv, Working, StackInv, DescriptorsBalance, SoundBuffersReturn
  <2>13. CASE Hindered(ph.vaddr, written, ph.memsz) /\ UNCHANGED fd_table
    <3>1. written \in Nat /\ written <= ph.memsz
      BY <1>1, <2>1, <2>5 DEF written
    <3> QED BY <1>1, <2>13, <3>1, SegmentHindered
  <2>14. \/ Finish(Release(SegClosed(there, seg)), E_FAIL) /\ UNCHANGED mem
         \/ Finish(Release(SegClosed(read, seg)), E_FAIL) /\ mem' = copied
         \/ /\ fd_table' = SegClosed(read, seg) /\ mem' = Bss(copied, ph)
            /\ exec' = [exec EXCEPT !.i = @ + 1] /\ pc' = "phdr" /\ UNCHANGED stack
         \/ Hindered(ph.vaddr, written, ph.memsz) /\ UNCHANGED fd_table
    <3>1. ~ (seg < 0)
      <4>1. seg \in Int
        BY <2>2, FilesAssumption DEF Fd
      <4> QED BY <1>3, <4>1
    <3> QED BY <3>1 DEF ExecSegment, ph, h, path, seg, opened, there, bytes, copied, written,
                          read
  <2> QED BY <2>10, <2>11, <2>12, <2>13, <2>14
<1>4. \/ seg < 0 /\ Finish(Release(fd_table), seg) /\ UNCHANGED mem
      \/ seg >= 0
  BY DEF ExecSegment
<1> QED BY <1>2, <1>3, <1>4

-----------------------------------------------------------------------------
(* No failure for want of a descriptor after the first cell is copied      *)

\* The descriptors that are free beside the one sys_exec holds.  They stay the
\* same while it works, so once a segment was opened the next can be opened too.
Spare == FreeFds(exec.fds) \ {exec.fd}

HarmlessInv ==
  /\ pc \in Working => mem = exec.before \/ Spare # {}
  /\ TooManyFilesIsHarmless

LEMMA HarmlessElsewhere ==
  ASSUME pc' \in Elsewhere
  PROVE  HarmlessInv'
BY DEF HarmlessInv, TooManyFilesIsHarmless, Working, Elsewhere, Gone

\* While sys_exec works the table has room exactly where Spare says.
LEMMA SpareFds ==
  ASSUME IInv, pc \in Working
  PROVE  FreeFds(fd_table) = Spare
<1>1. /\ Borrowed(exec.fds, fd_table, {exec.fd}) /\ IsOpen(fd_table, exec.fd)
      /\ Handle \subseteq Fd
  BY HandlesAreFds DEF IInv, WorkInv
<1>2. \A x \in Handle : x # exec.fd => fd_table[x] = exec.fds[x]
  BY <1>1 DEF Borrowed
<1>3. \A x \in Handle : x = exec.fd => fd_table[x].in_use
  BY <1>1 DEF IsOpen
<1> QED BY <1>2, <1>3 DEF FreeFds, Spare

\* Giving up for another reason, or with the memory of the call.
LEMMA HarmlessFinish ==
  ASSUME NEW t, NEW r, Finish(t, r), r # E_MFILE \/ mem' = exec.before
  PROVE  HarmlessInv'
BY DEF HarmlessInv, TooManyFilesIsHarmless, Finish, Working

LEMMA HarmlessGoesOn ==
  ASSUME pc' \in Working, exec'.fds = exec.fds, exec'.fd = exec.fd,
         exec'.before = exec.before, mem' = exec.before \/ Spare # {}
  PROVE  HarmlessInv'
BY DEF HarmlessInv, TooManyFilesIsHarmless, Working, Spare

LEMMA HarmlessSegment ==
  ASSUME IInv, HarmlessInv, ExecSegment
  PROVE  HarmlessInv'
<1> DEFINE path == PathAt(exec.path)
           seg == OpenResult(fd_table, path, O_RDONLY)
<1>1. /\ pc \in Working /\ DOMAIN exec = DOMAIN NoExec
      /\ mem = exec.before \/ Spare # {}
      /\ FreeFds(fd_table) = Spare
  BY SpareFds DEF IInv, HarmlessInv, ExecSegment, Working
<1>2. CASE seg < 0 /\ Finish(Release(fd_table), seg) /\ UNCHANGED mem
  <2>1. CASE seg = E_MFILE
    <3>1. ~ (seg >= 0)
      BY <2>1 DEF E_MFILE
    <3>2. FreeFds(fd_table) = {}
      BY <2>1, <3>1, OpenFailsFacts DEF E_MFILE, E_NOENT, E_ARG
    <3> QED BY <1>1, <1>2, <3>2, HarmlessFinish
  <2>2. CASE seg # E_MFILE
    BY <1>2, <2>2, HarmlessFinish
  <2> QED BY <2>1, <2>2
<1>3. CASE seg >= 0
  <2>1. Spare # {}
    <3>1. seg \in Handle /\ ~ fd_table[seg].in_use
      BY <1>3, OpenFacts
    <3> HIDE DEF seg
    <3> QED BY <1>1, <3>1 DEF FreeFds
  <2>2. ASSUME NEW t, Finish(t, E_FAIL)
        PROVE  HarmlessInv'
    BY <2>2, HarmlessFinish DEF E_FAIL, E_MFILE
  <2>3. CASE exec' = [exec EXCEPT !.i = @ + 1] /\ pc' = "phdr"
    <3>1. exec'.fds = exec.fds /\ exec'.fd = exec.fd /\ exec'.before = exec.before
      BY <1>1, <2>3, Fields
    <3> QED BY <2>1, <2>3, <3>1, HarmlessGoesOn DEF Working
  <2>4. seg \in Int
    <3>1. seg \in Handle
      BY <1>3, OpenFacts
    <3> HIDE DEF seg
    <3> QED BY <3>1, FilesAssumption DEF Handle, FirstFd
  <2>5. ~ (seg < 0)
    <3> HIDE DEF seg
    <3> QED BY <1>3, <2>4
  <2>6. ASSUME NEW ptr, NEW n, NEW size, Hindered(ptr, n, size)
        PROVE  HarmlessInv'
    BY <2>6, HarmlessElsewhere DEF Hindered, Elsewhere, Gone
  <2> QED BY <2>2, <2>3, <2>5, <2>6 DEF ExecSegment
<1> QED BY <1>2, <1>3 DEF ExecSegment

LEMMA HarmlessRead ==
  ASSUME IInv, HarmlessInv, ExecHeader \/ ExecPhdr \/ ExecDone
  PROVE  HarmlessInv'
<1>1. /\ pc \in Working /\ DOMAIN exec = DOMAIN NoExec /\ mem' = mem
      /\ mem = exec.before \/ Spare # {}
  BY DEF IInv, HarmlessInv, ExecHeader, ExecPhdr, ExecDone, Working
<1>2. ASSUME NEW t, NEW r \in {E_OK, E_FAIL, E_ARG, E_PTR}, Finish(t, r)
      PROVE  HarmlessInv'
  BY <1>2, HarmlessFinish DEF E_OK, E_FAIL, E_ARG, E_PTR, E_MFILE
<1>3. \A cell : HeaderError(cell) \in {E_OK, E_ARG, E_PTR}
  BY DEF HeaderError
<1>4. CASE ExecHeader
  <2> DEFINE cell == DataOf(fd_table, exec.fd, 1)[1]
             t == Moved(fd_table, exec.fd, 1)
  <2>1. CASE exec' = [exec EXCEPT !.header = cell] /\ pc' = "phdr"
    <3>1. exec'.fds = exec.fds /\ exec'.fd = exec.fd /\ exec'.before = exec.before
      <4> HIDE DEF cell
      <4> QED BY <1>1, <2>1, Fields
    <3> QED BY <1>1, <2>1, <3>1, HarmlessGoesOn DEF Working
  <2>2. \/ Finish(Release(t), E_FAIL) \/ Finish(Release(t), HeaderError(cell))
        \/ exec' = [exec EXCEPT !.header = cell] /\ pc' = "phdr"
    BY <1>4 DEF ExecHeader
  <2> HIDE DEF cell, t
  <2> QED BY <1>2, <1>3, <2>1, <2>2
<1>5. CASE ExecPhdr
  <2> DEFINE ph == DataOf(fd_table, exec.fd, 1)[1]
             t == Moved(fd_table, exec.fd, 1)
             next == IF ph.load THEN exec.i ELSE exec.i + 1
  <2>1. CASE exec' = [exec EXCEPT !.i = next, !.phdr = ph] /\ pc' \in Working
    <3>1. exec'.fds = exec.fds /\ exec'.fd = exec.fd /\ exec'.before = exec.before
      <4> HIDE DEF ph, next
      <4> QED BY <1>1, <2>1, Fields
    <3> QED BY <1>1, <2>1, <3>1, HarmlessGoesOn
  <2>2. \/ Finish(Release(t), E_FAIL) \/ Finish(Release(t), E_ARG) \/ Finish(Release(t), E_PTR)
        \/ exec' = [exec EXCEPT !.i = next, !.phdr = ph] /\ pc' \in Working
    BY <1>5 DEF ExecPhdr, Working
  <2> HIDE DEF ph, t, next
  <2> QED BY <1>2, <2>1, <2>2
<1>6. CASE ExecDone
  BY <1>2, <1>6 DEF ExecDone
<1> QED BY <1>4, <1>5, <1>6

LEMMA HarmlessOpen ==
  ASSUME IInv, NEW p \in Pointer, ExecOpen(p)
  PROVE  HarmlessInv'
<1> DEFINE fd == OpenResult(fd_table, PathAt(p), O_RDONLY)
           locals == [NoExec EXCEPT !.path = p, !.fd = fd,
                        !.called = mem[p], !.before = mem, !.fds = fd_table]
<1>1. locals.before = mem
  BY DEF NoExec
<1>2. mem' = mem /\ pc = "user"
  BY DEF ExecOpen
<1>3. CASE pc' = pc
  BY <1>2, <1>3, HarmlessElsewhere DEF Elsewhere
<1>4. CASE exec' = locals /\ pc' \in {"header", "done"}
  BY <1>1, <1>2, <1>4 DEF HarmlessInv, TooManyFilesIsHarmless, Working
<1>5. \/ pc' = pc
      \/ exec' = locals /\ pc' \in {"header", "done"}
  BY DEF ExecOpen
<1> QED BY <1>3, <1>4, <1>5

LEMMA HarmlessStep == IInv /\ HarmlessInv /\ [Next]_vars => HarmlessInv'
<1> SUFFICES ASSUME IInv, HarmlessInv, [Next]_vars
             PROVE  HarmlessInv'
  OBVIOUS
<1>1. CASE UNCHANGED vars
  BY <1>1 DEF vars, HarmlessInv, TooManyFilesIsHarmless, Working, Spare
<1>2. CASE \E p \in Pointer : ExecOpen(p)
  BY <1>2, HarmlessOpen
<1>3. CASE ExecHeader \/ ExecPhdr \/ ExecSegment \/ ExecDone
  BY <1>3, HarmlessRead, HarmlessSegment
<1>4. CASE UserCode
  BY <1>4, UserStep, HarmlessElsewhere
<1> QED BY <1>1, <1>2, <1>3, <1>4 DEF Next, svc_handler, sys_exec, UserCode, BufferCall

-----------------------------------------------------------------------------
(* The image in memory                                                     *)

\* The file named at the call.
Called == ramfs_lookup(Spelled(exec.called).name)

\* No segment behind the i-th covers a.
Final(f, i, a) == \A k \in Loads(f) : k > i => a \notin Extent(Program(f)[k])

\* What the file f and its program header ph put at a.
Placed(f, ph, a) ==
  IF a < ph.vaddr + ph.filesz THEN Content[f][ph.offset + (a - ph.vaddr) + 1] ELSE Zero

\* The segments up to the n-th are in memory.
Loaded(m, f, n) ==
  \A i \in Loads(f) : i <= n =>
    /\ Extent(Program(f)[i]) \subseteq Word
    /\ \A a \in Extent(Program(f)[i]) : Final(f, i, a) => m[a] = Placed(f, Program(f)[i], a)

\* There is a segment behind the n-th.
Waiting(f, n) == \E k \in Loads(f) : k > n

\* sys_exec reads the program headers from the file named at the call; as long
\* as the path survives it reads the segments from there too, because the path
\* is in memory until the last segment is.
ImageInv ==
  /\ pc \in Working =>
       /\ exec.path \in Word
       /\ fd_table[exec.fd].file_index = Called
  /\ pc = "header" => mem[exec.path] = exec.called
  /\ pc = "segment" => exec.phdr = Content[Called][exec.i + 2] /\ exec.phdr.load
  /\ pc \in {"phdr", "segment"} /\ PathSurvives(Called) =>
       /\ Loaded(mem, Called, exec.i)
       /\ Waiting(Called, exec.i) => mem[exec.path] = exec.called
  /\ ImageLoaded

LEMMA ImageElsewhere ==
  ASSUME pc' \in Elsewhere
  PROVE  ImageInv'
BY DEF ImageInv, ImageLoaded, Working, Elsewhere, Gone

LEMMA ImageGivesUp ==
  ASSUME NEW t, NEW r, Finish(t, r), r # E_OK
  PROVE  ImageInv'
BY DEF ImageInv, ImageLoaded, Working, Finish

\* n is m with the extent of ph filled, and nothing else changed.
Filled(m, n, ph, bytes) ==
  /\ Extent(ph) \subseteq Word
  /\ \A a \in Extent(ph) :
       n[a] = IF a < ph.vaddr + ph.filesz THEN bytes[a - ph.vaddr + 1] ELSE Zero
  /\ \A a \in Word \ Extent(ph) : n[a] = m[a]

\* A segment that has been read fills its extent.
LEMMA SegmentCells ==
  ASSUME NEW ph \in Phdr, ph.filesz <= ph.memsz, Valid(ph.vaddr, ph.memsz),
         NEW m, NEW bytes, Len(bytes) = ph.filesz
  PROVE  Filled(m, Bss(Copied(m, ph.vaddr, bytes), ph), ph, bytes)
<1> DEFINE v == ph.vaddr
           s == ph.filesz
           z == ph.memsz
           c == Copied(m, v, bytes)
           n == Bss(c, ph)
<1>1. /\ v \in Word /\ z \in Word /\ v \in Int /\ z \in Nat /\ s \in Nat /\ s <= z
      /\ Word \subseteq Int
  BY ExecAssumption DEF Phdr, Word
<1>2. Extent(ph) = v .. v + z - 1 /\ Extent(ph) \subseteq Word
  BY <1>1, AcceptedRange, UserIsWord DEF Extent
<1>3. \A a \in Word : n[a] = IF a \in v + s .. (v + z) - 1 THEN Zero ELSE c[a]
  <2>1. n = Cleared(c, v + s, v + z)
    BY DEF Bss
  <2> HIDE DEF v, s, z, c, n
  <2> TAKE a \in Word
  <2>2. Cleared(c, v + s, v + z)[a] = IF a \in v + s .. (v + z) - 1 THEN Zero ELSE c[a]
    BY DEF Cleared
  <2> QED BY <2>1, <2>2
<1>4. \A a \in Word : c[a] = IF a \in v .. v + s - 1 THEN bytes[a - v + 1] ELSE m[a]
  BY DEF Copied
<1> HIDE DEF v, s, z, c, n
<1>5. ASSUME NEW a \in Extent(ph)
      PROVE  n[a] = IF a < v + s THEN bytes[a - v + 1] ELSE Zero
  BY <1>1, <1>2, <1>3, <1>4
<1>6. ASSUME NEW a \in Word \ Extent(ph)
      PROVE  n[a] = m[a]
  BY <1>1, <1>2, <1>3, <1>4
<1> QED BY <1>2, <1>5, <1>6 DEF v, s, z, c, n, Filled

\* The cells that an exact read delivers.
LEMMA ExactBytes ==
  ASSUME NEW t, Good(t), NEW fd, IsOpen(t, fd), NEW len \in Nat, Exact(t, fd, len)
  PROVE  /\ Len(DataOf(t, fd, len)) = len
         /\ \A k \in 1 .. len :
              DataOf(t, fd, len)[k] = Content[t[fd].file_index][t[fd].offset + k]
<1> DEFINE f == t[fd].file_index
           o == t[fd].offset
           s == Content[f]
<1>1. f \in Files /\ o \in Nat /\ Size(f) \in Nat /\ s \in Seq(Byte) /\ Len(s) = Size(f)
  BY SlotFacts, SizeFacts, FilesAssumption DEF Good, Size
<1>2. len \in 0 .. Size(f) - o /\ DataOf(t, fd, len) = SubSeq(s, o + 1, o + len)
  <2>1. Len(DataOf(t, fd, len)) = len
    BY DEF Exact
  <2>2. /\ Len(DataOf(t, fd, len)) \in 0 .. Size(f) - o
        /\ DataOf(t, fd, len) = SubSeq(s, o + 1, o + Len(DataOf(t, fd, len)))
    BY DataFacts DEF Good
  <2> HIDE DEF f, o, s
  <2> QED BY <2>1, <2>2
<1> HIDE DEF f, o, s
<1>3. \A k \in 1 .. len : SubSeq(s, o + 1, o + len)[k] = s[o + k]
  <2>1. o + 1 \in 1 .. Len(s) + 1 /\ o + len \in o .. Len(s)
    BY <1>1, <1>2
  <2>2. \A i \in o + 1 .. o + len : s[i] \in Byte
    BY <1>1, <2>1, ElementOfSeq
  <2>3. PICK x, y : x = o + 1 /\ y = o + len /\ x \in Int /\ y \in Int
    BY <1>1
  <2>4. \A i \in x .. y : s[i] \in Byte
    BY <2>2, <2>3
  <2>5. \A k \in 1 .. y - x + 1 : SubSeq(s, x, y)[k] = s[x + k - 1]
    BY <2>3, <2>4, SubSeqProperties
  <2>6. y - x + 1 = len
    BY <1>1, <2>3
  <2> TAKE k \in 1 .. len
  <2>7. SubSeq(s, x, y)[k] = s[x + k - 1]
    BY <2>5, <2>6
  <2>8. x + k - 1 = o + k
    BY <1>1, <2>3
  <2> QED BY <2>3, <2>7, <2>8
<1> QED BY <1>2, <1>3 DEF Exact, f, o, s

\* A descriptor that vfs_open returns stands at the start of the file named.
LEMMA OpenedFile ==
  ASSUME NEW t, Good(t), NEW path, OpenResult(t, path, O_RDONLY) >= 0
  PROVE  LET fd == OpenResult(t, path, O_RDONLY)
             u == AfterOpen(t, path, O_RDONLY)
         IN  /\ Good(u) /\ IsOpen(u, fd)
             /\ u[fd].file_index = ramfs_lookup(path.name) /\ u[fd].offset = 0
<1>1. /\ OpenResult(t, path, O_RDONLY) \in Handle /\ ramfs_lookup(path.name) \in Files
      /\ AfterOpen(t, path, O_RDONLY)
           = Opened(t, OpenResult(t, path, O_RDONLY), ramfs_lookup(path.name))
  BY OpenFacts
<1> QED BY <1>1, OpenedGood

\* A negative result is no descriptor, and the other way round.
LEMMA OpenSign ==
  ASSUME NEW t, NEW path
  PROVE  LET fd == OpenResult(t, path, O_RDONLY) IN
         ~ (fd < 0) <=> fd >= 0
<1> DEFINE fd == OpenResult(t, path, O_RDONLY)
<1> SUFFICES ~ (fd < 0) <=> fd >= 0
  OBVIOUS
<1>1. CASE fd >= 0
  <2>1. fd \in Handle
    BY <1>1, OpenFacts
  <2> HIDE DEF fd
  <2> QED BY <1>1, <2>1, FilesAssumption DEF Handle, FirstFd
<1>2. CASE ~ (fd >= 0)
  <2>1. fd = E_NOENT \/ fd = E_MFILE
    BY <1>2, OpenFailsFacts
  <2> QED BY <2>1 DEF E_NOENT, E_MFILE
<1> QED BY <1>1, <1>2

LEMMA ImageOpen ==
  ASSUME IInv, NEW p \in Pointer, ExecOpen(p)
  PROVE  ImageInv'
<1> DEFINE path == PathAt(p)
           fd == OpenResult(fd_table, path, O_RDONLY)
           locals == [NoExec EXCEPT !.path = p, !.fd = fd,
                        !.called = mem[p], !.before = mem, !.fds = fd_table]
           u == AfterOpen(fd_table, path, O_RDONLY)
<1>1. locals.path = p /\ locals.fd = fd /\ locals.called = mem[p]
  BY DEF NoExec
<1>2. mem' = mem /\ pc = "user" /\ Good(fd_table) /\ p \in Word
  BY ExecAssumption DEF ExecOpen, IInv
<1>3. CASE pc' = pc
  BY <1>2, <1>3, ImageElsewhere DEF Elsewhere
<1>4. CASE fd < 0 /\ pc' = "done" /\ result' = fd
  <2>1. fd # E_OK
    <3> HIDE DEF fd
    <3> QED BY <1>4 DEF E_OK
  <2> QED BY <1>4, <2>1 DEF ImageInv, ImageLoaded, Working
<1>5. CASE ~ (fd < 0) /\ pc' = "header" /\ exec' = locals /\ fd_table' = u
  <2>1. u[fd].file_index = ramfs_lookup(path.name)
    BY <1>2, <1>5, OpenSign, OpenedFile
  <2>2. path = Spelled(mem[p])
    BY DEF PathAt
  <2> HIDE DEF fd, u, path, locals
  <2>3. Called' = ramfs_lookup(path.name)
    BY <1>1, <1>5, <2>2 DEF Called
  <2> QED BY <1>1, <1>2, <1>5, <2>1, <2>3 DEF ImageInv, ImageLoaded, Working
<1> QED BY <1>3, <1>4, <1>5 DEF ExecOpen

\* While sys_exec goes on, the file of its first descriptor and the path at
\* the call stay the same.
LEMMA ImageGoesOn ==
  ASSUME IInv, ImageInv, pc \in Working, pc' \in {"phdr", "segment"},
         exec'.path = exec.path, exec'.called = exec.called,
         fd_table'[exec'.fd].file_index = fd_table[exec.fd].file_index,
         pc' = "segment" => exec'.phdr = Content[Called][exec'.i + 2] /\ exec'.phdr.load,
         PathSurvives(Called) =>
           /\ Loaded(mem', Called, exec'.i)
           /\ Waiting(Called, exec'.i) => mem'[exec.path] = exec.called
  PROVE  ImageInv'
<1>1. Called' = Called
  BY DEF Called
<1>2. PathSurvives(Called)' <=> PathSurvives(Called)
  BY <1>1 DEF PathSurvives
<1>3. Loaded(mem, Called, exec.i)' <=> Loaded(mem', Called, exec'.i)
  BY <1>1 DEF Loaded, Final, Placed
<1>4. Waiting(Called, exec.i)' <=> Waiting(Called, exec'.i)
  BY <1>1 DEF Waiting
<1> QED BY <1>1, <1>2, <1>3, <1>4 DEF ImageInv, ImageLoaded, Working

LEMMA ImageHeader ==
  ASSUME IInv, ImageInv, ExecHeader
  PROVE  ImageInv'
<1> DEFINE cell == DataOf(fd_table, exec.fd, 1)[1]
           t == Moved(fd_table, exec.fd, 1)
<1>1. /\ pc = "header" /\ pc \in Working /\ mem' = mem /\ DOMAIN exec = DOMAIN NoExec
      /\ exec.i = 0 /\ mem[exec.path] = exec.called
      /\ t[exec.fd].file_index = fd_table[exec.fd].file_index
  BY GoOn DEF ExecHeader, Working, IInv, ProgramInv, ImageInv
<1>2. CASE exec' = [exec EXCEPT !.header = cell] /\ pc' = "phdr" /\ fd_table' = t
  <2>1. /\ exec'.path = exec.path /\ exec'.called = exec.called
        /\ exec'.fd = exec.fd /\ exec'.i = 0
    <3> HIDE DEF cell
    <3> QED BY <1>1, <1>2, Fields
  <2>2. Loaded(mem', Called, 0)
    BY DEF Loaded, Loads, Program
  <2> HIDE DEF cell, t
  <2> QED BY <1>1, <1>2, <2>1, <2>2, ImageGoesOn
<1>3. \/ Finish(Release(t), E_FAIL)
      \/ HeaderError(cell) # E_OK /\ Finish(Release(t), HeaderError(cell))
      \/ exec' = [exec EXCEPT !.header = cell] /\ pc' = "phdr" /\ fd_table' = t
  BY DEF ExecHeader
<1> HIDE DEF cell, t
<1> QED BY <1>2, <1>3, ImageGivesUp DEF E_FAIL, E_OK

LEMMA ImagePhdr ==
  ASSUME IInv, ImageInv, ExecPhdr
  PROVE  ImageInv'
<1> DEFINE ph == DataOf(fd_table, exec.fd, 1)[1]
           t == Moved(fd_table, exec.fd, 1)
           f == Called
           i == exec.i
<1>1. /\ pc = "phdr" /\ pc \in Working /\ mem' = mem /\ DOMAIN exec = DOMAIN NoExec
      /\ Good(fd_table) /\ IsOpen(fd_table, exec.fd) /\ fd_table[exec.fd].offset = i + 1
      /\ fd_table[exec.fd].file_index = f
      /\ HasHeader(f) /\ i \in Nat /\ i < Content[f][1].phnum
      /\ PathSurvives(f) =>
           Loaded(mem, f, i) /\ (Waiting(f, i) => mem[exec.path] = exec.called)
      /\ t[exec.fd].file_index = fd_table[exec.fd].file_index
  BY GoOn DEF ExecPhdr, Working, IInv, WorkInv, ProgramInv, ReadTo, ImageInv
<1>2. CASE /\ Exact(fd_table, exec.fd, 1) /\ fd_table' = t
           /\ exec' = [exec EXCEPT !.i = IF ph.load THEN i ELSE i + 1, !.phdr = ph]
           /\ pc' = IF ph.load THEN "segment" ELSE "phdr"
  <2>1. ph = Content[f][i + 2]
    <3>1. ph = Content[f][i + 1 + 1]
      BY <1>1, <1>2, OneCell
    <3> HIDE DEF ph, f
    <3> QED BY <1>1, <3>1
  <2>2. /\ exec'.path = exec.path /\ exec'.called = exec.called /\ exec'.fd = exec.fd
        /\ exec'.i = (IF ph.load THEN i ELSE i + 1) /\ exec'.phdr = ph
    <3> HIDE DEF ph
    <3> QED BY <1>1, <1>2, Fields
  <2> HIDE DEF ph, t, f, i
  <2>3. CASE ph.load
    BY <1>1, <1>2, <2>1, <2>2, <2>3, ImageGoesOn DEF f, i
  <2>4. CASE ~ ph.load
    <3>1. Content[f][1].phnum \in Nat
      BY <1>1 DEF HasHeader, Ehdr
    <3>2. i + 1 \notin Loads(f)
      BY <1>1, <2>1, <2>4, <3>1 DEF Loads, Program
    <3>3. \A k \in Loads(f) : k \in Int /\ (k <= i + 1 => k <= i) /\ (k > i + 1 => k > i)
      BY <1>1, <3>1, <3>2 DEF Loads, Program
    <3>4. PathSurvives(f) =>
            Loaded(mem, f, i + 1) /\ (Waiting(f, i + 1) => mem[exec.path] = exec.called)
      BY <1>1, <3>3 DEF Loaded, Waiting
    <3> QED BY <1>1, <1>2, <2>2, <2>4, <3>4, ImageGoesOn DEF f
  <2> QED BY <2>3, <2>4
<1>3. \/ Finish(Release(t), E_FAIL) \/ Finish(Release(t), E_ARG) \/ Finish(Release(t), E_PTR)
      \/ /\ Exact(fd_table, exec.fd, 1) /\ fd_table' = t
         /\ exec' = [exec EXCEPT !.i = IF ph.load THEN i ELSE i + 1, !.phdr = ph]
         /\ pc' = IF ph.load THEN "segment" ELSE "phdr"
  BY DEF ExecPhdr
<1> HIDE DEF ph, t, i
<1> QED BY <1>2, <1>3, ImageGivesUp DEF E_FAIL, E_ARG, E_PTR, E_OK

LEMMA ImageDone ==
  ASSUME IInv, ImageInv, ExecDone
  PROVE  ImageInv'
<1>1. /\ pc = "phdr" /\ exec.i = Content[Called][1].phnum /\ HasHeader(Called)
      /\ mem' = mem /\ exec' = exec /\ pc' = "done"
      /\ PathSurvives(Called) => Loaded(mem, Called, exec.i)
  BY DEF ExecDone, Finish, Working, IInv, ProgramInv, ImageInv
<1>2. \A i \in Loads(Called) : i <= exec.i
  BY <1>1 DEF Loads, Program, HasHeader, Ehdr
<1>3. ImageLoaded'
  BY <1>1, <1>2 DEF ImageLoaded, Called, PathSurvives, Loaded, Final, Placed
<1> QED BY <1>1, <1>3 DEF ImageInv, Working

\* A segment in memory leaves those before it, and the path for those behind.
LEMMA ImageGrows ==
  ASSUME NEW f, NEW i \in Nat, HasHeader(f), i < Content[f][1].phnum,
         NEW ph, ph = Content[f][i + 2], ph.load, Extent(ph) \subseteq Word,
         PathSurvives(f), exec.path \in Word, NEW m, NEW n, Loaded(m, f, i),
         \A a \in Extent(ph) : n[a] = Placed(f, ph, a),
         \A a \in Word \ Extent(ph) : n[a] = m[a]
  PROVE  /\ Loaded(n, f, i + 1)
         /\ Waiting(f, i + 1) => n[exec.path] = m[exec.path]
<1>1. Content[f][1].phnum \in Nat
  BY DEF HasHeader, Ehdr
<1>2. i + 1 \in Loads(f) /\ Program(f)[i + 1] = ph
  <2>1. i + 1 \in 1 .. Content[f][1].phnum /\ (i + 1) + 1 = i + 2
    BY <1>1
  <2> QED BY <2>1 DEF Loads, Program
<1>3. \A k \in Loads(f) : k \in Int
  BY <1>1 DEF Loads, Program
<1>6. \A k \in Loads(f) : k <= i + 1 => Extent(Program(f)[k]) \subseteq Word
  <2>1. \A k \in Loads(f) : k <= i + 1 => k <= i \/ k = i + 1
    BY <1>3
  <2> QED BY <1>2, <2>1 DEF Loaded
<1>4. ASSUME NEW k \in Loads(f), k <= i + 1, NEW a \in Extent(Program(f)[k]), Final(f, k, a)
      PROVE  n[a] = Placed(f, Program(f)[k], a)
  <2>1. CASE k = i + 1
    BY <1>2, <1>4, <2>1
  <2>2. CASE k # i + 1
    <3>1. k <= i /\ i + 1 > k
      BY <1>3, <1>4, <2>2
    <3>2. a \notin Extent(ph) /\ a \in Word
      BY <1>2, <1>6, <1>4, <3>1 DEF Final
    <3>3. m[a] = Placed(f, Program(f)[k], a)
      BY <1>4, <3>1 DEF Loaded
    <3> QED BY <3>2, <3>3
  <2> QED BY <2>1, <2>2
<1>5. Waiting(f, i + 1) => exec.path \notin Extent(ph)
  BY <1>2 DEF Waiting, PathSurvives
<1> QED BY <1>6, <1>4, <1>5 DEF Loaded

LEMMA ImageSegment ==
  ASSUME IInv, ImageInv, ExecSegment
  PROVE  ImageInv'
<1> DEFINE ph == exec.phdr
           h == exec.fd
           path == PathAt(exec.path)
           seg == OpenResult(fd_table, path, O_RDONLY)
           opened == AfterOpen(fd_table, path, O_RDONLY)
           there == Moved(opened, seg, ph.offset)
           bytes == DataOf(there, seg, ph.filesz)
           copied == Copied(mem, ph.vaddr, bytes)
           closed == SegClosed(Moved(there, seg, ph.filesz), seg)
           f == Called
           i == exec.i
<1>1. /\ pc = "segment" /\ pc \in Working /\ DOMAIN exec = DOMAIN NoExec
      /\ Good(fd_table) /\ fd_table[h].file_index = f
      /\ HasHeader(f) /\ i \in Nat /\ i < Content[f][1].phnum
      /\ ph \in Phdr /\ ph.filesz <= ph.memsz /\ Valid(ph.vaddr, ph.memsz)
      /\ ph = Content[f][i + 2] /\ ph.load /\ exec.path \in Word
  BY DEF ExecSegment, Working, IInv, ProgramInv, ImageInv
<1>2. PathSurvives(f) => Loaded(mem, f, i) /\ mem[exec.path] = exec.called
  <2>1. i + 1 \in Loads(f) /\ i + 1 > i
    <3>1. i + 1 \in 1 .. Content[f][1].phnum /\ (i + 1) + 1 = i + 2
      BY <1>1 DEF HasHeader, Ehdr
    <3> HIDE DEF f, i, ph
    <3> QED BY <1>1, <3>1 DEF Loads, Program
  <2>2. Waiting(f, i)
    BY <2>1 DEF Waiting
  <2> QED BY <1>1, <2>2 DEF ImageInv
<1>3. CASE /\ seg >= 0 /\ Exact(opened, seg, ph.offset) /\ Exact(there, seg, ph.filesz)
           /\ fd_table' = closed /\ mem' = Bss(copied, ph)
           /\ exec' = [exec EXCEPT !.i = @ + 1] /\ pc' = "phdr"
  <2>1. /\ exec'.path = exec.path /\ exec'.called = exec.called /\ exec'.fd = h
        /\ exec'.i = i + 1
    <3>1. exec' = [exec EXCEPT !.i = @ + 1] /\ DOMAIN exec = DOMAIN NoExec
      BY <1>1, <1>3
    <3> QED BY <3>1, Fields
  <2>2. ph.offset \in Nat /\ ph.filesz \in Nat /\ ph.vaddr \in Int
    BY <1>1, ExecAssumption DEF Phdr, Word
  <2>3. /\ Good(opened) /\ IsOpen(opened, seg) /\ opened[seg].offset = 0
        /\ opened[seg].file_index = ramfs_lookup(path.name)
    BY <1>1, <1>3, OpenedFile
  <2>4. seg \in Fd /\ ~ fd_table[seg].in_use /\ h \in Fd /\ fd_table[h].in_use
    BY <1>1, <1>3, OpenFacts, HandlesAreFds DEF IInv, WorkInv, IsOpen
  <2>5. \A x \in Fd \ {seg} : opened[x] = fd_table[x]
    <3>1. opened = Opened(fd_table, seg, ramfs_lookup(path.name)) /\ fd_table \in [Fd -> FdSlot]
      BY <1>1, <1>3, OpenFacts DEF Good, Sound
    <3> HIDE DEF seg, opened, path
    <3> QED BY <2>4, <3>1 DEF Opened
  <2>6. PathSurvives(f) => ramfs_lookup(path.name) = f
    BY <1>2 DEF PathAt, Called
  <2> HIDE DEF ph, h, path, seg, opened, there, bytes, copied, closed, f, i
  <2>7. /\ Good(there) /\ IsOpen(there, seg) /\ there[seg].offset = ph.offset
        /\ there[seg].file_index = opened[seg].file_index
        /\ \A x \in Fd \ {seg} : there[x] = opened[x]
    BY <1>3, <2>2, <2>3, MovedGood DEF there, Exact
  <2>8. closed[h] = fd_table[h]
    <3> DEFINE read == Moved(there, seg, ph.filesz)
    <3>1. Good(read) /\ \A x \in Fd \ {seg} : read[x] = there[x]
      BY <2>2, <2>7, MovedGood
    <3> HIDE DEF read
    <3>2. \A x \in Fd \ {seg} : Closed(read, seg)[x] = read[x]
      BY <3>1 DEF Closed, Good, Sound
    <3>3. closed = Closed(read, seg)
      BY DEF closed, read, SegClosed
    <3> QED BY <2>4, <2>5, <2>7, <3>1, <3>2, <3>3
  <2>9. /\ Len(bytes) = ph.filesz
        /\ \A k \in 1 .. ph.filesz : bytes[k] = Content[opened[seg].file_index][ph.offset + k]
    BY <1>3, <2>2, <2>7, ExactBytes DEF bytes
  <2>10. /\ Extent(ph) \subseteq Word
         /\ \A a \in Extent(ph) :
              mem'[a] = IF a < ph.vaddr + ph.filesz THEN bytes[a - ph.vaddr + 1] ELSE Zero
         /\ \A a \in Word \ Extent(ph) : mem'[a] = mem[a]
    <3>1. mem' = Bss(Copied(mem, ph.vaddr, bytes), ph)
      BY <1>3 DEF copied
    <3>2. Filled(mem, Bss(Copied(mem, ph.vaddr, bytes), ph), ph, bytes)
      BY <1>1, <2>9, SegmentCells, Zenon
    <3> QED BY <3>1, <3>2, Zenon DEF Filled
  <2>11. ASSUME PathSurvives(f)
         PROVE  \A a \in Extent(ph) : mem'[a] = Placed(f, ph, a)
    <3> TAKE a \in Extent(ph)
    <3>1. a \in Int /\ ph.vaddr <= a
      BY <1>1, <2>2 DEF Extent
    <3>2. CASE a < ph.vaddr + ph.filesz
      <4>1. /\ a - ph.vaddr + 1 \in 1 .. ph.filesz
            /\ ph.offset + (a - ph.vaddr + 1) = ph.offset + (a - ph.vaddr) + 1
        BY <2>2, <3>1, <3>2
      <4>2. bytes[a - ph.vaddr + 1] = Content[f][ph.offset + (a - ph.vaddr + 1)]
        BY <2>3, <2>6, <2>9, <2>11, <4>1
      <4> QED BY <2>10, <3>2, <4>1, <4>2 DEF Placed
    <3>3. CASE ~ (a < ph.vaddr + ph.filesz)
      BY <2>10, <3>3 DEF Placed
    <3> QED BY <3>2, <3>3
  <2>12. PathSurvives(f) =>
           /\ Loaded(mem', f, i + 1)
           /\ Waiting(f, i + 1) => mem'[exec.path] = exec.called
    BY <1>1, <1>2, <2>10, <2>11, ImageGrows
  <2> QED BY <1>1, <1>3, <2>1, <2>8, <2>12, ImageGoesOn DEF f, h, i
<1>4. \/ \E t : Finish(t, E_FAIL)
      \/ seg < 0 /\ \E t : Finish(t, seg)
      \/ /\ seg >= 0 /\ Exact(opened, seg, ph.offset) /\ Exact(there, seg, ph.filesz)
         /\ fd_table' = closed /\ mem' = Bss(copied, ph)
         /\ exec' = [exec EXCEPT !.i = @ + 1] /\ pc' = "phdr"
      \/ pc' \in Gone
  BY DEF ExecSegment, Hindered, Gone
<1> HIDE DEF seg
<1>5. \A t : Finish(t, E_FAIL) => ImageInv'
  BY ImageGivesUp DEF E_FAIL, E_OK
<1>6. seg < 0 => \A t : Finish(t, seg) => ImageInv'
  BY ImageGivesUp DEF E_OK
<1>7. pc' \in Gone => ImageInv'
  BY ImageElsewhere DEF Elsewhere
<1> QED BY <1>3, <1>4, <1>5, <1>6, <1>7

LEMMA ImageStep == IInv /\ ImageInv /\ [Next]_vars => ImageInv'
<1> SUFFICES ASSUME IInv, ImageInv, [Next]_vars
             PROVE  ImageInv'
  OBVIOUS
<1>1. CASE UNCHANGED vars
  <2>1. Called' = Called /\ UNCHANGED <<fd_table, mem, pc, exec, result>>
    BY <1>1 DEF vars, Called
  <2> QED BY <2>1 DEF ImageInv, ImageLoaded, PathSurvives, Loaded, Final, Placed, Waiting
<1>2. CASE \E p \in Pointer : ExecOpen(p)
  BY <1>2, ImageOpen
<1>3. CASE ExecHeader \/ ExecPhdr \/ ExecSegment \/ ExecDone
  BY <1>3, ImageHeader, ImagePhdr, ImageSegment, ImageDone
<1>4. CASE UserCode
  BY <1>4, UserStep, ImageElsewhere
<1> QED BY <1>1, <1>2, <1>3, <1>4 DEF Next, svc_handler, sys_exec, UserCode, BufferCall

-----------------------------------------------------------------------------
(* The theorems                                                            *)

LEMMA StutterInv == IInv /\ UNCHANGED vars => IInv'
BY DEF vars, stack, IInv, StackInv, WorkInv, ProgramInv, ReadTo, DescriptorsBalance,
       SoundBuffersReturn

LEMMA NextInv == IInv /\ [Next]_vars => IInv'
<1> SUFFICES ASSUME IInv, [Next]_vars
             PROVE  IInv'
  OBVIOUS
<1>1. CASE UNCHANGED vars
  BY <1>1, StutterInv
<1>2. CASE \E p \in Pointer : ExecOpen(p)
  BY <1>2, ExecOpenStep
<1>3. CASE ExecHeader \/ ExecPhdr \/ ExecSegment \/ ExecDone
  BY <1>3, ExecHeaderStep, ExecPhdrStep, ExecSegmentStep, ExecDoneStep
<1>4. CASE UserCode
  BY <1>4, UserStep
<1> QED BY <1>1, <1>2, <1>3, <1>4 DEF Next, svc_handler, sys_exec, UserCode, BufferCall

LEMMA Invariant == Spec => []IInv
<1> QED BY InitInv, NextInv, PTL DEF Spec

\* Descriptors stay sound, and sys_exec holds an open one while it works.
THEOREM TypeCorrect == Spec => []TypeOK
BY Invariant, IInvImplies, PTL

\* Whatever pointers, lengths and counts user code passes to its calls, those
\* whose size in cells wraps included, and whatever the program headers of the
\* files say: no cell outside user space is ever written, up to a call that
\* writes over its own kernel stack.  The check of the pointer keeps the start
\* of a buffer in user space; that a listing of a wrapped size goes no further
\* rests on UserEnd \in Unmapped, the section behind user space.
THEOREM KernelTheorem == Spec => []KernelUntouched
BY Invariant, IInvImplies, PTL

\* A call that goes wrong, in the unmapped section or on its own kernel stack,
\* was not given room for what it may write: no call writes more than its
\* caller has asked for.
THEOREM BuffersTheorem == Spec => []SoundBuffersReturn
BY Invariant, IInvImplies, PTL

\* At each of its returns sys_exec leaves the descriptor table of the call.
THEOREM BalanceTheorem == Spec => []DescriptorsBalance
BY Invariant, IInvImplies, PTL

\* When sys_exec finds no free descriptor, the memory of its caller is as it
\* was at the call.
THEOREM HarmlessTheorem == Spec => []TooManyFilesIsHarmless
<1>1. Init => HarmlessInv
  BY DEF Init, HarmlessInv, TooManyFilesIsHarmless, Working
<1>2. HarmlessInv => TooManyFilesIsHarmless
  BY DEF HarmlessInv
<1> QED BY <1>1, <1>2, Invariant, HarmlessStep, PTL DEF Spec

\* A successful sys_exec leaves every byte of the program in its place, although
\* it reads the path again for each segment from memory it is overwriting.
THEOREM ImageTheorem == Spec => []ImageLoaded
<1>1. Init => ImageInv
  BY DEF Init, ImageInv, ImageLoaded, Working
<1>2. ImageInv => ImageLoaded
  BY DEF ImageInv
<1> QED BY <1>1, <1>2, Invariant, ImageStep, PTL DEF Spec

-----------------------------------------------------------------------------
(* sys_exec does not turn for ever                                         *)

\* How far a call is, and what is left of its loop: two steps for a program
\* header, one when the header has been read.
Phase ==
  IF pc = "header" THEN 3
  ELSE IF pc \in {"phdr", "segment"} THEN 2
  ELSE IF pc = "done" THEN 1 ELSE 0   \* in user mode, or gone
Rest == 2 * (exec.header.phnum - exec.i) + (IF pc = "phdr" THEN 1 ELSE 0)

InExec == pc \in Working \cup {"done"}

Nearer ==
  \/ Phase' < Phase
  \/ Phase' = Phase /\ Rest \in Nat /\ Rest' \in Nat /\ Rest' < Rest

LEMMA FinishNearer ==
  ASSUME pc \in Working, pc' \in {"done"} \cup Gone
  PROVE  Nearer
BY DEF Working, Gone, Phase, Nearer

\* The loop's bound, read once, and its counter.
LEMMA LoopFacts ==
  ASSUME IInv, pc \in {"phdr", "segment"}
  PROVE  exec.header.phnum \in Nat /\ exec.i \in Nat /\ DOMAIN exec = DOMAIN NoExec
BY DEF IInv, ProgramInv, HasHeader, Ehdr

LEMMA PhdrNearer ==
  ASSUME IInv, ExecPhdr
  PROVE  Nearer
<1>1. pc = "phdr" /\ pc \in Working
  BY DEF ExecPhdr, Working
<1>2. PICK k \in Nat, i \in Nat : k = exec.header.phnum /\ i = exec.i /\ i < k
  BY <1>1, LoopFacts DEF ExecPhdr
<1>3. CASE \E t, r : Finish(t, r)
  BY <1>1, <1>3, FinishNearer DEF Finish
<1>4. ASSUME NEW ph, exec' = [exec EXCEPT !.i = IF ph.load THEN @ ELSE @ + 1, !.phdr = ph],
             pc' = IF ph.load THEN "segment" ELSE "phdr"
      PROVE  Nearer
  <2>1. /\ exec'.header = exec.header
        /\ exec'.i = IF ph.load THEN i ELSE i + 1
    BY <1>1, <1>2, <1>4, LoopFacts, Fields
  <2>2. Phase' = Phase /\ Rest = 2 * (k - i) + 1
    BY <1>1, <1>2, <1>4 DEF Phase, Rest
  <2>3. CASE ph.load
    <3>1. Rest' = 2 * (k - i) + 0
      BY <1>2, <1>4, <2>1, <2>3 DEF Rest
    <3> QED BY <1>2, <2>2, <3>1 DEF Nearer
  <2>4. CASE ~ ph.load
    <3>1. Rest' = 2 * (k - (i + 1)) + 1
      BY <1>2, <1>4, <2>1, <2>4 DEF Rest
    <3> QED BY <1>2, <2>2, <3>1 DEF Nearer
  <2> QED BY <2>3, <2>4
<1> QED BY <1>3, <1>4 DEF ExecPhdr

LEMMA SegmentNearer ==
  ASSUME IInv, ExecSegment
  PROVE  Nearer
<1>1. pc = "segment" /\ pc \in Working
  BY DEF ExecSegment, Working
<1>2. PICK k \in Nat, i \in Nat : k = exec.header.phnum /\ i = exec.i /\ i < k
  BY <1>1, LoopFacts DEF IInv, ProgramInv
<1>3. CASE \E t, r : Finish(t, r)
  BY <1>1, <1>3, FinishNearer DEF Finish
<1>4. CASE pc' \in Gone
  BY <1>1, <1>4, FinishNearer
<1>5. CASE exec' = [exec EXCEPT !.i = @ + 1] /\ pc' = "phdr"
  <2>1. exec'.header = exec.header /\ exec'.i = i + 1
    BY <1>1, <1>2, <1>5, LoopFacts, Fields
  <2>2. Phase' = Phase /\ Rest = 2 * (k - i) + 0
    BY <1>1, <1>2, <1>5 DEF Phase, Rest
  <2>3. Rest' = 2 * (k - (i + 1)) + 1
    BY <1>2, <1>5, <2>1 DEF Rest
  <2> QED BY <1>2, <2>2, <2>3 DEF Nearer
<1> QED BY <1>3, <1>4, <1>5 DEF ExecSegment, Hindered, Gone

\* Every step of sys_exec shortens its way back to user mode, whatever the program
\* headers say and although it may overwrite the path it opens again and again;
\* only a segment that covers the frame of sys_exec itself, on the kernel stack at
\* the top of user space, ends the way instead: what a lost call does then, the
\* theorem does not say.
THEOREM NearerTheorem == Spec => [][InExec => Nearer]_vars
<1>1. ASSUME IInv, Next, InExec
      PROVE  Nearer
  <2>1. CASE ExecPhdr \/ ExecSegment
    BY <1>1, <2>1, PhdrNearer, SegmentNearer
  <2>2. CASE ExecHeader \/ ExecDone \/ ExecReturn
    BY <2>2 DEF ExecHeader, ExecDone, ExecReturn, Finish, Phase, Nearer
  <2>3. CASE ~ (ExecPhdr \/ ExecSegment \/ ExecHeader \/ ExecDone \/ ExecReturn)
    <3>1. pc \in {"entry", "user"}
      BY <1>1, <2>3 DEF Next, Start, Call, Return, Store, svc_handler, sys_exec, sys_exit,
         ExecOpen, Unassigned, sys_open, sys_read_file, sys_close, sys_write, sys_read,
         sys_get_tasks, sys_get_meminfo, sys_listdir, FillOrRefuse
    <3> QED BY <1>1, <3>1 DEF InExec, Working
  <2> QED BY <2>1, <2>2, <2>3
<1>2. IInv /\ [Next]_vars => [InExec => Nearer]_vars
  BY <1>1
<1> QED BY <1>2, Invariant, PTL DEF Spec

=============================================================================
