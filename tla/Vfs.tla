--------------------------------- MODULE Vfs ----------------------------------
(***************************************************************************)
(* The virtual file system behind sys_open, sys_read_file, sys_close and   *)
(* sys_listdir: calls in any order, with any arguments, against one        *)
(* descriptor table.  A call runs to its end before the next one: tasks    *)
(* change only in scheduler_yield, and interrupts do not touch the table.  *)
(***************************************************************************)
EXTENDS Files

CONSTANTS
  Number,   \* descriptor numbers callers pass
  Length,   \* buffer lengths callers pass
  Max       \* max_entries callers pass, as the signed number of the loop

ASSUME VfsAssumption ==
  /\ Handle \subseteq Number /\ Number \subseteq Int
  /\ Length \subseteq Nat /\ Length # {}
  /\ Max \subseteq Int

VARIABLES
  fd_table,
  answer    \* the last call and what it gave back

vars == <<fd_table, answer>>

Answer(call, result, data) ==
  answer' = [call |-> call, result |-> result, data |-> data]

\* vfs_init
Init ==
  /\ fd_table = [fd \in Fd |-> Unused]
  /\ answer = [call |-> <<>>, result |-> 0, data |-> <<>>]

vfs_open(path, flags) ==
  /\ fd_table' = AfterOpen(fd_table, path, flags)
  /\ Answer(<<IF flags = O_RDONLY THEN "open" ELSE "open for writing", path.name>>,
            OpenResult(fd_table, path, flags), <<>>)

ReadOpen(fd, len) ==
  LET bytes == DataOf(fd_table, fd, len) IN
  /\ IsOpen(fd_table, fd)
  /\ fd_table' = Advanced(fd_table, fd, Len(bytes))
  /\ Answer(<<"read", fd, len>>, Len(bytes), bytes)

ReadClosed(fd, len) ==
  /\ ~ IsOpen(fd_table, fd)
  /\ Answer(<<"read", fd, len>>, E_BADF, <<>>)
  /\ UNCHANGED fd_table

vfs_read(fd, len) == ReadOpen(fd, len) \/ ReadClosed(fd, len)

vfs_close(fd) ==
  \/ /\ IsOpen(fd_table, fd)
     /\ fd_table' = Closed(fd_table, fd)
     /\ Answer(<<"close", fd>>, E_OK, <<>>)
  \/ /\ ~ IsOpen(fd_table, fd)
     /\ Answer(<<"close", fd>>, E_BADF, <<>>)
     /\ UNCHANGED fd_table

\* Only the root directory can be listed.
vfs_listdir(is_root, max) ==
  /\ IF is_root
     THEN Answer(<<"list">>, EntryCount(max), Listing(max))
     ELSE Answer(<<"list">>, E_NOENT, <<>>)
  /\ UNCHANGED fd_table

Next ==
  \/ \E path \in Path, flags \in 0 .. 2 : vfs_open(path, flags)
  \/ \E fd \in Number, len \in Length : vfs_read(fd, len)
  \/ \E fd \in Number : vfs_close(fd)
  \/ \E is_root \in BOOLEAN, max \in Max : vfs_listdir(is_root, max)

Spec == Init /\ [][Next]_vars

-----------------------------------------------------------------------------
(* Properties                                                              *)

\* An open descriptor names an existing file and stands at a position within
\* it or at its end; the three standard numbers are never handed out.
TypeOK ==
  /\ fd_table \in [Fd -> [in_use : BOOLEAN, file_index : Nat, offset : Nat]]
  /\ \A fd \in Fd : fd_table[fd].in_use =>
       /\ fd \in Handle
       /\ fd_table[fd].file_index \in Files
       /\ fd_table[fd].offset <= Size(fd_table[fd].file_index)

Rest(t) ==
  [fd \in {fd \in Fd : t[fd].in_use} |->
     SubSeq(Content[t[fd].file_index], t[fd].offset + 1, Size(t[fd].file_index))]

OF == INSTANCE OpenFiles WITH rest <- Rest(fd_table)

\* Whatever calls are made in whatever order (descriptors reused, read past the
\* end, closed twice, table full), index and offset behave as handles on the
\* unread bytes of a file, each independent of the others.
ImplementsOpenFiles == OF!Spec

=============================================================================
