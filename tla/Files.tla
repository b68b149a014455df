-------------------------------- MODULE Files ---------------------------------
(***************************************************************************)
(* The RAM file system and the descriptor table of the virtual file        *)
(* system, as operators on the value of the table: what a call returns and *)
(* what it makes of the table.  Vfs and Exec are built from them.          *)
(*                                                                         *)
(* kernel_main mounts RAMFS at "/" before the first task exists, and       *)
(* vfs_find_fs looks at no other mount point: every path is RAMFS's.       *)
(***************************************************************************)
EXTENDS Integers, Sequences

CONSTANTS
  Name,       \* names a path may hold, of existing files or not
  Byte,       \* values of a byte of a file
  FileCount,  \* ramfs_file_count
  FileName,   \* ramfs_file_table[i].name
  Content,    \* the bytes from .data up to ramfs_file_end_table[i]
  MaxFds      \* MAX_FDS

Files == 0 .. FileCount - 1

ASSUME FilesAssumption ==
  /\ FileCount \in Nat
  /\ FileName \in [Files -> Name]
  /\ Content \in [Files -> Seq(Byte)]
  /\ MaxFds \in Nat /\ MaxFds > 3

E_OK == 0
E_FAIL == -1
E_ARG == -3
E_PTR == -4
E_NOENT == -6
E_BADF == -7
E_MFILE == -8

Path == [slash : BOOLEAN, name : Name]   \* a leading '/' or none
O_RDONLY == 0

Lowest(S) == CHOOSE n \in S : \A k \in S : n <= k

-----------------------------------------------------------------------------
(* ramfs.c                                                                 *)

Size(f) == Len(Content[f])

\* strcmp down the table; the first file of that name.
Named(n) == {f \in Files : FileName[f] = n}
ramfs_lookup(n) == IF Named(n) = {} THEN E_NOENT ELSE Lowest(Named(n))

\* min(len, file->size - offset), and nothing at the end of the file.
Available(f, offset, len) ==
  IF offset >= Size(f) THEN 0
  ELSE IF len < Size(f) - offset THEN len ELSE Size(f) - offset

\* The bytes ramfs_read copies; it returns their number.
ramfs_read(f, offset, len) ==
  SubSeq(Content[f], offset + 1, offset + Available(f, offset, len))

-----------------------------------------------------------------------------
(* fd_table                                                                *)

Fd == 0 .. MaxFds - 1
FirstFd == 3   \* 0 to 2 are stdin, stdout and stderr
Handle == FirstFd .. MaxFds - 1

Unused == [in_use |-> FALSE, file_index |-> 0, offset |-> 0]

IsOpen(t, fd) == fd \in Fd /\ t[fd].in_use

MutFreeFds(t) == {fd \in Fd : ~ t[fd].in_use}
FreeFds(t) == {fd \in Handle : ~ t[fd].in_use}

\* What vfs_open returns: E_ARG, E_NOENT, E_MFILE, or the lowest free descriptor.
OpenResult(t, path, flags) ==
  IF flags # O_RDONLY THEN E_ARG
  ELSE IF ramfs_lookup(path.name) = E_NOENT THEN E_NOENT
  ELSE IF FreeFds(t) = {} THEN E_MFILE
  ELSE Lowest(FreeFds(t))

Opened(t, fd, f) ==
  [t EXCEPT ![fd] = [in_use |-> TRUE, file_index |-> f, offset |-> 0]]

AfterOpen(t, path, flags) ==
  LET fd == OpenResult(t, path, flags)
  IN  IF fd < 0 THEN t ELSE Opened(t, fd, ramfs_lookup(path.name))

DataOf(t, fd, len) == ramfs_read(t[fd].file_index, t[fd].offset, len)

MutAdvanced(t, fd, n) == [t EXCEPT ![fd].offset = n]
Advanced(t, fd, n) == [t EXCEPT ![fd].offset = @ + n]

MutClosed(t, fd) == [t EXCEPT ![fd].offset = 0]
Closed(t, fd) == [t EXCEPT ![fd] = Unused]

-----------------------------------------------------------------------------
(* Directory listing: entries up to max, a signed number in the loop.      *)

EntryCount(max) == IF max < 0 THEN 0 ELSE IF max < FileCount THEN max ELSE FileCount

Listing(max) ==
  [i \in 1 .. EntryCount(max) |-> [name |-> FileName[i - 1], size |-> Size(i - 1)]]

=============================================================================
