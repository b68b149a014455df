------------------------------ MODULE Vfs_proofs ------------------------------
(***************************************************************************)
(* The descriptor table implements OpenFiles, for every set of files and   *)
(* every size of the table.                                                *)
(***************************************************************************)
EXTENDS Vfs, Files_proofs, TLAPS

-----------------------------------------------------------------------------
(* The type invariant                                                      *)

LEMMA TypeIsSound == (TypeOK <=> Sound(fd_table)) /\ (TypeOK' <=> Sound(fd_table'))
BY DEF TypeOK, Sound, FdSlot

LEMMA TypeInit == Init => TypeOK
<1>1. Unused \in FdSlot /\ ~ Unused.in_use
  BY DEF Unused, FdSlot
<1> QED BY <1>1, TypeIsSound DEF Init, Sound

LEMMA TypeStep == TypeOK /\ [Next]_vars => TypeOK'
<1> SUFFICES ASSUME Sound(fd_table), [Next]_vars
             PROVE  Sound(fd_table')
  BY TypeIsSound
<1>1. ASSUME NEW path \in Path, NEW flags \in 0 .. 2, vfs_open(path, flags)
      PROVE  Sound(fd_table')
  <2>1. fd_table' = AfterOpen(fd_table, path, flags)
    BY <1>1 DEF vfs_open
  <2>2. CASE OpenResult(fd_table, path, flags) >= 0
    <3>1. /\ OpenResult(fd_table, path, flags) \in Handle
          /\ ramfs_lookup(path.name) \in Files
          /\ fd_table' = Opened(fd_table, OpenResult(fd_table, path, flags), ramfs_lookup(path.name))
      BY <2>1, <2>2, OpenFacts
    <3> QED BY <3>1, OpenedSound
  <2>3. CASE ~ (OpenResult(fd_table, path, flags) >= 0)
    BY <2>1, <2>3, OpenFailsFacts
  <2> QED BY <2>2, <2>3
<1>2. ASSUME NEW fd \in Number, NEW len \in Length, vfs_read(fd, len)
      PROVE  Sound(fd_table')
  <2>1. len \in Nat
    BY VfsAssumption
  <2>2. CASE ReadOpen(fd, len)
    BY <2>1, <2>2, DataFacts, AdvancedSound DEF ReadOpen
  <2>3. CASE ReadClosed(fd, len)
    BY <2>3 DEF ReadClosed
  <2> QED BY <1>2, <2>2, <2>3 DEF vfs_read
<1>3. ASSUME NEW fd \in Number, vfs_close(fd)
      PROVE  Sound(fd_table')
  BY <1>3, ClosedSound DEF vfs_close
<1>4. CASE (\E is_root \in BOOLEAN, max \in Max : vfs_listdir(is_root, max)) \/ UNCHANGED vars
  BY <1>4 DEF vfs_listdir, vars
<1> QED BY <1>1, <1>2, <1>3, <1>4 DEF Next

\* Open descriptors name existing files at positions inside them.
THEOREM TypeCorrect == Spec => []TypeOK
<1> QED BY TypeInit, TypeStep, PTL DEF Spec

-----------------------------------------------------------------------------
(* The refinement                                                          *)

OpenSet(t) == {fd \in Fd : t[fd].in_use}

LEMMA RestFacts ==
  ASSUME NEW t
  PROVE  /\ DOMAIN Rest(t) = OpenSet(t)
         /\ Rest(t) = [fd \in OpenSet(t) |-> Left(t[fd].file_index, t[fd].offset)]
         /\ \A fd \in OpenSet(t) : Rest(t)[fd] = Left(t[fd].file_index, t[fd].offset)
BY DEF Rest, OpenSet, Left

LEMMA LeftAll == \A f \in Files : Left(f, 0) = Content[f]
<1> SUFFICES ASSUME NEW f \in Files
             PROVE  Left(f, 0) = Content[f]
  OBVIOUS
<1>1. Content[f] \in Seq(Byte)
  BY FilesAssumption
<1> QED BY <1>1, SubSeqFull DEF Left, Size

\* Opening adds a handle that holds the whole file.
LEMMA RestOpened ==
  ASSUME NEW t, Sound(t), NEW fd \in Handle, NEW f \in Files
  PROVE  Rest(Opened(t, fd, f)) =
           [x \in OpenSet(t) \cup {fd} |-> IF x = fd THEN Content[f] ELSE Rest(t)[x]]
<1> DEFINE u == Opened(t, fd, f)
<1>1. fd \in Fd /\ t \in [Fd -> FdSlot]
  BY HandlesAreFds DEF Sound
<1>2. \A x \in Fd : u[x] = IF x = fd THEN [in_use |-> TRUE, file_index |-> f, offset |-> 0]
                                      ELSE t[x]
  BY <1>1 DEF Opened
<1> HIDE DEF u
<1>3. OpenSet(u) = OpenSet(t) \cup {fd}
  BY <1>1, <1>2 DEF OpenSet
<1>4. Left(u[fd].file_index, u[fd].offset) = Content[f]
  BY <1>1, <1>2, LeftAll
<1>5. \A x \in OpenSet(u) \ {fd} : x \in OpenSet(t) /\ u[x] = t[x]
  BY <1>2, <1>3 DEF OpenSet
<1>6. \A x \in OpenSet(u) : Left(u[x].file_index, u[x].offset)
                               = IF x = fd THEN Content[f] ELSE Rest(t)[x]
  BY <1>4, <1>5, RestFacts
<1>7. Rest(u) = [x \in OpenSet(u) |-> Left(u[x].file_index, u[x].offset)]
  BY RestFacts
<1>8. Rest(u) = [x \in OpenSet(u) |-> IF x = fd THEN Content[f] ELSE Rest(t)[x]]
  BY <1>6, <1>7, Zenon
<1> QED BY <1>3, <1>8 DEF u

\* Closing removes a handle.
LEMMA RestClosed ==
  ASSUME NEW t, Sound(t), NEW fd, IsOpen(t, fd)
  PROVE  Rest(Closed(t, fd)) = [x \in OpenSet(t) \ {fd} |-> Rest(t)[x]]
<1> DEFINE u == Closed(t, fd)
<1>1. fd \in Fd /\ t \in [Fd -> FdSlot] /\ ~ Unused.in_use
  BY SlotFacts DEF Sound, Unused
<1>2. \A x \in Fd : u[x] = IF x = fd THEN Unused ELSE t[x]
  BY <1>1 DEF Closed
<1> HIDE DEF u
<1>3. OpenSet(u) = OpenSet(t) \ {fd}
  BY <1>1, <1>2 DEF OpenSet
<1>4. \A x \in OpenSet(u) : x \in OpenSet(t) /\ u[x] = t[x]
  BY <1>2, <1>3 DEF OpenSet
<1>5. \A x \in OpenSet(u) : Left(u[x].file_index, u[x].offset) = Rest(t)[x]
  BY <1>4, RestFacts
<1>6. Rest(u) = [x \in OpenSet(u) |-> Left(u[x].file_index, u[x].offset)]
  BY RestFacts
<1>7. Rest(u) = [x \in OpenSet(u) |-> Rest(t)[x]]
  BY <1>5, <1>6, Zenon
<1> QED BY <1>3, <1>7 DEF u

\* Reading n bytes takes them from the front of the handle's rest.
LEMMA RestAdvanced ==
  ASSUME NEW t, Sound(t), NEW fd, IsOpen(t, fd),
         NEW n \in 0 .. Size(t[fd].file_index) - t[fd].offset
  PROVE  /\ Len(Rest(t)[fd]) = Size(t[fd].file_index) - t[fd].offset
         /\ SubSeq(Content[t[fd].file_index], t[fd].offset + 1, t[fd].offset + n)
              = SubSeq(Rest(t)[fd], 1, n)
         /\ Rest(Advanced(t, fd, n)) =
              [Rest(t) EXCEPT ![fd] = SubSeq(@, n + 1, Len(@))]
<1> DEFINE u == Advanced(t, fd, n)
           f == t[fd].file_index
           o == t[fd].offset
<1>1. /\ fd \in Fd /\ t[fd].in_use /\ t[fd] \in FdSlot /\ f \in Files
      /\ o \in 0 .. Size(f) /\ Size(f) \in Nat
  BY SlotFacts, SizeFacts
<1>2. fd \in OpenSet(t) /\ t \in [Fd -> FdSlot]
  BY <1>1 DEF OpenSet, Sound
<1>3. /\ Len(Left(f, o)) = Size(f) - o
      /\ SubSeq(Content[f], o + 1, o + n) = SubSeq(Left(f, o), 1, n)
      /\ Left(f, o + n) = SubSeq(Left(f, o), n + 1, Len(Left(f, o)))
  BY <1>1, LeftFacts, LeftSplits
<1>4. Rest(t)[fd] = Left(f, o)
  BY <1>2, RestFacts
<1>5. /\ u[fd].file_index = f /\ u[fd].offset = o + n /\ u[fd].in_use
      /\ \A x \in Fd \ {fd} : u[x] = t[x]
  BY <1>1, <1>2 DEF Advanced, FdSlot
<1> HIDE DEF u, f, o
<1>6. OpenSet(u) = OpenSet(t)
  BY <1>2, <1>5 DEF OpenSet
<1>7. \A x \in OpenSet(u) \ {fd} : x \in OpenSet(t) /\ u[x] = t[x]
  BY <1>5, <1>6 DEF OpenSet
<1>8. Rest(u) = [x \in OpenSet(t) |-> IF x = fd THEN Left(f, o + n) ELSE Rest(t)[x]]
  BY <1>5, <1>6, <1>7, RestFacts
<1>9. Rest(u) = [Rest(t) EXCEPT ![fd] = SubSeq(Rest(t)[fd], n + 1, Len(Rest(t)[fd]))]
  BY <1>2, <1>3, <1>4, <1>8, RestFacts
<1> QED BY <1>3, <1>4, <1>9 DEF u, f, o

LEMMA OpenFilesInit == Init => OF!Init
<1> SUFFICES ASSUME Init
             PROVE  OF!Init
  OBVIOUS
<1>1. OpenSet(fd_table) = {}
  BY DEF Init, OpenSet, Unused
<1>2. Rest(fd_table) = [fd \in {} |-> Left(fd_table[fd].file_index, fd_table[fd].offset)]
  BY <1>1, RestFacts
<1>3. Rest(fd_table) = <<>>
  BY <1>2
<1> QED BY <1>3 DEF Init, OF!Init

LEMMA OpenedIsOpen ==
  ASSUME Sound(fd_table), NEW name, NEW fd \in Handle, NEW f \in Files,
         ~ fd_table[fd].in_use, FileName[f] = name,
         fd_table' = Opened(fd_table, fd, f),
         answer' = [call |-> <<"open", name>>, result |-> fd, data |-> <<>>]
  PROVE  OF!Open(name)
<1>1. DOMAIN Rest(fd_table) = OpenSet(fd_table) /\ Rest(fd_table)' = Rest(fd_table')
  BY RestFacts DEF Rest
<1>2. fd \in Handle \ DOMAIN Rest(fd_table)
  BY <1>1 DEF OpenSet
<1>3. Rest(Opened(fd_table, fd, f)) =
        [x \in OpenSet(fd_table) \cup {fd} |-> IF x = fd THEN Content[f] ELSE Rest(fd_table)[x]]
  BY RestOpened
<1>4. Rest(fd_table)' = [x \in DOMAIN Rest(fd_table) \cup {fd} |->
                           IF x = fd THEN Content[f] ELSE Rest(fd_table)[x]]
  BY <1>1, <1>3, Zenon
<1>5. f \in OF!File
  BY DEF OF!File, Files
<1> QED BY <1>2, <1>4, <1>5 DEF OF!Open, OF!Answer

LEMMA OpenStep ==
  ASSUME TypeOK, NEW path \in Path, NEW flags \in 0 .. 2, vfs_open(path, flags)
  PROVE  OF!Open(path.name) \/ OF!OpenFails(path.name)
<1> DEFINE fd == OpenResult(fd_table, path, flags)
           f == ramfs_lookup(path.name)
<1>1. /\ fd_table' = AfterOpen(fd_table, path, flags)
      /\ answer' = [call |-> <<IF flags = O_RDONLY THEN "open" ELSE "open for writing", path.name>>,
                    result |-> fd, data |-> <<>>]
      /\ Sound(fd_table)
  BY TypeIsSound DEF vfs_open, Answer
<1>2. CASE fd >= 0
  <2>1. /\ fd \in Handle /\ ~ fd_table[fd].in_use /\ f \in Files
        /\ FileName[f] = path.name /\ flags = O_RDONLY
        /\ fd_table' = Opened(fd_table, fd, f)
    <3>1. OpenResult(fd_table, path, flags) >= 0
      BY <1>2
    <3>2. /\ fd \in Handle /\ ~ fd_table[fd].in_use /\ f \in Files
          /\ FileName[f] = path.name /\ flags = O_RDONLY
          /\ AfterOpen(fd_table, path, flags) = Opened(fd_table, fd, f)
      BY <3>1, OpenFacts
    <3> QED BY <1>1, <3>2
  <2>2. answer' = [call |-> <<"open", path.name>>, result |-> fd, data |-> <<>>]
    BY <1>1, <2>1
  <2> HIDE DEF fd, f
  <2> QED BY <1>1, <2>1, <2>2, OpenedIsOpen
<1>3. CASE ~ (fd >= 0)
  <2>1. /\ fd_table' = fd_table
        /\ \/ flags # O_RDONLY /\ fd = E_ARG
           \/ /\ flags = O_RDONLY
              /\ \/ Named(path.name) = {} /\ fd = E_NOENT
                 \/ FreeFds(fd_table) = {} /\ fd = E_MFILE
    BY <1>1, <1>3, OpenFailsFacts
  <2>2. Rest(fd_table)' = Rest(fd_table)
    BY <2>1 DEF Rest
  <2>3. CASE flags # O_RDONLY /\ fd = E_ARG
    BY <1>1, <2>2, <2>3 DEF OF!OpenFails, OF!Fail, OF!Answer, E_ARG
  <2>4. CASE flags = O_RDONLY /\ Named(path.name) = {} /\ fd = E_NOENT
    <3>1. \A x \in OF!File : FileName[x] # path.name
      BY <2>4 DEF Named, OF!File, Files
    <3> QED BY <1>1, <2>2, <2>4, <3>1 DEF OF!OpenFails, OF!Fail, OF!Answer, E_NOENT
  <2>5. CASE flags = O_RDONLY /\ FreeFds(fd_table) = {} /\ fd = E_MFILE
    <3>1. Handle \subseteq DOMAIN Rest(fd_table)
      BY <2>5, RestFacts, HandlesAreFds DEF FreeFds, OpenSet
    <3> QED BY <1>1, <2>2, <2>5, <3>1 DEF OF!OpenFails, OF!Fail, OF!Answer, E_MFILE
  <2> QED BY <2>1, <2>3, <2>4, <2>5
<1> QED BY <1>2, <1>3

LEMMA ReadStep ==
  ASSUME TypeOK, NEW fd \in Number, NEW len \in Length, vfs_read(fd, len)
  PROVE  \/ fd \in DOMAIN Rest(fd_table) /\ OF!Read(fd, len)
         \/ fd \in Number \ DOMAIN Rest(fd_table) /\ OF!BadHandle(fd, len)
<1>1. Sound(fd_table) /\ len \in Nat /\ Rest(fd_table)' = Rest(fd_table')
  BY TypeIsSound, VfsAssumption DEF Rest
<1>2. CASE ReadOpen(fd, len)
  <2> DEFINE bytes == DataOf(fd_table, fd, len)
             n == Len(bytes)
             f == fd_table[fd].file_index
             o == fd_table[fd].offset
  <2>1. /\ IsOpen(fd_table, fd)
        /\ fd_table' = Advanced(fd_table, fd, n)
        /\ answer' = [call |-> <<"read", fd, len>>, result |-> n, data |-> bytes]
    BY <1>2 DEF ReadOpen, Answer
  <2>2. /\ n \in 0 .. Size(f) - o
        /\ n = len \/ (n < len /\ n = Size(f) - o)
        /\ bytes = SubSeq(Content[f], o + 1, o + n)
    BY <1>1, <2>1, DataFacts
  <2>3. fd \in DOMAIN Rest(fd_table)
    BY <2>1, RestFacts DEF IsOpen, OpenSet
  <2> HIDE DEF n, bytes
  <2>4. /\ Len(Rest(fd_table)[fd]) = Size(f) - o
        /\ SubSeq(Content[f], o + 1, o + n) = SubSeq(Rest(fd_table)[fd], 1, n)
        /\ Rest(Advanced(fd_table, fd, n)) =
             [Rest(fd_table) EXCEPT ![fd] = SubSeq(@, n + 1, Len(@))]
    BY <1>1, <2>1, <2>2, RestAdvanced
  <2> QED BY <1>1, <2>1, <2>2, <2>3, <2>4 DEF OF!Read, OF!Answer
<1>3. CASE ReadClosed(fd, len)
  <2>1. ~ IsOpen(fd_table, fd) /\ fd_table' = fd_table
        /\ answer' = [call |-> <<"read", fd, len>>, result |-> E_BADF, data |-> <<>>]
    BY <1>3 DEF ReadClosed, Answer
  <2>2. fd \notin DOMAIN Rest(fd_table)
    BY <2>1, RestFacts DEF IsOpen, OpenSet
  <2> QED BY <1>1, <2>1, <2>2 DEF OF!BadHandle, OF!Fail, OF!Answer, E_BADF
<1> QED BY <1>2, <1>3 DEF vfs_read

LEMMA CloseStep ==
  ASSUME TypeOK, NEW fd \in Number, vfs_close(fd)
  PROVE  \/ fd \in DOMAIN Rest(fd_table) /\ OF!Close(fd)
         \/ fd \in Number \ DOMAIN Rest(fd_table) /\ \A len : OF!BadHandle(fd, len)
<1>1. Sound(fd_table) /\ Rest(fd_table)' = Rest(fd_table')
  BY TypeIsSound DEF Rest
<1>2. CASE IsOpen(fd_table, fd)
  <2>1. /\ fd_table' = Closed(fd_table, fd)
        /\ answer' = [call |-> <<"close", fd>>, result |-> 0, data |-> <<>>]
    BY <1>2 DEF vfs_close, Answer, E_OK
  <2>2. fd \in DOMAIN Rest(fd_table)
    BY <1>2, RestFacts DEF IsOpen, OpenSet
  <2>3. Rest(fd_table') = [x \in DOMAIN Rest(fd_table) \ {fd} |-> Rest(fd_table)[x]]
    <3>1. Rest(Closed(fd_table, fd)) = [x \in OpenSet(fd_table) \ {fd} |-> Rest(fd_table)[x]]
      BY <1>1, <1>2, RestClosed
    <3>2. DOMAIN Rest(fd_table) = OpenSet(fd_table)
      BY RestFacts
    <3> QED BY <2>1, <3>1, <3>2, Zenon
  <2> QED BY <1>1, <2>1, <2>2, <2>3 DEF OF!Close, OF!Answer
<1>3. CASE ~ IsOpen(fd_table, fd)
  <2>1. /\ fd_table' = fd_table
        /\ answer' = [call |-> <<"close", fd>>, result |-> E_BADF, data |-> <<>>]
    BY <1>3 DEF vfs_close, Answer
  <2>2. fd \notin DOMAIN Rest(fd_table)
    BY <1>3, RestFacts DEF IsOpen, OpenSet
  <2> QED BY <1>1, <2>1, <2>2 DEF OF!BadHandle, OF!Fail, OF!Answer, E_BADF
<1> QED BY <1>2, <1>3

LEMMA ListStep ==
  ASSUME NEW is_root \in BOOLEAN, NEW max \in Max, vfs_listdir(is_root, max)
  PROVE  OF!Fail(<<"list">>, -6) \/ \E n \in 0 .. FileCount : OF!List(n)
<1>1. Rest(fd_table)' = Rest(fd_table)
  BY DEF vfs_listdir, Rest
<1>2. CASE is_root
  <2>1. EntryCount(max) \in 0 .. FileCount
    BY FilesAssumption, VfsAssumption DEF EntryCount
  <2> QED BY <1>1, <1>2, <2>1 DEF vfs_listdir, Answer, Listing, Size, OF!List, OF!Answer
<1>3. CASE ~ is_root
  BY <1>1, <1>3 DEF vfs_listdir, Answer, OF!Fail, OF!Answer, E_NOENT
<1> QED BY <1>2, <1>3

LEMMA OpenFilesStep ==
  ASSUME TypeOK, [Next]_vars
  PROVE  [OF!Next]_<<Rest(fd_table), answer>>
<1>1. ASSUME NEW path \in Path, NEW flags \in 0 .. 2, vfs_open(path, flags)
      PROVE  OF!Next
  <2>1. path.name \in Name
    BY DEF Path
  <2> QED BY <1>1, <2>1, OpenStep DEF OF!Next
<1>2. ASSUME NEW fd \in Number, NEW len \in Length, vfs_read(fd, len)
      PROVE  OF!Next
  BY <1>2, ReadStep DEF OF!Next
<1>3. ASSUME NEW fd \in Number, vfs_close(fd)
      PROVE  OF!Next
  <2>1. PICK len \in Length : TRUE
    BY VfsAssumption
  <2> QED BY <1>3, <2>1, CloseStep DEF OF!Next
<1>4. ASSUME NEW is_root \in BOOLEAN, NEW max \in Max, vfs_listdir(is_root, max)
      PROVE  OF!Next
  BY <1>4, ListStep DEF OF!Next
<1>5. CASE UNCHANGED vars
  BY <1>5 DEF vars, Rest
<1> QED BY <1>1, <1>2, <1>3, <1>4, <1>5 DEF Next

\* A descriptor is a handle on the unread bytes of one file: reads deliver the
\* file from its start, in order and to its end, however calls are interleaved,
\* and an open fails only when there is no such file or no free descriptor.
THEOREM Refinement == Spec => ImplementsOpenFiles
<1>1. TypeOK /\ [Next]_vars => [OF!Next]_<<Rest(fd_table), answer>>
  BY OpenFilesStep
<1> QED BY <1>1, OpenFilesInit, TypeCorrect, PTL DEF Spec, ImplementsOpenFiles, OF!Spec, OF!vars

=============================================================================
