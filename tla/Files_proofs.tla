----------------------------- MODULE Files_proofs -----------------------------
(***************************************************************************)
(* Facts about the operators of Files, for any set of files and any table. *)
(***************************************************************************)
EXTENDS Files, SequenceTheorems, WellFoundedInduction, TLAPS

-----------------------------------------------------------------------------
(* Least elements                                                          *)

\* Some relation contains < and is well-founded on the naturals.
LEMMA NatOrder ==
  \E R : IsWellFoundedOn(R, Nat) /\ \A y, z \in Nat : y < z => <<y, z>> \in R
<1>1. IsWellFoundedOn(OpToRel(<, Nat), Nat)
  BY NatLessThanWellFounded
<1>2. \A y, z \in Nat : y < z => <<y, z>> \in OpToRel(<, Nat)
  BY Zenon DEF OpToRel
<1> QED BY <1>1, <1>2, Zenon

\* A non-empty set of naturals has a least element.
LEMMA LeastNatural ==
  ASSUME NEW T, T \subseteq Nat, T # {}
  PROVE  \E x \in T : \A y \in T : x <= y
<1>1. PICK R : IsWellFoundedOn(R, Nat) /\ \A y, z \in Nat : y < z => <<y, z>> \in R
  BY NatOrder
<1>2. PICK x \in T : \A y \in T : ~ (<<y, x>> \in R)
  <2>1. IsWellFoundedOn(R, Nat)
    BY <1>1
  <2> QED BY <2>1, WFMin
<1>3. \A y \in T : ~ (y < x)
  BY <1>1, <1>2, Zenon
<1> QED BY <1>3

-----------------------------------------------------------------------------
(* The operators of Files                                                  *)

\* CHOOSE picks the least element.
LEMMA LowestFacts ==
  ASSUME NEW S, S \subseteq Nat, S # {}
  PROVE  Lowest(S) \in S /\ \A k \in S : Lowest(S) <= k
<1>1. \E n \in S : \A k \in S : n <= k
  BY LeastNatural
<1> QED BY <1>1 DEF Lowest

LEMMA LowestIs ==
  ASSUME NEW S, S \subseteq Nat, NEW n \in S, \A k \in S : n <= k
  PROVE  Lowest(S) = n
<1>1. S # {}
  OBVIOUS
<1>2. Lowest(S) \in S /\ \A k \in S : Lowest(S) <= k
  BY <1>1, LowestFacts
<1>3. Lowest(S) \in Nat /\ Lowest(S) <= n /\ n <= Lowest(S)
  BY <1>2
<1> QED BY <1>3

\* A lookup returns a file of that name, or E_NOENT when there is none.
LEMMA LookupFacts ==
  ASSUME NEW n
  PROVE  \/ /\ Named(n) # {}
            /\ ramfs_lookup(n) \in Files
            /\ FileName[ramfs_lookup(n)] = n
         \/ /\ Named(n) = {}
            /\ ramfs_lookup(n) = E_NOENT
<1>1. CASE Named(n) # {}
  <2>1. Named(n) \subseteq Nat
    BY FilesAssumption DEF Named, Files
  <2>2. Lowest(Named(n)) \in Named(n)
    BY <1>1, <2>1, LowestFacts
  <2> QED BY <1>1, <2>2 DEF ramfs_lookup, Named
<1>2. CASE Named(n) = {}
  BY <1>2 DEF ramfs_lookup
<1> QED BY <1>1, <1>2

\* A read delivers up to len bytes and stops at the end of the file.
LEMMA ReadFacts ==
  ASSUME NEW f \in Files, NEW o \in 0 .. Size(f), NEW len \in Nat
  PROVE  /\ Available(f, o, len) \in 0 .. Size(f) - o
         /\ \/ Available(f, o, len) = len
            \/ Available(f, o, len) < len /\ Available(f, o, len) = Size(f) - o
         /\ ramfs_read(f, o, len) \in Seq(Byte)
         /\ Len(ramfs_read(f, o, len)) = Available(f, o, len)
<1>1. Content[f] \in Seq(Byte) /\ Size(f) \in Nat
  BY FilesAssumption DEF Size
<1>2. Available(f, o, len) \in 0 .. Size(f) - o
  BY <1>1 DEF Available
<1>3. \A i \in o + 1 .. o + Available(f, o, len) : Content[f][i] \in Byte
  BY <1>1, <1>2, ElementOfSeq DEF Size
<1>4. /\ ramfs_read(f, o, len) \in Seq(Byte)
      /\ Len(ramfs_read(f, o, len)) = Available(f, o, len)
  BY <1>1, <1>2, <1>3, SubSeqProperties, SMTT(30) DEF ramfs_read
<1>5. \/ Available(f, o, len) = len
      \/ Available(f, o, len) < len /\ Available(f, o, len) = Size(f) - o
  BY <1>1 DEF Available
<1> QED BY <1>2, <1>4, <1>5

\* What is left of a file after o bytes.
Left(f, o) == SubSeq(Content[f], o + 1, Size(f))

LEMMA LeftFacts ==
  ASSUME NEW f \in Files, NEW o \in 0 .. Size(f)
  PROVE  /\ Left(f, o) \in Seq(Byte)
         /\ Len(Left(f, o)) = Size(f) - o
         /\ \A i \in 1 .. Size(f) - o : Left(f, o)[i] = Content[f][o + i]
<1>1. Content[f] \in Seq(Byte) /\ Size(f) \in Nat
  BY FilesAssumption DEF Size
<1>2. \A i \in o + 1 .. Size(f) : Content[f][i] \in Byte
  BY <1>1, ElementOfSeq DEF Size
<1>3. /\ Left(f, o) \in Seq(Byte)
      /\ Len(Left(f, o)) = IF o + 1 <= Size(f) THEN Size(f) - (o + 1) + 1 ELSE 0
      /\ \A i \in 1 .. Size(f) - (o + 1) + 1 : Left(f, o)[i] = Content[f][(o + 1) + i - 1]
  BY <1>1, <1>2, SubSeqProperties DEF Left
<1> QED BY <1>1, <1>3

\* Reading n bytes splits what is left into the bytes delivered and the rest.
LEMMA LeftSplits ==
  ASSUME NEW f \in Files, NEW o \in 0 .. Size(f), NEW n \in 0 .. Size(f) - o
  PROVE  /\ SubSeq(Content[f], o + 1, o + n) = SubSeq(Left(f, o), 1, n)
         /\ Left(f, o + n) = SubSeq(Left(f, o), n + 1, Len(Left(f, o)))
<1>1. Content[f] \in Seq(Byte) /\ Size(f) \in Nat /\ Size(f) = Len(Content[f])
  BY FilesAssumption DEF Size
<1>2. /\ Left(f, o) \in Seq(Byte)
      /\ Len(Left(f, o)) = Size(f) - o
      /\ \A i \in 1 .. Size(f) - o : Left(f, o)[i] = Content[f][o + i]
  BY LeftFacts
<1>3. SubSeq(Content[f], o + 1, o + n) = SubSeq(Left(f, o), 1, n)
  <2> DEFINE a == SubSeq(Content[f], o + 1, o + n)
             b == SubSeq(Left(f, o), 1, n)
  <2>1. \A i \in o + 1 .. o + n : Content[f][i] \in Byte
    BY <1>1, ElementOfSeq
  <2>2. a \in Seq(Byte) /\ Len(a) = n /\ \A i \in 1 .. n : a[i] = Content[f][o + i]
    <3>1. /\ a \in Seq(Byte)
          /\ Len(a) = IF o + 1 <= o + n THEN o + n - (o + 1) + 1 ELSE 0
          /\ \A i \in 1 .. o + n - (o + 1) + 1 : a[i] = Content[f][(o + 1) + i - 1]
      BY <1>1, <2>1, SubSeqProperties, SMTT(30)
    <3> QED BY <1>1, <3>1
  <2>3. \A i \in 1 .. n : Left(f, o)[i] \in Byte
    BY <1>1, <1>2, ElementOfSeq
  <2>4. b \in Seq(Byte) /\ Len(b) = n /\ \A i \in 1 .. n : b[i] = Left(f, o)[i]
    <3>1. /\ b \in Seq(Byte)
          /\ Len(b) = IF 1 <= n THEN n - 1 + 1 ELSE 0
          /\ \A i \in 1 .. n - 1 + 1 : b[i] = Left(f, o)[1 + i - 1]
      BY <1>1, <2>3, SubSeqProperties, SMTT(30)
    <3> QED BY <1>1, <3>1
  <2>5. \A i \in 1 .. n : a[i] = b[i]
    BY <1>1, <1>2, <2>2, <2>4
  <2> HIDE DEF a, b
  <2>6. a = b
    BY <2>2, <2>4, <2>5, SeqEqual
  <2> QED BY <2>6 DEF a, b
<1>4. Left(f, o + n) = SubSeq(Left(f, o), n + 1, Len(Left(f, o)))
  <2> DEFINE a == Left(f, o + n)
             l == Len(Left(f, o))
             b == SubSeq(Left(f, o), n + 1, l)
  <2>1. l = Size(f) - o /\ l \in Nat /\ n \in Nat
    BY <1>1, <1>2
  <2>2. a \in Seq(Byte) /\ Len(a) = l - n /\ \A i \in 1 .. l - n : a[i] = Content[f][o + n + i]
    <3>1. o + n \in 0 .. Size(f) /\ Size(f) - (o + n) = l - n
      BY <1>1, <2>1
    <3> QED BY <3>1, LeftFacts
  <2>3. \A i \in n + 1 .. l : Left(f, o)[i] \in Byte
    BY <1>1, <1>2, <2>1, ElementOfSeq
  <2>4. b \in Seq(Byte) /\ Len(b) = l - n /\ \A i \in 1 .. l - n : b[i] = Left(f, o)[n + i]
    <3>1. /\ b \in Seq(Byte)
          /\ Len(b) = IF n + 1 <= l THEN l - (n + 1) + 1 ELSE 0
          /\ \A i \in 1 .. l - (n + 1) + 1 : b[i] = Left(f, o)[(n + 1) + i - 1]
      BY <2>1, <2>3, SubSeqProperties, SMTT(30)
    <3> HIDE DEF b, l
    <3> QED BY <1>1, <2>1, <3>1, SMTT(30)
  <2>5. \A i \in 1 .. l - n : a[i] = b[i]
    BY <1>1, <1>2, <2>1, <2>2, <2>4, SMTT(30)
  <2> HIDE DEF a, b, l
  <2>6. a = b
    BY <2>2, <2>4, <2>5, SeqEqual
  <2> QED BY <2>6 DEF a, b, l
<1> QED BY <1>3, <1>4

-----------------------------------------------------------------------------
(* Tables                                                                  *)

FdSlot == [in_use : BOOLEAN, file_index : Nat, offset : Nat]

\* What the type invariants of Vfs and Exec say of the table.
Sound(t) ==
  /\ t \in [Fd -> FdSlot]
  /\ \A fd \in Fd : t[fd].in_use =>
       /\ fd \in Handle
       /\ t[fd].file_index \in Files
       /\ t[fd].offset <= Size(t[fd].file_index)

LEMMA SizeFacts == \A f \in Files : Size(f) \in Nat
BY FilesAssumption DEF Size

\* What an open descriptor says about its file.
LEMMA SlotFacts ==
  ASSUME NEW t, Sound(t), NEW fd, IsOpen(t, fd)
  PROVE  /\ fd \in Fd /\ fd \in Handle
         /\ t[fd] \in FdSlot /\ t[fd].in_use
         /\ t[fd].file_index \in Files
         /\ t[fd].offset \in 0 .. Size(t[fd].file_index)
<1>1. fd \in Fd /\ t[fd].in_use /\ t[fd] \in FdSlot
  BY DEF Sound, IsOpen
<1>2. fd \in Handle /\ t[fd].file_index \in Files /\ t[fd].offset <= Size(t[fd].file_index)
  BY <1>1 DEF Sound
<1>3. t[fd].offset \in Nat /\ Size(t[fd].file_index) \in Nat
  BY <1>1, <1>2, SizeFacts DEF FdSlot
<1> QED BY <1>1, <1>2, <1>3

\* A descriptor that vfs_open returns was free, and names the file of the path.
LEMMA OpenFacts ==
  ASSUME NEW t, NEW path, NEW flags, OpenResult(t, path, flags) >= 0
  PROVE  LET fd == OpenResult(t, path, flags)
             f == ramfs_lookup(path.name)
         IN  /\ fd \in Handle /\ ~ t[fd].in_use
             /\ f \in Files /\ FileName[f] = path.name
             /\ flags = O_RDONLY
             /\ AfterOpen(t, path, flags) = Opened(t, fd, f)
<1>1. /\ flags = O_RDONLY /\ ramfs_lookup(path.name) # E_NOENT /\ FreeFds(t) # {}
      /\ OpenResult(t, path, flags) = Lowest(FreeFds(t))
  BY DEF OpenResult, E_ARG, E_NOENT, E_MFILE
<1>2. FreeFds(t) \subseteq Nat
  BY FilesAssumption DEF FreeFds, Handle, FirstFd
<1>3. Lowest(FreeFds(t)) \in FreeFds(t)
  BY <1>1, <1>2, LowestFacts
<1>4. ramfs_lookup(path.name) \in Files /\ FileName[ramfs_lookup(path.name)] = path.name
  BY <1>1, LookupFacts
<1>5. ~ (OpenResult(t, path, flags) < 0)
  BY <1>1, <1>2, <1>3
<1> QED BY <1>1, <1>3, <1>4, <1>5 DEF FreeFds, AfterOpen

LEMMA OpenFailsFacts ==
  ASSUME NEW t, NEW path, NEW flags, ~ (OpenResult(t, path, flags) >= 0)
  PROVE  /\ AfterOpen(t, path, flags) = t
         /\ \/ flags # O_RDONLY /\ OpenResult(t, path, flags) = E_ARG
            \/ /\ flags = O_RDONLY
               /\ \/ Named(path.name) = {} /\ OpenResult(t, path, flags) = E_NOENT
                  \/ FreeFds(t) = {} /\ OpenResult(t, path, flags) = E_MFILE
<1>1. \/ flags # O_RDONLY /\ OpenResult(t, path, flags) = E_ARG
      \/ /\ flags = O_RDONLY
         /\ \/ ramfs_lookup(path.name) = E_NOENT /\ OpenResult(t, path, flags) = E_NOENT
            \/ FreeFds(t) = {} /\ OpenResult(t, path, flags) = E_MFILE
  <2>1. CASE flags = O_RDONLY /\ ramfs_lookup(path.name) # E_NOENT /\ FreeFds(t) # {}
    <3>1. FreeFds(t) \subseteq Nat
      BY FilesAssumption DEF FreeFds, Handle, FirstFd
    <3>2. Lowest(FreeFds(t)) \in Nat
      BY <2>1, <3>1, LowestFacts
    <3> QED BY <2>1, <3>2 DEF OpenResult
  <2>2. CASE ~ (flags = O_RDONLY /\ ramfs_lookup(path.name) # E_NOENT /\ FreeFds(t) # {})
    BY <2>2 DEF OpenResult
  <2> QED BY <2>1, <2>2
<1>2. OpenResult(t, path, flags) < 0
  BY <1>1 DEF E_ARG, E_NOENT, E_MFILE
<1>3. ramfs_lookup(path.name) = E_NOENT => Named(path.name) = {}
  BY LookupFacts DEF Files, E_NOENT
<1> QED BY <1>1, <1>2, <1>3 DEF AfterOpen

LEMMA HandlesAreFds == Handle \subseteq Fd /\ 0 \in Nat
BY FilesAssumption DEF Handle, Fd, FirstFd

LEMMA OpenedSound ==
  ASSUME NEW t, Sound(t), NEW fd \in Handle, NEW f \in Files
  PROVE  Sound(Opened(t, fd, f))
<1>1. fd \in Fd /\ f \in Nat /\ 0 <= Size(f)
  BY HandlesAreFds, SizeFacts DEF Files
<1>2. [in_use |-> TRUE, file_index |-> f, offset |-> 0] \in FdSlot
  BY <1>1 DEF FdSlot
<1> QED BY <1>1, <1>2 DEF Sound, Opened

LEMMA ClosedSound ==
  ASSUME NEW t, Sound(t), NEW fd
  PROVE  Sound(Closed(t, fd))
<1>1. Unused \in FdSlot /\ ~ Unused.in_use
  BY DEF Unused, FdSlot
<1> QED BY <1>1 DEF Sound, Closed

LEMMA AdvancedSound ==
  ASSUME NEW t, Sound(t), NEW fd, IsOpen(t, fd),
         NEW n \in 0 .. Size(t[fd].file_index) - t[fd].offset
  PROVE  Sound(Advanced(t, fd, n))
<1>1. /\ fd \in Fd /\ t[fd] \in FdSlot /\ t[fd].file_index \in Files
      /\ t[fd].offset \in 0 .. Size(t[fd].file_index)
      /\ Size(t[fd].file_index) \in Nat /\ fd \in Handle
  BY SlotFacts, SizeFacts
<1>2. /\ Advanced(t, fd, n) = [t EXCEPT ![fd] = [t[fd] EXCEPT !.offset = t[fd].offset + n]]
      /\ t \in [Fd -> FdSlot]
  BY DEF Advanced, Sound
<1> DEFINE s == [t[fd] EXCEPT !.offset = t[fd].offset + n]
<1>3. s \in FdSlot /\ s.file_index = t[fd].file_index /\ s.offset <= Size(s.file_index)
  BY <1>1 DEF FdSlot
<1> HIDE DEF s
<1>4. /\ [t EXCEPT ![fd] = s] \in [Fd -> FdSlot]
      /\ \A x \in Fd : [t EXCEPT ![fd] = s][x] = IF x = fd THEN s ELSE t[x]
  BY <1>1, <1>2, <1>3
<1>5. Sound([t EXCEPT ![fd] = s])
  BY <1>1, <1>3, <1>4 DEF Sound
<1> QED BY <1>2, <1>5 DEF s

LEMMA DataFacts ==
  ASSUME NEW t, Sound(t), NEW fd, IsOpen(t, fd), NEW len \in Nat
  PROVE  LET f == t[fd].file_index
             o == t[fd].offset
             n == Len(DataOf(t, fd, len))
         IN  /\ n \in 0 .. Size(f) - o
             /\ n = len \/ (n < len /\ n = Size(f) - o)
             /\ DataOf(t, fd, len) = SubSeq(Content[f], o + 1, o + n)
BY SlotFacts, ReadFacts DEF DataOf, ramfs_read

\* Closed slots are cleared, so that a table is restored by closing.
Clean(t) == \A fd \in Fd : ~ t[fd].in_use => t[fd] = Unused

Good(t) == Sound(t) /\ Clean(t)

LEMMA OpenedGood ==
  ASSUME NEW t, Good(t), NEW fd \in Handle, NEW f \in Files
  PROVE  /\ Good(Opened(t, fd, f))
         /\ IsOpen(Opened(t, fd, f), fd)
         /\ Opened(t, fd, f)[fd].file_index = f
         /\ Opened(t, fd, f)[fd].offset = 0
<1>1. fd \in Fd /\ t \in [Fd -> FdSlot]
  BY HandlesAreFds DEF Good, Sound
<1>2. \A x \in Fd : Opened(t, fd, f)[x] = IF x = fd THEN [in_use |-> TRUE, file_index |-> f, offset |-> 0]
                                                    ELSE t[x]
  BY <1>1 DEF Opened
<1>3. Clean(Opened(t, fd, f))
  BY <1>2 DEF Clean, Good
<1> QED BY <1>1, <1>2, <1>3, OpenedSound DEF Good, IsOpen

LEMMA ClosedGood ==
  ASSUME NEW t, Good(t), NEW fd
  PROVE  Good(Closed(t, fd))
<1>1. t \in [Fd -> FdSlot]
  BY DEF Good, Sound
<1>2. Clean(Closed(t, fd))
  BY <1>1 DEF Clean, Good, Closed
<1> QED BY <1>2, ClosedSound DEF Good

\* Reading moves one descriptor forward and leaves the others.
LEMMA AdvancedGood ==
  ASSUME NEW t, Good(t), NEW fd, IsOpen(t, fd), NEW len \in Nat
  PROVE  LET n == Len(DataOf(t, fd, len)) IN
         /\ n \in Nat /\ n <= len
         /\ Good(Advanced(t, fd, n))
         /\ IsOpen(Advanced(t, fd, n), fd)
         /\ Advanced(t, fd, n)[fd].file_index = t[fd].file_index
         /\ Advanced(t, fd, n)[fd].offset = t[fd].offset + n
         /\ \A x \in Fd \ {fd} : Advanced(t, fd, n)[x] = t[x]
<1> DEFINE n == Len(DataOf(t, fd, len))
           u == Advanced(t, fd, n)
<1>1. /\ n \in 0 .. Size(t[fd].file_index) - t[fd].offset
      /\ n = len \/ n < len
  BY DataFacts DEF Good
<1>2. /\ fd \in Fd /\ t[fd] \in FdSlot /\ t[fd].in_use /\ t \in [Fd -> FdSlot]
      /\ t[fd].offset \in Nat /\ Size(t[fd].file_index) \in Nat
  BY SlotFacts, SizeFacts DEF Good, Sound, FdSlot
<1>3. n \in Nat /\ n <= len
  BY <1>1, <1>2
<1>4. Sound(u)
  <2> HIDE DEF n
  <2> QED BY <1>1, AdvancedSound DEF Good
<1>5. /\ u[fd].in_use /\ u[fd].file_index = t[fd].file_index
      /\ u[fd].offset = t[fd].offset + n
      /\ \A x \in Fd \ {fd} : u[x] = t[x]
  <2> HIDE DEF n
  <2> QED BY <1>2 DEF Advanced, FdSlot
<1> HIDE DEF u
<1>6. Clean(u)
  BY <1>5 DEF Clean, Good
<1> QED BY <1>2, <1>3, <1>4, <1>5, <1>6 DEF Good, IsOpen, u

\* t differs from the table t0 at most in the open descriptors of H, which are
\* free in t0.
Borrowed(t0, t, H) ==
  /\ Good(t0)
  /\ \A x \in H : x \in Fd /\ ~ t0[x].in_use
  /\ \A x \in Fd \ H : t[x] = t0[x]

\* Closing a borrowed descriptor gives it back.
LEMMA GiveBack ==
  ASSUME NEW t0, NEW t, NEW H, NEW h \in H, Borrowed(t0, t, H), Good(t)
  PROVE  Borrowed(t0, Closed(t, h), H \ {h})
<1>1. t \in [Fd -> FdSlot] /\ t0[h] = Unused /\ h \in Fd
  BY DEF Good, Sound, Borrowed, Clean
<1>2. \A x \in Fd : Closed(t, h)[x] = IF x = h THEN Unused ELSE t[x]
  BY <1>1 DEF Closed
<1> QED BY <1>1, <1>2 DEF Borrowed

\* When nothing is borrowed any more the table is the one at the call.
LEMMA AllBack ==
  ASSUME NEW t0, NEW t, Borrowed(t0, t, {}), Good(t)
  PROVE  t = t0
BY DEF Borrowed, Good, Sound

=============================================================================
