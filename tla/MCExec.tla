-------------------------------- MODULE MCExec --------------------------------
(***************************************************************************)
(* Nine words: user space is 2 to 6 with the kernel stack at 6, 7 is not   *)
(* mapped, 8 is kernel memory.  Three entries of three cells fill all nine *)
(* words: their size is 0, as a number of entries 6 is negative.           *)
(*                                                                         *)
(* The program "two" has two segments, a bss and a program header that is  *)
(* not loaded; its first data cell spells the path of another program.     *)
(* The others go wrong at one place each, most of them after their first   *)
(* segment is in memory.  The shell's image begins with the path "/".      *)
(***************************************************************************)
EXTENDS Exec

CONSTANTS two, wrap, long, far, cut, out, top, d0, d1, sh, zero, junk, kernel, root

PathOf(n) == [slash |-> TRUE, name |-> n]
Header(entry, n) == [entry |-> entry, phnum |-> n]
Segment(offset, vaddr, filesz, memsz) ==
  [load |-> TRUE, offset |-> offset, vaddr |-> vaddr, filesz |-> filesz, memsz |-> memsz]
Note == [load |-> FALSE, offset |-> 0, vaddr |-> 0, filesz |-> 0, memsz |-> 0]

TwoSegments ==
  <<Header(2, 3), Segment(4, 2, 1, 1), Note, Segment(5, 3, 1, 2), PathOf(cut), d1, d0, d0>>
SecondIs(ph) == <<Header(2, 2), Segment(3, 2, 1, 3), ph, d0>>

MCName == {two, wrap, long, far, cut, out, top, d0, d1, sh, zero, junk, root}
MCByte == {d0, d1, sh, root, PathOf(cut)} \cup Phdr \cup Ehdr
MCPayload == <<root, sh, sh>>

\* "wrap": vaddr + memsz wraps around the address space; "long": the segment
\* is longer than the file; "far": it starts behind its end; "cut": no second
\* program header; "out": the entry point lies outside user space; "top": the
\* bss covers the kernel stack.
MCFileName == [f \in Files |-> <<two, wrap, long, far, cut, out, top>>[f + 1]]
MCContent == [f \in Files |->
  <<TwoSegments,
    SecondIs(Segment(3, 5, 1, 6)),
    SecondIs(Segment(3, 3, 3, 3)),
    SecondIs(Segment(7, 3, 1, 1)),
    <<Header(2, 4), Segment(1, 2, 1, 3), Note, Note>>,
    <<Header(7, 1), Segment(2, 3, 1, 1), d0, d0>>,
    <<Header(2, 1), Segment(2, 5, 1, 2), d0, d0>>>>[f + 1]]
MCStored == {PathOf(n) : n \in {two, wrap, long, far, cut, out, top}}

\* A buffer in each position, a length in each, good and bad.
MCRegisters == {<<5, 1, 0>>, <<0, 5, 1>>, <<1, 2, 3>>, <<0, 8, 1>>, <<6, 1, 0>>}

=============================================================================
