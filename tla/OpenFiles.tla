------------------------------ MODULE OpenFiles -------------------------------
(***************************************************************************)
(* What the file system promises its callers.  An open handle holds the    *)
(* bytes of its file that have not been read yet; a read takes a prefix of *)
(* them, and no operation on one handle touches another.  An open fails    *)
(* only if there is no such file or every handle is taken.                 *)
(***************************************************************************)
EXTENDS Integers, Sequences

CONSTANTS
  Name, FileCount, FileName, Content,
  Handle,          \* handles the system gives out
  Number, Length   \* handle numbers and lengths callers may pass

VARIABLES
  rest,    \* open handle -> bytes still to be read
  answer   \* the last call, its result, and the data it delivered

vars == <<rest, answer>>

File == 0 .. FileCount - 1

Answer(call, result, data) ==
  answer' = [call |-> call, result |-> result, data |-> data]
Fail(call, error) == Answer(call, error, <<>>) /\ UNCHANGED rest

Init == rest = <<>> /\ answer = [call |-> <<>>, result |-> 0, data |-> <<>>]

Open(name) == \E f \in File, h \in Handle \ DOMAIN rest :
  /\ FileName[f] = name
  /\ rest' = [x \in DOMAIN rest \cup {h} |-> IF x = h THEN Content[f] ELSE rest[x]]
  /\ Answer(<<"open", name>>, h, <<>>)

OpenFails(name) ==
  \/ (\A f \in File : FileName[f] # name) /\ Fail(<<"open", name>>, -6)
  \/ Handle \subseteq DOMAIN rest /\ Fail(<<"open", name>>, -8)
  \/ Fail(<<"open for writing", name>>, -3)

\* Up to len bytes; fewer only when the file ends.
Read(h, len) == \E n \in 0 .. Len(rest[h]) :
  /\ n = len \/ (n < len /\ n = Len(rest[h]))
  /\ Answer(<<"read", h, len>>, n, SubSeq(rest[h], 1, n))
  /\ rest' = [rest EXCEPT ![h] = SubSeq(@, n + 1, Len(@))]

Close(h) ==
  /\ rest' = [x \in DOMAIN rest \ {h} |-> rest[x]]
  /\ Answer(<<"close", h>>, 0, <<>>)

BadHandle(h, len) ==
  \/ Fail(<<"read", h, len>>, -7)
  \/ Fail(<<"close", h>>, -7)

\* The first n files, with their sizes.
List(n) ==
  /\ Answer(<<"list">>, n, [i \in 1 .. n |-> [name |-> FileName[i - 1], size |-> Len(Content[i - 1])]])
  /\ UNCHANGED rest

Next ==
  \/ \E name \in Name : Open(name) \/ OpenFails(name)
  \/ \E h \in DOMAIN rest, len \in Length : Read(h, len) \/ Close(h)
  \/ \E h \in Number \ DOMAIN rest, len \in Length : BadHandle(h, len)
  \/ \E n \in 0 .. FileCount : List(n)
  \/ Fail(<<"list">>, -6)

Spec == Init /\ [][Next]_vars

=============================================================================
