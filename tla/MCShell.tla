-------------------------------- MODULE MCShell -------------------------------
(***************************************************************************)
(* A line of up to five characters from two letters and the blank, two           *)
(* arguments and buffers of two: every line that fits is typed, edited and *)
(* executed.  The command names overlap with each other and with the names *)
(* of the files.                                                           *)
(***************************************************************************)
EXTENDS Shell

c == <<"c">>
e == <<"e">>

MCCommands ==
  << <<c, "cat">>, <<e, "exec">>, <<c \o e, "echo">>, <<e \o c, "ls">>, <<c \o c, "mem">>,
     <<e \o e, "ps">>, <<c \o c \o c, "inform">>, <<e \o e \o e, "clear">> >>

MCTasks ==
  { <<>>,
    << [id |-> 0, name |-> e \o c, state |-> 1], [id |-> 10, name |-> e \o c \o e \o e, state |-> 0],
       [id |-> 204, name |-> <<>>, state |-> 7] >> }
MCWidths == <<2, 3, 2>>

MCName == UNION {[1 .. n -> Letter] : n \in 1 .. LineSize}
MCByte == {"c", "e", "NL", "NUL"}
MCFileName == [f \in Files |-> <<c, e>>[f + 1]]
MCContent == [f \in Files |-> <<<<"c", "NL", "e", "e", "c">>, <<"e", "NUL", "c">>>>[f + 1]]

=============================================================================
