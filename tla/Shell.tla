-------------------------------- MODULE Shell ---------------------------------
(***************************************************************************)
(* The interactive shell: its line editor, the in-place split of a line    *)
(* into arguments, the commands, and the formatted output through          *)
(* sys_write to a terminal.  It is the user of the file calls (Files) and  *)
(* starts applications, which come back to its entry point when they exit. *)
(*                                                                         *)
(* One step per key and per system call that changes more than the screen. *)
(* A poll without a key, answered by sys_yield, changes nothing here.      *)
(* The wording of a message is one character, "msg".                       *)
(***************************************************************************)
EXTENDS Files, SequencesExt

CONSTANTS
  Letter,     \* printable characters other than the blank
  LineSize,   \* SHELL_LINE_BUFFER_SIZE
  MaxArgs,    \* SHELL_MAX_ARGS
  PutsSize,   \* the staging buffer of shell_puts
  MaxWrite,   \* the longest sys_write the kernel accepts
  CatSize,    \* the buffer of cmd_cat, its last byte for the terminator
  Commands,   \* cmd_table: <<name, handler>> pairs in order
  Number,     \* values that mem has to print
  Tasks,      \* the lists of tasks that ps may be given
  Widths      \* of the three columns of ps

Blank == " "
Printable == Letter \cup {Blank}
Key == Printable \cup {"CR", "NL", "BS", "TAB"}
Prompt == <<">", Blank>>
MaxDigits == 10
Tens == <<1, 10, 100, 1000, 10000, 100000, 1000000, 10000000, 100000000, 1000000000>>
UInt == {n \in Nat : n \div Tens[MaxDigits] < 10}   \* 32 bits have no more digits

\* Characters are bytes, and none of the printable ones controls the terminal;
\* the names of files and tasks are strings of them.
ASSUME ShellAssumption ==
  /\ LineSize \in Nat \ {0, 1} /\ MaxArgs \in Nat \ {0}
  /\ MaxWrite \in Nat /\ PutsSize \in 1 .. MaxWrite /\ CatSize \in Nat \ {0, 1}
  /\ Letter \cap {Blank, "NUL", "CR", "NL", "BS", "TAB", "CLS", "BEL"} = {}
  /\ \A f \in Files : FileName[f] \in Seq(Printable)
  /\ Number \subseteq UInt /\ Widths \in [1 .. 3 -> Nat]
  /\ Tasks \subseteq Seq([id : UInt, name : Seq(Printable), state : UInt])

VARIABLES
  pc,       \* "start", "key", "split", "cat", "end", or "app": another program runs
  data, pos,        \* line_buffer
  p, argv,          \* execute_command: where it stands, the arguments found
  fd, buffer,       \* cmd_cat
  fd_table,
  screen,           \* the last line of the terminal and its cursor
  \* for the properties only:
  edit,             \* what the user has typed and not erased
  held,             \* the descriptor table when the shell started
  out, expected     \* what the command has sent, and should send

line == <<data, pos>>
command == <<p, argv, fd, buffer>>
vars == <<pc, line, command, fd_table, screen, edit, held, out, expected>>

Cell == 0 .. LineSize - 1

-----------------------------------------------------------------------------
(* Terminal and output                                                     *)

\* A carriage return, a line feed and a backspace move the cursor; "CLS" stands
\* for the escape sequence of cmd_clear.
Show(s, c) ==
  CASE c = "CR" -> [s EXCEPT !.col = 0]
    [] c = "NL" -> [s EXCEPT !.cells = [i \in 1 .. s.col |-> Blank]]
    [] c = "BS" -> [s EXCEPT !.col = IF @ = 0 THEN 0 ELSE @ - 1]
    [] c = "CLS" -> [cells |-> <<>>, col |-> 0]
    [] c = "BEL" -> s
    [] OTHER -> [cells |-> IF s.col < Len(s.cells) THEN [s.cells EXCEPT ![s.col + 1] = c]
                           ELSE Append(s.cells, c),
                 col |-> s.col + 1]

\* (The only element of a singleton: TLC then computes each value once.)
The(S) == CHOOSE x \in S : TRUE
Screens(s, chars) ==
  LET after[i \in 0 .. Len(chars)] ==
        IF i = 0 THEN s ELSE The({Show(t, chars[i]) : t \in {after[i - 1]}})
  IN  after
Displayed(s, chars) == The({Screens(s, sent)[Len(sent)] : sent \in {chars}})

\* sys_write to the UART: a carriage return before each newline; nothing at all
\* when the length is refused.
uart_putc(c) == IF c = "NL" THEN <<"CR", "NL">> ELSE <<c>>

Sent(chars) ==
  IF Len(chars) > MaxWrite THEN <<>>
  ELSE FlattenSeq([i \in DOMAIN chars |-> uart_putc(chars[i])])

AllSent(writes) == FlattenSeq([i \in DOMAIN writes |-> Sent(writes[i])])

\* shell_puts collects the string and hands it over when the staging buffer is
\* full, before a newline, and at the end.
Flushed(a) == IF a.buf = <<>> THEN a ELSE [buf |-> <<>>, writes |-> Append(a.writes, a.buf)]

PutsChar(a, c) ==
  LET b == IF c = "NL" THEN [Flushed(a) EXCEPT !.writes = Append(@, <<"CR">>)] ELSE a
      full == [b EXCEPT !.buf = Append(@, c)]
  IN  IF Len(full.buf) >= PutsSize THEN Flushed(full) ELSE full

Collected(s) ==
  LET after[i \in 0 .. Len(s)] ==
        IF i = 0 THEN [buf |-> <<>>, writes |-> <<>>]
        ELSE The({PutsChar(a, s[i]) : a \in {after[i - 1]}})
  IN  after
shell_puts(s) == The({AllSent(Flushed(Collected(str)[Len(str)]).writes) : str \in {s}})

shell_putc(c) == uart_putc(c)

\* The fixed text of a printf goes out character by character.
Text(s) == FlattenSeq([i \in DOMAIN s |-> IF s[i] = "NL" THEN <<"CR", "CR", "NL">> ELSE <<s[i]>>])

\* uint_to_buf: what k rounds of its loop leave of num; a digit of each round,
\* the lowest first, then reversed.
Digit == <<"0", "1", "2", "3", "4", "5", "6", "7", "8", "9">>

Quotients(num) ==
  LET after[k \in 0 .. MaxDigits] == IF k = 0 THEN num ELSE after[k - 1] \div 10 IN after
uint_to_buf(num) ==
  LET left == Quotients(num)
      tmp == [k \in 1 .. Lowest({j \in DOMAIN left : left[j] = 0}) |->
                Digit[(left[k - 1] % 10) + 1]]
  IN  IF num = 0 THEN <<"0">> ELSE Reverse(tmp)

pad_spaces(count) == [i \in 1 .. count |-> Blank]

\* %s and %u of printf, and with a width and '-' for left-aligned.
Field(chars, len, width, left) ==
  LET pad == pad_spaces(IF width > len THEN width - len ELSE 0)
  IN  IF left THEN chars \o pad ELSE pad \o chars

FormatS(s, width, left) == Field(shell_puts(s), Len(s), width, left)
FormatU(n, width, left) ==
  LET nbuf == uint_to_buf(n) IN Field(Text(nbuf), Len(nbuf), width, left)

PlainS(s) == FormatS(s, 0, FALSE)
PlainU(n) == FormatU(n, 0, FALSE)

-----------------------------------------------------------------------------
(* The line                                                                *)

\* The C string at position i of memory d.
End(d, i) == Lowest({k \in DOMAIN d : k >= i /\ d[k] = "NUL"})
String(d, i) == [k \in 1 .. End(d, i) - i |-> d[i + k - 1]]

MutLineBufferAdd(c) ==
  /\ pos < LineSize - 1
  /\ data' = [data EXCEPT ![pos] = c]
  /\ pos' = pos + 1
MutNoRoom(c) ==
  /\ pos < LineSize
  /\ data' = [data EXCEPT ![pos] = c, ![pos + 1] = "NUL"]
  /\ pos' = pos + 1
line_buffer_add(c) ==
  /\ pos < LineSize - 1
  /\ data' = [data EXCEPT ![pos] = c, ![pos + 1] = "NUL"]
  /\ pos' = pos + 1

line_buffer_backspace ==
  /\ pos > 0
  /\ data' = [data EXCEPT ![pos - 1] = "NUL"]
  /\ pos' = pos - 1

LineBufferInit == data' = [data EXCEPT ![0] = "NUL"] /\ pos' = 0

-----------------------------------------------------------------------------
(* Main loop                                                               *)

Init ==
  /\ pc = "start"
  /\ data = [i \in Cell |-> "NUL"] /\ pos = 0
  /\ p = 0 /\ argv = <<>> /\ fd = 0 /\ buffer = [i \in 0 .. CatSize - 1 |-> "NUL"]
  /\ fd_table = [x \in Fd |-> Unused]
  /\ held = fd_table
  /\ screen = [cells |-> <<>>, col |-> 0]
  /\ edit = <<>> /\ out = <<>> /\ expected = <<>>

\* crt0 clears .bss; then main, up to its first prompt.
Start ==
  /\ pc = "start"
  /\ data' = [i \in Cell |-> "NUL"] /\ pos' = 0
  /\ edit' = <<>>
  /\ held' = fd_table
  /\ screen' = Displayed(screen, Text(<<"NL", "msg", "NL">> \o Prompt))
  /\ pc' = "key"
  /\ UNCHANGED <<command, fd_table, out, expected>>

Typing(chars) ==
  /\ screen' = Displayed(screen, chars)
  /\ UNCHANGED <<pc, command, fd_table, held, out, expected>>

MutErased == <<"BS", Blank>>
Erased == <<"BS", Blank, "BS">>

Backspace ==
  /\ pc = "key"
  /\ line_buffer_backspace
  /\ edit' = Front(edit)
  /\ Typing(Text(Erased))

Echo(c) ==
  /\ pc = "key"
  /\ line_buffer_add(c)
  /\ edit' = Append(edit, c)
  /\ Typing(shell_putc(c))

\* The line is full.
Beep ==
  /\ pc = "key"
  /\ pos >= LineSize - 1
  /\ Typing(shell_putc("BEL"))
  /\ UNCHANGED <<line, edit>>

\* A backspace on an empty line, or a key that is none of the others.
Ignore(c) ==
  /\ pc = "key"
  /\ \/ c = "BS" /\ pos = 0
     \/ c = "TAB"
  /\ Typing(<<>>)
  /\ UNCHANGED <<line, edit>>

\* The first position from i on that holds no blank, and the end of a word there.
SkipBlanks(d, i) == Lowest({k \in Cell : k >= i /\ d[k] # Blank})
WordEnd(d, i) == Lowest({k \in Cell : k >= i /\ d[k] \in {"NUL", Blank}})

\* The newline, and execute_command up to its loop.
Enter ==
  /\ pc = "key"
  /\ screen' = Displayed(screen, shell_putc("NL"))
  /\ p' = SkipBlanks(data, 0)
  /\ argv' = <<>>
  /\ out' = <<>> /\ expected' = <<>>
  /\ pc' = IF data[p'] = "NUL" THEN "end" ELSE "split"
  /\ UNCHANGED <<line, fd, buffer, fd_table, edit, held>>

PressKey(c) ==
  \/ c \in {"CR", "NL"} /\ Enter
  \/ c = "BS" /\ Backspace
  \/ c \in Printable /\ (Echo(c) \/ Beep)
  \/ Ignore(c)

\* One round of the loop that splits the line: the blank behind a word becomes
\* its terminator.
MutSplitting == data[p] # "NUL" /\ Len(argv) <= MaxArgs
Splitting == data[p] # "NUL" /\ Len(argv) < MaxArgs

Word ==
  /\ pc = "split" /\ Splitting
  /\ LET e == WordEnd(data, p) IN
       /\ argv' = Append(argv, p)
       /\ data' = [data EXCEPT ![e] = "NUL"]
       /\ p' = IF data[e] = "NUL" THEN e ELSE SkipBlanks(data', e + 1)
  /\ UNCHANGED <<pc, pos, fd, buffer, fd_table, screen, edit, held, out, expected>>

\* Back in main: an empty line buffer and a new prompt.
NextPrompt ==
  /\ pc = "end"
  /\ LineBufferInit
  /\ edit' = <<>>
  /\ screen' = Displayed(screen, Text(Prompt))
  /\ pc' = "key"
  /\ p' = 0 /\ argv' = <<>> /\ fd' = 0 /\ buffer' = [i \in DOMAIN buffer |-> "NUL"]
  /\ out' = <<>> /\ expected' = <<>>
  /\ UNCHANGED <<fd_table, held>>

-----------------------------------------------------------------------------
(* What the user should see, from what has been typed                      *)

\* The words of a line: where a character that is no blank follows none.
Starts(s) == {i \in DOMAIN s : s[i] # Blank /\ (i = 1 \/ s[i - 1] = Blank)}
RunAt(s, i) ==
  LET rest == {k \in DOMAIN s : k > i /\ s[k] = Blank}
  IN  SubSeq(s, i, IF rest = {} THEN Len(s) ELSE Lowest(rest) - 1)
Nth(s, n) == CHOOSE i \in Starts(s) : Cardinality({k \in Starts(s) : k < i}) = n - 1
AllWords(s) == [n \in 1 .. Cardinality(Starts(s)) |-> RunAt(s, Nth(s, n))]
Words(s) == SubSeq(AllWords(s), 1, IF Len(AllWords(s)) < MaxArgs THEN Len(AllWords(s)) ELSE MaxArgs)

\* The decimal digits of n.
Decimal(n) ==
  LET len == Lowest({k \in 1 .. MaxDigits : n \div Tens[k] < 10})
  IN  [i \in 1 .. len |-> Digit[((n \div Tens[(len - i) + 1]) % 10) + 1]]

\* What was sent, without the carriage returns.
Seen(chars) ==
  FlattenSeq([i \in DOMAIN chars |-> IF chars[i] = "CR" THEN <<>> ELSE <<chars[i]>>])

\* Text in columns: the next begins where the width says unless an entry is longer.
Column(s, w) == [i \in 1 .. (IF Len(s) < w THEN w ELSE Len(s)) |->
                   IF i <= Len(s) THEN s[i] ELSE Blank]
Table(rows) ==
  FlattenSeq([r \in DOMAIN rows |->
                FlattenSeq([k \in 1 .. 3 |-> Column(rows[r][k], Widths[k])]) \o <<"NL">>])

Joined(words) == FlattenSeq([i \in DOMAIN words |-> words[i] \o <<Blank>>])

-----------------------------------------------------------------------------
(* Commands                                                                *)

Arg(i) == String(data, argv[i])
PathOf(s) == [slash |-> FALSE, name |-> s]

\* Linear search of cmd_table with strcmp.
Handler(s) ==
  LET found == {i \in DOMAIN Commands : Commands[i][1] = s}
  IN  IF found = {} THEN "unknown" ELSE Commands[Lowest(found)][2]

\* Dispatch to a handler; cmd is the first argument.
Dispatch(handler) ==
  /\ pc = "split" /\ ~ Splitting
  /\ Handler(Arg(1)) = handler

Emit(chars) ==
  \E sent \in {chars} : out' = out \o sent /\ screen' = Displayed(screen, sent)

\* A command that only prints.
Report(chars, wanted) ==
  /\ Emit(chars)
  /\ expected' = wanted
  /\ pc' = "end"
  /\ UNCHANGED <<line, command, fd_table, edit, held>>

Unknown ==
  /\ Dispatch("unknown")
  /\ Report(Text(<<"msg">>) \o PlainS(Arg(1)) \o Text(<<"NL", "msg", "NL">>),
            <<"msg">> \o AllWords(edit)[1] \o <<"NL", "msg", "NL">>)

\* help and info
Inform ==
  /\ Dispatch("inform")
  /\ Report(Text(<<"NL", "msg", "NL">>), <<"NL", "msg", "NL">>)

cmd_clear ==
  /\ Dispatch("clear")
  /\ Report(Text(<<"CLS">>), <<"CLS">>)

cmd_echo ==
  /\ Dispatch("echo")
  /\ Report(FlattenSeq([i \in 1 .. Len(argv) - 1 |-> PlainS(Arg(i + 1)) \o Text(<<Blank>>)])
              \o Text(<<"NL">>),
            Joined(Tail(Words(edit))) \o <<"NL">>)

\* One number stands for the five of mem_info_t.
cmd_mem ==
  /\ Dispatch("mem")
  /\ \E n \in Number :
       Report(Text(<<"NL", "msg">>) \o PlainU(n) \o Text(<<"msg", "NL", "NL">>),
              <<"NL", "msg">> \o Decimal(n) \o <<"msg", "NL", "NL">>)

\* The title, a rule, and a row for each task sys_get_tasks has copied.
StateName(state) == IF state \in 0 .. 3 THEN <<"READY", "RUNNING", "BLOCKED", "ZOMBIE">>[state + 1]
                    ELSE "UNKNOWN"
Row(a, b, c) ==
  a \o FormatS(b, Widths[2], TRUE) \o FormatS(c, Widths[3], TRUE) \o Text(<<"NL">>)

cmd_ps ==
  /\ Dispatch("ps")
  /\ \E tasks \in Tasks :
       LET title == Row(FormatS(<<"msg">>, Widths[1], TRUE), <<"msg">>, <<"msg">>)
           row(t) == Row(FormatU(t.id, Widths[1], TRUE), t.name, <<StateName(t.state)>>)
       IN  Report(Text(<<"NL">>) \o title \o title
                    \o FlattenSeq([i \in DOMAIN tasks |-> row(tasks[i])]) \o Text(<<"NL">>),
                  <<"NL">> \o Table([i \in 1 .. Len(tasks) + 2 |->
                     IF i <= 2 THEN << <<"msg">>, <<"msg">>, <<"msg">> >>
                     ELSE LET t == tasks[i - 2]
                          IN  <<Decimal(t.id), t.name, <<StateName(t.state)>> >>]) \o <<"NL">>)

\* sys_listdir lists the root and nothing else, at most 16 files.
Root == <<"/">>
cmd_ls ==
  LET path == IF Len(argv) > 1 THEN Arg(2) ELSE Root
      files == Listing(16)
      row(i) == Text(<<Blank, Blank>>) \o PlainS(files[i].name) \o Text(<<"NL">>)
  IN
  /\ Dispatch("ls")
  /\ IF path = Root
     THEN Report(FlattenSeq([i \in DOMAIN files |-> row(i)]),
                 FlattenSeq([i \in 1 .. Len(files) |->
                               <<Blank, Blank>> \o FileName[i - 1] \o <<"NL">>]))
     ELSE Report(Text(<<"msg", "NL">>), <<"msg", "NL">>)

\* No file named: the usage of cat and exec.
Usage ==
  /\ Dispatch("cat") \/ Dispatch("exec")
  /\ Len(argv) < 2
  /\ Report(Text(<<"msg", "NL", "msg", "NL">>), <<"msg", "NL", "msg", "NL">>)

Named2 == PathOf(Arg(2))

CatOpenFails ==
  /\ Dispatch("cat") /\ Len(argv) >= 2
  /\ OpenResult(fd_table, Named2, O_RDONLY) < 0
  /\ Report(Text(<<"msg", "NL">>), <<"msg", "NL">>)

CatOpen ==
  /\ Dispatch("cat") /\ Len(argv) >= 2
  /\ fd' = OpenResult(fd_table, Named2, O_RDONLY)
  /\ fd' >= 0
  /\ fd_table' = AfterOpen(fd_table, Named2, O_RDONLY)
  /\ Emit(Text(<<"NL">>))
  /\ expected' = <<"NL">> \o Content[ramfs_lookup(AllWords(edit)[2])] \o <<"NL">>
  /\ pc' = "cat"
  /\ UNCHANGED <<line, p, argv, buffer, edit, held>>

\* The condition of the read loop.
MutMore(bytes) == Len(bytes) >= 0
More(bytes) == Len(bytes) > 0

\* A read at the start of the buffer, and the terminator behind it.
Filled(b, bytes) ==
  [i \in DOMAIN b |-> IF i < Len(bytes) THEN bytes[i + 1] ELSE b[i]]
MutTerminated(b, n) == b
Terminated(b, n) == [b EXCEPT ![n] = "NUL"]

CatRead ==
  /\ pc = "cat"
  /\ LET bytes == DataOf(fd_table, fd, CatSize - 1) IN
       /\ More(bytes)
       /\ fd_table' = Advanced(fd_table, fd, Len(bytes))
       /\ buffer' = Terminated(Filled(buffer, bytes), Len(bytes))
       /\ Emit(PlainS(String(buffer', 0)))
  /\ UNCHANGED <<pc, line, p, argv, fd, edit, held, expected>>

MutCatClosed(t) == t
CatClosed(t) == Closed(t, fd)

CatEnd ==
  /\ pc = "cat"
  /\ ~ More(DataOf(fd_table, fd, CatSize - 1))
  /\ fd_table' = CatClosed(fd_table)
  /\ Emit(Text(<<"NL">>))
  /\ pc' = "end"
  /\ UNCHANGED <<line, command, edit, held, expected>>

\* sys_exec fails, with the memory of the shell intact, or the program runs.
ExecFails ==
  /\ Dispatch("exec") /\ Len(argv) >= 2
  /\ Report(Text(<<"msg">>) \o PlainS(Arg(2)) \o Text(<<"NL", "msg", "NL">>),
            <<"msg">> \o AllWords(edit)[2] \o <<"NL", "msg", "NL">>)

ExecRuns ==
  /\ Dispatch("exec") /\ Len(argv) >= 2
  /\ OpenResult(fd_table, Named2, O_RDONLY) >= 0
  /\ pc' = "app"
  /\ UNCHANGED <<line, command, fd_table, screen, edit, held, out, expected>>

-----------------------------------------------------------------------------
(* The application in the shell's place                                    *)

AppOpens(f) ==
  /\ pc = "app"
  /\ fd_table' = AfterOpen(fd_table, PathOf(FileName[f]), O_RDONLY)
  /\ UNCHANGED <<pc, line, command, screen, edit, held, out, expected>>

AppPrints(c) ==
  /\ pc = "app"
  /\ screen' = Displayed(screen, Sent(<<c>>))
  /\ Len(screen'.cells) <= LineSize
  /\ UNCHANGED <<pc, line, command, fd_table, edit, held, out, expected>>

\* sys_exit puts the image of the shell back and starts it.
AppExits ==
  /\ pc = "app"
  /\ pc' = "start"
  /\ UNCHANGED <<line, command, fd_table, screen, edit, held, out, expected>>

-----------------------------------------------------------------------------

execute_command ==
  \/ Word \/ Unknown \/ Inform \/ cmd_clear \/ cmd_echo \/ cmd_mem \/ cmd_ps \/ cmd_ls
  \/ Usage \/ CatOpenFails \/ CatOpen \/ CatRead \/ CatEnd \/ ExecFails \/ ExecRuns

App == AppExits \/ (\E f \in Files : AppOpens(f)) \/ (\E c \in Letter : AppPrints(c))

Next ==
  \/ Start \/ NextPrompt \/ execute_command \/ App
  \/ \E c \in Key : PressKey(c)

\* The scheduler gives the shell the processor again and again (Scheduler); the
\* user need not type and an application need not end.
Spec == Init /\ [][Next]_vars /\ WF_vars(Start \/ NextPrompt \/ execute_command)

-----------------------------------------------------------------------------
(* Properties                                                              *)

\* Types, and a line that always ends inside its buffer.
TypeOK ==
  /\ pc \in {"start", "key", "split", "cat", "end", "app"}
  /\ data \in [Cell -> Printable \cup {"NUL"}] /\ pos \in Cell
  /\ \E i \in Cell : data[i] = "NUL"
  /\ p \in Cell /\ \A i \in DOMAIN argv : argv[i] \in Cell
  /\ DOMAIN fd_table = Fd /\ fd \in Fd
  /\ screen.col \in 0 .. Len(screen.cells)

\* After any editing, with the buffer full and after commands that cut the line
\* into pieces, the string in the buffer is what was typed and not erased.
LineIsWhatWasTyped == pc = "key" => String(data, 0) = edit /\ Len(edit) = pos

\* The terminal shows the prompt and exactly that line, with the cursor behind
\* it: every echo has gone out, and the prompt stands at the left margin whatever
\* the last command or application left on the screen.
EchoMatches ==
  pc = "key" =>
    LET shown == Prompt \o edit IN
    /\ screen.col = Len(shown)
    /\ SubSeq(screen.cells, 1, Len(shown)) = shown
    /\ \A i \in Len(shown) + 1 .. Len(screen.cells) : screen.cells[i] = Blank

\* The arguments a command gets are the words of the line, in order, at most
\* MaxArgs of them, although they are pointers into the buffer that is being cut.
ArgumentsAreWords ==
  pc = "split" /\ ~ Splitting => [i \in DOMAIN argv |-> Arg(i)] = Words(edit)

\* A command prints what it should: cat the whole file, in pieces of a buffer
\* whose end must be marked each time, echo its arguments, mem its numbers; no
\* piece is longer than the kernel accepts.
\* (A file with a NUL byte in it is not text; %s stops there.  Carriage returns
\* that a file itself holds are not told from those the driver adds.)
CommandsPrint ==
  pc = "end" /\ "NUL" \notin Range(expected) => Seen(out) = Seen(expected)

\* A command gives back its descriptors on every path: at the prompt the table
\* is what it was when the shell started.
PromptHoldsNoFile == pc = "key" => fd_table = held

\* Every command comes back to the prompt, or has become an application.
CommandReturns == pc \notin {"key", "app"} ~> pc \in {"key", "app"}

=============================================================================
