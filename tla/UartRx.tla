-------------------------------- MODULE UartRx --------------------------------
(***************************************************************************)
(* The receive path of the UART driver: the wire fills the hardware FIFO,  *)
(* the RX interrupt handler drains it into the ring buffer, and a task     *)
(* takes bytes out with uart_getc.                                         *)
(*                                                                         *)
(* The handler runs with CPSR.I set, so no task code interleaves with it,  *)
(* but the wire does, at every turn of its loop.  uart_getc and            *)
(* uart_rx_clear mask interrupts and are one step; uart_rx_available does  *)
(* not, and an interrupt may fall between its two loads.                   *)
(***************************************************************************)
EXTENDS Integers, Sequences

CONSTANTS
  Byte,      \* values of a received character
  NoByte,    \* the -1 of uart_getc
  Size,      \* UART_RX_BUFFER_SIZE
  FifoSize,  \* depth of the receive FIFO
  Burst      \* bytes the wire may deliver during one run of the handler

ASSUME UartAssumption ==
  /\ Byte # {}
  /\ NoByte \notin Byte
  /\ Size \in Nat /\ Size >= 2
  /\ FifoSize \in Nat \ {0}
  /\ Burst \in Nat

VARIABLES
  data, head, tail,   \* struct uart_rx_buffer
  fifo,               \* received frames, each with its error bits (PE, FE, BI)
  overrun,            \* LSR_OE
  in_irq,             \* uart_rx_irq_handler is running
  burst,              \* bytes received since it was entered
  reader,             \* "idle", or "available" between the two loads
  seen,               \* local head of uart_rx_available
  reply               \* last result of uart_getc

ring == <<data, head, tail>>
line == <<fifo, overrun, burst>>
task == <<reader, seen, reply>>
vars == <<ring, line, in_irq, task>>

Index == 0 .. Size - 1
Frame == [byte : Byte, bad : BOOLEAN]

\* rx_buffer lives in .bss, whatever byte zero is.
Init ==
  /\ data \in {[i \in Index |-> b] : b \in Byte}
  /\ head = 0
  /\ tail = 0
  /\ fifo = <<>>
  /\ overrun = FALSE
  /\ in_irq = FALSE
  /\ burst = 0
  /\ reader = "idle"
  /\ seen = 0
  /\ reply = NoByte

-----------------------------------------------------------------------------
(* The wire and the FIFO                                                   *)

\* A full FIFO keeps its frames, loses the new one and raises LSR_OE.
Receive(b, bad) ==
  /\ in_irq => burst < Burst
  /\ burst' = IF in_irq THEN burst + 1 ELSE 0
  /\ IF Len(fifo) < FifoSize
     THEN fifo' = Append(fifo, [byte |-> b, bad |-> bad]) /\ UNCHANGED overrun
     ELSE overrun' = TRUE /\ UNCHANGED fifo
  /\ UNCHANGED <<ring, in_irq, task>>

-----------------------------------------------------------------------------
(* uart_rx_irq_handler                                                     *)

\* The line is up while the FIFO holds a frame.  For interrupt type 6 the
\* handler reads LSR once before its loop, which clears LSR_OE.
uart_rx_irq_handler(it_type) ==
  /\ ~ in_irq
  /\ fifo # <<>>
  /\ in_irq' = TRUE
  /\ burst' = 0
  /\ overrun' = (overrun /\ it_type # 6)
  /\ UNCHANGED <<ring, fifo, task>>

LineError == overrun \/ (fifo # <<>> /\ Head(fifo).bad)

MutDiscard ==
  /\ in_irq
  /\ fifo # <<>>
  /\ LineError
  /\ overrun' = FALSE
  /\ UNCHANGED <<ring, fifo, burst, in_irq, task>>

\* LSR_ERROR_MASK: one character is read and thrown away.
Discard ==
  /\ in_irq
  /\ fifo # <<>>
  /\ LineError
  /\ fifo' = Tail(fifo)
  /\ overrun' = FALSE
  /\ UNCHANGED <<ring, burst, in_irq, task>>

MutNextIndex(i) == i + 1
NextIndex(i) == (i + 1) % Size

MutFullNever == FALSE
MutFullEarly == NextIndex(NextIndex(head)) = tail
Full == NextIndex(head) = tail

MutStore(ch) ==
  /\ data' = [data EXCEPT ![NextIndex(head)] = ch]
  /\ head' = NextIndex(head)
Store(ch) ==
  /\ data' = [data EXCEPT ![head] = ch]
  /\ head' = NextIndex(head)

\* A good character goes into the ring, or is dropped when it is full.
Accept ==
  /\ in_irq
  /\ fifo # <<>>
  /\ ~ LineError
  /\ fifo' = Tail(fifo)
  /\ IF Full THEN UNCHANGED <<data, head>> ELSE Store(Head(fifo).byte)
  /\ UNCHANGED <<tail, overrun, burst, in_irq, task>>

HandlerReturn ==
  /\ in_irq
  /\ fifo = <<>>
  /\ in_irq' = FALSE
  /\ burst' = 0
  /\ UNCHANGED <<ring, fifo, overrun, task>>

-----------------------------------------------------------------------------
(* The reader                                                              *)

MutEmpty == head = tail \/ NextIndex(tail) = head
Empty == head = tail

uart_getc ==
  /\ ~ in_irq
  /\ reader = "idle"
  /\ IF Empty
     THEN reply' = NoByte /\ UNCHANGED tail
     ELSE reply' = data[tail] /\ tail' = NextIndex(tail)
  /\ UNCHANGED <<data, head, line, in_irq, reader, seen>>

uart_rx_clear ==
  /\ ~ in_irq
  /\ reader = "idle"
  /\ head' = 0
  /\ tail' = 0
  /\ UNCHANGED <<data, line, in_irq, task>>

uart_rx_available ==
  /\ ~ in_irq
  /\ reader = "idle"
  /\ seen' = head
  /\ reader' = "available"
  /\ UNCHANGED <<ring, line, in_irq, reply>>

\* The number of bytes from index t up to index h.
Distance(h, t) == IF h >= t THEN h - t ELSE Size - t + h

\* The second load, of tail; the result is Distance(seen, tail).
AvailableReturn ==
  /\ ~ in_irq
  /\ reader = "available"
  /\ seen' = 0
  /\ reader' = "idle"
  /\ UNCHANGED <<ring, line, in_irq, reply>>

-----------------------------------------------------------------------------
Handler == (\E it_type \in {2, 6} : uart_rx_irq_handler(it_type))
             \/ Discard \/ Accept \/ HandlerReturn

Next ==
  \/ \E b \in Byte, bad \in BOOLEAN : Receive(b, bad)
  \/ Handler
  \/ uart_getc \/ uart_rx_clear \/ uart_rx_available \/ AvailableReturn

Spec == Init /\ [][Next]_vars

\* A raised line is taken and the handler runs; the task finishes its call
\* and, as the shell does, keeps polling uart_getc.
Fairness ==
  /\ WF_vars(Handler)
  /\ SF_vars(uart_getc)
  /\ SF_vars(AvailableReturn)

FairSpec == Spec /\ Fairness

-----------------------------------------------------------------------------
(* Properties                                                              *)

TypeOK ==
  /\ data \in [Index -> Byte]
  /\ head \in Index
  /\ tail \in Index
  /\ fifo \in Seq(Frame)
  /\ overrun \in BOOLEAN
  /\ in_irq \in BOOLEAN
  /\ burst \in Nat
  /\ reader \in {"idle", "available"}
  /\ seen \in Index
  /\ reply \in Byte \cup {NoByte}

\* The unread bytes, oldest first.
Place(t, k) == (t + k - 1) % Size
Contents(d, h, t) == [k \in 1 .. Distance(h, t) |-> d[Place(t, k)]]
Unread == Contents(data, head, tail)

\* The good frames pass through a first-in first-out queue of Size - 1 bytes to
\* the reader, however interrupts fall and however often the indices wrap.
Q == INSTANCE RxQueue WITH Capacity <- Size - 1, wire <- fifo, queue <- Unread
ImplementsQueue == Q!Spec

\* uart_rx_available never promises more bytes than uart_getc will return,
\* even when bytes arrive between its two loads.
AvailableIsReadable ==
  reader = "available" => Distance(seen, tail) <= Distance(head, tail)

\* A character without error bits is lost only when the ring is full or the
\* FIFO has overrun.
LossOnlyWhenFull ==
  [][fifo # <<>> /\ fifo' = Tail(fifo) /\ ~ Head(fifo).bad /\ ~ overrun =>
       \/ Unread' = Append(Unread, Head(fifo).byte)
       \/ Len(Unread) = Size - 1]_vars

\* A polling reader takes every stored byte, unless the ring is cleared: no test
\* overlooks a byte, and errors never keep the handler in its loop.
BytesAreRead ==
  \A i \in Index : (tail = i /\ head # i) ~> (tail # i \/ head = i)

=============================================================================
