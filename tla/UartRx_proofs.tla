---------------------------- MODULE UartRx_proofs ----------------------------
(***************************************************************************)
(* The receive ring implements a bounded first-in first-out queue, for     *)
(* every ring size, FIFO depth and set of byte values.                     *)
(***************************************************************************)
EXTENDS UartRx, TLAPS

-----------------------------------------------------------------------------
(* Index arithmetic                                                        *)

\* A sum of two indices wraps at most once.
LEMMA ModWrap ==
  ASSUME NEW x \in 0 .. 2 * Size - 1
  PROVE  x % Size = IF x < Size THEN x ELSE x - Size
<1>1. Size \in Nat \ {0}
  BY UartAssumption
<1>2. CASE x < Size
  BY <1>1, <1>2
<1>3. CASE x >= Size
  <2>1. x - Size \in 0 .. Size - 1
    BY <1>1, <1>3
  <2>2. x % Size = (x - Size) % Size
    BY <1>1
  <2> QED BY <1>1, <1>3, <2>1, <2>2
<1> QED BY <1>1, <1>2, <1>3

LEMMA NextIndexFacts ==
  ASSUME NEW i \in Index
  PROVE  /\ NextIndex(i) \in Index
         /\ NextIndex(i) = IF i = Size - 1 THEN 0 ELSE i + 1
<1>1. Size \in Nat \ {0} /\ Size >= 2
  BY UartAssumption
<1> DEFINE x == i + 1
<1>2. x \in 0 .. 2 * Size - 1
  BY <1>1 DEF Index
<1>3. x % Size = IF x < Size THEN x ELSE x - Size
  <2> HIDE DEF x
  <2> QED BY <1>2, ModWrap
<1> QED BY <1>1, <1>3 DEF Index, NextIndex

LEMMA DistanceFacts ==
  ASSUME NEW h \in Index, NEW t \in Index
  PROVE  /\ Distance(h, t) \in Index
         /\ Distance(h, t) = 0 <=> h = t
         /\ NextIndex(h) # t => Distance(NextIndex(h), t) = Distance(h, t) + 1
         /\ NextIndex(h) = t <=> Distance(h, t) = Size - 1
         /\ h # t => Distance(h, NextIndex(t)) = Distance(h, t) - 1
BY NextIndexFacts, UartAssumption DEF Distance, Index

LEMMA PlaceFacts ==
  ASSUME NEW t \in Index, NEW k \in 1 .. Size
  PROVE  /\ Place(t, k) \in Index
         /\ Place(t, k) = IF t + k - 1 < Size THEN t + k - 1 ELSE t + k - 1 - Size
<1>1. Size \in Nat \ {0} /\ t \in 0 .. Size - 1
  BY UartAssumption DEF Index
<1> DEFINE x == t + k - 1
<1>2. x \in 0 .. 2 * Size - 1
  BY <1>1
<1>3. x % Size = IF x < Size THEN x ELSE x - Size
  <2> HIDE DEF x
  <2> QED BY <1>2, ModWrap
<1> QED BY <1>1, <1>2, <1>3 DEF Place, Index

\* The byte after the unread ones goes to head, where none of them lies.
LEMMA HeadIsFree ==
  ASSUME NEW h \in Index, NEW t \in Index
  PROVE  /\ Place(t, Distance(h, t) + 1) = h
         /\ \A k \in 1 .. Distance(h, t) : Place(t, k) # h
<1>1. Size \in Nat
  BY UartAssumption
<1>2. Distance(h, t) \in 0 .. Size - 1
  BY <1>1, DistanceFacts DEF Index
<1>3. \A k \in 1 .. Distance(h, t) + 1 : k \in 1 .. Size
  BY <1>1, <1>2
<1>4. Place(t, Distance(h, t) + 1) = h
  BY <1>1, <1>2, <1>3, PlaceFacts DEF Distance, Index
<1>5. \A k \in 1 .. Distance(h, t) : Place(t, k) # h
  BY <1>1, <1>2, <1>3, PlaceFacts DEF Distance, Index
<1> QED BY <1>4, <1>5

LEMMA ContentsFacts ==
  ASSUME NEW d \in [Index -> Byte], NEW h \in Index, NEW t \in Index
  PROVE  /\ Contents(d, h, t) \in Seq(Byte)
         /\ Len(Contents(d, h, t)) = Distance(h, t)
<1>1. Distance(h, t) \in Nat /\ Distance(h, t) <= Size - 1
  BY DistanceFacts, UartAssumption DEF Index
<1>2. \A k \in 1 .. Distance(h, t) : d[Place(t, k)] \in Byte
  <2>1. \A k \in 1 .. Distance(h, t) : k \in 1 .. Size
    BY <1>1, UartAssumption
  <2> QED BY <2>1, PlaceFacts
<1> QED BY <1>1, <1>2 DEF Contents

-----------------------------------------------------------------------------
(* What the two ends of the ring do to its contents                        *)

\* Storing at head appends.
LEMMA StoreAppends ==
  ASSUME NEW d \in [Index -> Byte], NEW h \in Index, NEW t \in Index,
         NEW b \in Byte, NextIndex(h) # t
  PROVE  Contents([d EXCEPT ![h] = b], NextIndex(h), t) = Append(Contents(d, h, t), b)
<1> DEFINE n == Distance(h, t)
           e == [d EXCEPT ![h] = b]
<1>1. n \in Nat /\ Distance(NextIndex(h), t) = n + 1 /\ n + 1 \in 1 .. Size
  <2>1. n \in Index /\ Distance(NextIndex(h), t) = n + 1
    BY DistanceFacts
  <2> QED BY <2>1, UartAssumption DEF Index
<1>2. \A k \in 1 .. n : Place(t, k) \in Index /\ Place(t, k) # h
  <2>1. \A k \in 1 .. n : k \in 1 .. Size
    BY <1>1, UartAssumption
  <2> QED BY <2>1, HeadIsFree, PlaceFacts
<1>3. Place(t, n + 1) = h
  BY HeadIsFree
<1>4. \A k \in 1 .. n : e[Place(t, k)] = d[Place(t, k)]
  BY <1>2
<1>5. e[Place(t, n + 1)] = b
  BY <1>3
<1> HIDE DEF n, e
<1>6. Contents(e, NextIndex(h), t) = [k \in 1 .. n + 1 |-> e[Place(t, k)]]
  BY <1>1 DEF Contents
<1>7. Contents(d, h, t) = [k \in 1 .. n |-> d[Place(t, k)]]
  BY DEF Contents, n
<1>8. \A k \in 1 .. n : d[Place(t, k)] \in Byte
  BY <1>2
<1>9. Contents(e, NextIndex(h), t) = Append(Contents(d, h, t), b)
  BY <1>1, <1>4, <1>5, <1>6, <1>7, <1>8
<1> QED BY <1>9 DEF e

\* Taking at tail removes the head of the queue.
LEMMA TakeRemoves ==
  ASSUME NEW d \in [Index -> Byte], NEW h \in Index, NEW t \in Index, h # t
  PROVE  /\ Contents(d, h, t) # <<>>
         /\ d[t] = Head(Contents(d, h, t))
         /\ Contents(d, h, NextIndex(t)) = Tail(Contents(d, h, t))
<1> DEFINE n == Distance(h, t)
<1>1. /\ n \in 1 .. Size - 1
      /\ Distance(h, NextIndex(t)) = n - 1
      /\ NextIndex(t) \in Index
  <2>1. n \in Index /\ n # 0 /\ Distance(h, NextIndex(t)) = n - 1
    BY DistanceFacts
  <2> QED BY <2>1, NextIndexFacts, UartAssumption DEF Index
<1>2. Place(t, 1) = t
  BY PlaceFacts, UartAssumption DEF Index
<1>3. \A k \in 1 .. n - 1 : Place(NextIndex(t), k) = Place(t, k + 1)
  <2> SUFFICES ASSUME NEW k \in 1 .. n - 1
               PROVE  Place(NextIndex(t), k) = Place(t, k + 1)
    OBVIOUS
  <2>1. k \in 1 .. Size - 1 /\ k \in 1 .. Size /\ k + 1 \in 1 .. Size
    BY <1>1, UartAssumption
  <2> DEFINE s == NextIndex(t)
             l == k + 1
  <2>2. s \in Index /\ s = IF t = Size - 1 THEN 0 ELSE t + 1
    BY NextIndexFacts
  <2>3. Place(s, k) = IF s + k - 1 < Size THEN s + k - 1 ELSE s + k - 1 - Size
    BY <2>1, <2>2, PlaceFacts
  <2>4. Place(t, l) = IF t + l - 1 < Size THEN t + l - 1 ELSE t + l - 1 - Size
    BY <2>1, PlaceFacts
  <2> HIDE DEF s
  <2> QED BY <2>1, <2>2, <2>3, <2>4, UartAssumption DEF Index, s
<1> HIDE DEF n
<1>4. Contents(d, h, t) = [k \in 1 .. n |-> d[Place(t, k)]]
  BY DEF Contents, n
<1>5. Contents(d, h, NextIndex(t)) = [k \in 1 .. n - 1 |-> d[Place(NextIndex(t), k)]]
  BY <1>1 DEF Contents
<1>6. Contents(d, h, t) \in Seq(Byte) /\ Len(Contents(d, h, t)) = n
  BY ContentsFacts DEF n
<1>7. Contents(d, h, t) # <<>> /\ d[t] = Head(Contents(d, h, t))
  BY <1>1, <1>2, <1>4, <1>6
<1>8. Contents(d, h, NextIndex(t)) = Tail(Contents(d, h, t))
  BY <1>1, <1>3, <1>4, <1>5, <1>6
<1> QED BY <1>7, <1>8

-----------------------------------------------------------------------------
(* The invariant                                                           *)

\* What the FIFO operations keep.
LEMMA FifoFacts ==
  ASSUME NEW q \in Seq(Frame)
  PROVE  /\ \A f \in Frame : Append(q, f) \in Seq(Frame)
         /\ q # <<>> => Tail(q) \in Seq(Frame) /\ Head(q).byte \in Byte
<1>1. \A f \in Frame : Append(q, f) \in Seq(Frame)
  OBVIOUS
<1>2. q # <<>> => Tail(q) \in Seq(Frame) /\ Head(q) \in Frame
  OBVIOUS
<1> QED BY <1>1, <1>2 DEF Frame

LEMMA TypeInit == Init => TypeOK
<1> SUFFICES ASSUME Init
             PROVE  TypeOK
  OBVIOUS
<1>1. 0 \in Index
  BY UartAssumption DEF Index
<1>2. data \in [Index -> Byte]
  BY DEF Init
<1> QED BY <1>1, <1>2 DEF Init, TypeOK

LEMMA TypeStep == TypeOK /\ [Next]_vars => TypeOK'
<1> SUFFICES ASSUME TypeOK, [Next]_vars
             PROVE  TypeOK'
  OBVIOUS
<1> USE DEF TypeOK, ring, line, task
<1>1. ASSUME NEW b \in Byte, NEW bad \in BOOLEAN, Receive(b, bad)
      PROVE  TypeOK'
  <2>1. [byte |-> b, bad |-> bad] \in Frame
    BY DEF Frame
  <2>2. fifo' \in Seq(Frame)
    BY <1>1, <2>1, FifoFacts DEF Receive
  <2>3. overrun' \in BOOLEAN
    BY <1>1 DEF Receive
  <2> QED BY <1>1, <2>2, <2>3 DEF Receive
<1>2. ASSUME NEW it_type \in {2, 6}, uart_rx_irq_handler(it_type)
      PROVE  TypeOK'
  BY <1>2 DEF uart_rx_irq_handler
<1>3. CASE Discard
  <2>1. fifo' \in Seq(Frame)
    BY <1>3, FifoFacts DEF Discard
  <2>2. overrun' \in BOOLEAN
    BY <1>3 DEF Discard
  <2> QED BY <1>3, <2>1, <2>2 DEF Discard
<1>4. CASE Accept
  <2>1. Head(fifo).byte \in Byte /\ fifo' \in Seq(Frame)
    BY <1>4, FifoFacts DEF Accept
  <2>2. data' \in [Index -> Byte] /\ head' \in Index
    BY <1>4, <2>1, NextIndexFacts DEF Accept, Store
  <2> QED BY <1>4, <2>1, <2>2 DEF Accept
<1>5. CASE HandlerReturn
  BY <1>5 DEF HandlerReturn
<1>6. CASE uart_getc
  BY <1>6, NextIndexFacts DEF uart_getc
<1>7. CASE uart_rx_clear
  BY <1>7, UartAssumption DEF uart_rx_clear, Index
<1>8. CASE uart_rx_available
  BY <1>8 DEF uart_rx_available
<1>9. CASE AvailableReturn
  BY <1>9, UartAssumption DEF AvailableReturn, Index
<1>10. CASE UNCHANGED vars
  BY <1>10 DEF vars
<1> QED
  BY <1>1, <1>2, <1>3, <1>4, <1>5, <1>6, <1>7, <1>8, <1>9, <1>10 DEF Next, Handler

\* Indices stay inside rx_buffer.data and every variable in its range.
THEOREM TypeCorrect == Spec => []TypeOK
<1> QED BY TypeInit, TypeStep, PTL DEF Spec

\* uart_rx_available counts at most the bytes that are there: until its second
\* load only the handler runs, which moves head away from tail.
AvailableInv == TypeOK /\ AvailableIsReadable

LEMMA AvailableStep == AvailableInv /\ [Next]_vars => AvailableInv'
<1> SUFFICES ASSUME AvailableInv, [Next]_vars
             PROVE  AvailableIsReadable'
  BY TypeStep DEF AvailableInv
<1> USE DEF AvailableInv, AvailableIsReadable, ring, line, task
<1>1. CASE Accept
  <2>1. Distance(head, tail) \in Index /\ head \in Index /\ tail \in Index
    BY DistanceFacts DEF TypeOK
  <2>2. ~ Full => Distance(NextIndex(head), tail) = Distance(head, tail) + 1
    BY <2>1, DistanceFacts DEF Full
  <2>3. seen' = seen /\ tail' = tail /\ reader' = reader
    BY <1>1 DEF Accept
  <2>4. Distance(head', tail) \in Nat /\ Distance(head', tail) >= Distance(head, tail)
    BY <1>1, <2>1, <2>2, UartAssumption DEF Accept, Store, Index
  <2>5. Distance(seen, tail) \in Index
    BY DistanceFacts DEF TypeOK
  <2>6. reader = "available" => Distance(seen, tail) <= Distance(head', tail)
    BY <2>1, <2>4, <2>5, UartAssumption DEF Index
  <2>7. Distance(seen', tail') = Distance(seen, tail)
        /\ Distance(head', tail') = Distance(head', tail)
    BY <2>3
  <2> QED BY <2>3, <2>6, <2>7
<1>2. CASE uart_rx_available
  <2>1. Distance(head, tail) \in Index
    BY DistanceFacts DEF TypeOK
  <2> QED BY <1>2, <2>1 DEF uart_rx_available, Index
<1>3. CASE uart_getc \/ uart_rx_clear
  BY <1>3 DEF uart_getc, uart_rx_clear
<1>4. CASE AvailableReturn
  BY <1>4 DEF AvailableReturn
<1>5. CASE (\E b \in Byte, bad \in BOOLEAN : Receive(b, bad)) \/ Discard \/ HandlerReturn
             \/ (\E it_type \in {2, 6} : uart_rx_irq_handler(it_type)) \/ UNCHANGED vars
  BY <1>5 DEF Receive, Discard, HandlerReturn, uart_rx_irq_handler, vars
<1> QED BY <1>1, <1>2, <1>3, <1>4, <1>5 DEF Next, Handler

\* A count once taken stays readable, whatever arrives meanwhile.
THEOREM AvailableTheorem == Spec => []AvailableIsReadable
<1>1. Init => AvailableInv
  BY TypeInit DEF Init, AvailableInv, AvailableIsReadable
<1>2. AvailableInv => AvailableIsReadable
  BY DEF AvailableInv
<1> QED BY <1>1, <1>2, AvailableStep, PTL DEF Spec

-----------------------------------------------------------------------------
(* The refinement                                                          *)

LEMMA QueueInit == Init => Q!Init
<1> SUFFICES ASSUME Init
             PROVE  fifo = <<>> /\ Unread = <<>> /\ reply = NoByte
  BY DEF Q!Init
<1>1. Distance(head, tail) = 0
  BY DEF Init, Distance
<1> QED BY <1>1 DEF Init, Unread, Contents

LEMMA QueueStep ==
  ASSUME TypeOK, [Next]_vars
  PROVE  [Q!Next]_<<fifo, Unread, reply>>
<1>1. /\ data \in [Index -> Byte] /\ head \in Index /\ tail \in Index
      /\ Unread = Contents(data, head, tail)
      /\ Unread' = Contents(data', head', tail')
  BY DEF TypeOK, Unread
<1>2. ASSUME NEW b \in Byte, NEW bad \in BOOLEAN, Receive(b, bad)
      PROVE  Q!Arrive \/ UNCHANGED <<fifo, Unread, reply>>
  <2>1. Unread' = Unread /\ reply' = reply
    BY <1>1, <1>2 DEF Receive, ring, task
  <2>2. [byte |-> b, bad |-> bad] \in Frame
    BY DEF Frame
  <2> QED BY <1>2, <2>1, <2>2 DEF Receive, Q!Arrive
<1>3. CASE Discard \/ (Accept /\ Full)
  <2>1. UNCHANGED <<ring, reply>> /\ fifo # <<>> /\ fifo' = Tail(fifo)
    BY <1>3 DEF Discard, Accept, ring, task
  <2> QED BY <1>1, <2>1 DEF ring, Q!Next, Q!Lose
<1>4. CASE Accept /\ ~ Full
  <2> DEFINE b == Head(fifo).byte
  <2>1. /\ data' = [data EXCEPT ![head] = b] /\ head' = NextIndex(head)
        /\ tail' = tail /\ reply' = reply /\ NextIndex(head) # tail
        /\ fifo # <<>> /\ fifo' = Tail(fifo) /\ ~ Head(fifo).bad
    BY <1>4 DEF Accept, Store, Full, task, LineError
  <2>2. b \in Byte
    BY <2>1, FifoFacts DEF TypeOK
  <2> HIDE DEF b
  <2>3. Unread' = Append(Unread, b)
    BY <1>1, <2>1, <2>2, StoreAppends
  <2>4. Len(Unread) < Size - 1
    <3>1. Distance(head, tail) \in Index /\ Distance(head, tail) # Size - 1
      BY <1>1, <2>1, DistanceFacts
    <3>2. Len(Unread) = Distance(head, tail)
      BY <1>1, ContentsFacts
    <3> QED BY <3>1, <3>2, UartAssumption DEF Index
  <2> QED BY <2>1, <2>3, <2>4 DEF Q!Next, Q!Put, b
<1>5. CASE uart_getc /\ head # tail
  <2>1. /\ data' = data /\ head' = head /\ tail' = NextIndex(tail)
        /\ reply' = data[tail] /\ fifo' = fifo
    BY <1>5 DEF uart_getc, Empty, line
  <2> QED BY <1>1, <1>5, <2>1, TakeRemoves DEF Q!Next, Q!Get
<1>6. CASE uart_getc /\ head = tail
  <2>1. Distance(head, tail) = 0
    BY <1>1, <1>6, DistanceFacts
  <2>2. Unread = <<>>
    BY <2>1 DEF Unread, Contents
  <2>3. UNCHANGED <<ring, fifo>> /\ reply' = NoByte
    BY <1>6 DEF uart_getc, Empty, ring, line
  <2> QED BY <1>1, <2>2, <2>3 DEF ring, Q!Next, Q!GetNothing
<1>7. CASE uart_rx_clear
  <2>1. head' = 0 /\ tail' = 0 /\ reply' = reply /\ fifo' = fifo
    BY <1>7 DEF uart_rx_clear, task, line
  <2>2. Distance(head', tail') = 0
    BY <2>1 DEF Distance
  <2>3. Unread' = <<>>
    BY <1>1, <2>2 DEF Contents
  <2> QED BY <2>1, <2>3 DEF Q!Next, Q!Clear
<1>8. CASE \/ \E it_type \in {2, 6} : uart_rx_irq_handler(it_type)
           \/ HandlerReturn \/ uart_rx_available \/ AvailableReturn \/ UNCHANGED vars
  <2>1. UNCHANGED <<ring, fifo, reply>>
    BY <1>8 DEF uart_rx_irq_handler, HandlerReturn, uart_rx_available, AvailableReturn,
       vars, task, line
  <2> QED BY <1>1, <2>1 DEF ring
<1> QED
  BY <1>2, <1>3, <1>4, <1>5, <1>6, <1>7, <1>8 DEF Next, Handler, Q!Next

\* The driver implements the queue: bytes come out in the order they arrived,
\* each at most once, and a read finds nothing only when nothing is there.
THEOREM Refinement == Spec => ImplementsQueue
<1>1. TypeOK /\ [Next]_vars => [Q!Next]_<<fifo, Unread, reply>>
  BY QueueStep
<1> QED BY <1>1, QueueInit, TypeCorrect, PTL DEF Spec, ImplementsQueue, Q!Spec, Q!vars

-----------------------------------------------------------------------------
(* Losses                                                                  *)

LEMMA TailIsShorter ==
  ASSUME NEW q \in Seq(Frame), q # <<>>
  PROVE  Tail(q) # q /\ \A f \in Frame : Tail(q) # Append(q, f)
<1>1. PICK n \in Nat : n = Len(q) /\ Len(Tail(q)) = n - 1
  OBVIOUS
<1>2. \A f \in Frame : Len(Append(q, f)) = n + 1
  BY <1>1
<1> QED BY <1>1, <1>2

\* Only the two ways through the handler's loop take a frame out of the FIFO.
LEMMA TakenByHandler ==
  ASSUME TypeOK, [Next]_vars, fifo # <<>>, fifo' = Tail(fifo)
  PROVE  Discard \/ Accept
<1>1. fifo' # fifo /\ \A f \in Frame : fifo' # Append(fifo, f)
  BY TailIsShorter DEF TypeOK
<1>2. ASSUME NEW b \in Byte, NEW bad \in BOOLEAN, Receive(b, bad)
      PROVE  FALSE
  <2>1. [byte |-> b, bad |-> bad] \in Frame
    BY DEF Frame
  <2> QED BY <1>1, <1>2, <2>1 DEF Receive
<1>3. CASE \/ \E it_type \in {2, 6} : uart_rx_irq_handler(it_type)
           \/ HandlerReturn \/ uart_getc \/ uart_rx_clear \/ uart_rx_available
           \/ AvailableReturn \/ UNCHANGED vars
  BY <1>1, <1>3 DEF uart_rx_irq_handler, HandlerReturn, uart_getc, uart_rx_clear,
     uart_rx_available, AvailableReturn, vars, line
<1> QED BY <1>2, <1>3 DEF Next, Handler

LEMMA LossStep ==
  ASSUME TypeOK, [Next]_vars, fifo # <<>>, fifo' = Tail(fifo), ~ Head(fifo).bad, ~ overrun
  PROVE  Unread' = Append(Unread, Head(fifo).byte) \/ Len(Unread) = Size - 1
<1>1. /\ data \in [Index -> Byte] /\ head \in Index /\ tail \in Index
      /\ Unread = Contents(data, head, tail)
      /\ Unread' = Contents(data', head', tail')
  BY DEF TypeOK, Unread
<1>2. Accept
  BY TakenByHandler DEF Discard, LineError
<1>3. CASE Full
  <2>1. Distance(head, tail) = Size - 1
    BY <1>1, <1>3, DistanceFacts DEF Full
  <2> QED BY <1>1, <2>1, ContentsFacts
<1>4. CASE ~ Full
  <2> DEFINE b == Head(fifo).byte
  <2>1. /\ data' = [data EXCEPT ![head] = b] /\ head' = NextIndex(head)
        /\ tail' = tail /\ NextIndex(head) # tail
    BY <1>2, <1>4 DEF Accept, Store, Full
  <2>2. b \in Byte
    BY FifoFacts DEF TypeOK
  <2> HIDE DEF b
  <2>3. Unread' = Append(Unread, b)
    BY <1>1, <2>1, <2>2, StoreAppends
  <2> QED BY <2>3 DEF b
<1> QED BY <1>3, <1>4

\* A character that arrived without an error, and with no overrun reported, is
\* lost only when the ring is full: never by an index that wraps, a reader that
\* is interrupted between its loads, or a call of uart_rx_clear on the way.
THEOREM LossTheorem == Spec => LossOnlyWhenFull
<1>1. TypeOK /\ [Next]_vars =>
        [fifo # <<>> /\ fifo' = Tail(fifo) /\ ~ Head(fifo).bad /\ ~ overrun =>
           \/ Unread' = Append(Unread, Head(fifo).byte)
           \/ Len(Unread) = Size - 1]_vars
  BY LossStep
<1> QED BY <1>1, TypeCorrect, PTL DEF Spec, LossOnlyWhenFull

=============================================================================
