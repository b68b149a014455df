------------------------------- MODULE RxQueue -------------------------------
(***************************************************************************)
(* What the receive side of the UART driver promises its reader: frames    *)
(* that arrive on the wire pass, in order and at most once each, into a    *)
(* bounded first-in first-out queue, or are lost; a read takes the oldest  *)
(* byte or reports that there is none; a clear forgets the queued bytes.   *)
(***************************************************************************)
EXTENDS Naturals, Sequences

CONSTANTS Frame, NoByte, Capacity

VARIABLES wire, queue, reply

vars == <<wire, queue, reply>>

Init == wire = <<>> /\ queue = <<>> /\ reply = NoByte

Arrive == \E f \in Frame :
  /\ wire' = Append(wire, f)
  /\ UNCHANGED <<queue, reply>>

Put ==
  /\ wire # <<>>
  /\ Len(queue) < Capacity
  /\ ~ Head(wire).bad
  /\ queue' = Append(queue, Head(wire).byte)
  /\ wire' = Tail(wire)
  /\ UNCHANGED reply

Lose ==
  /\ wire # <<>>
  /\ wire' = Tail(wire)
  /\ UNCHANGED <<queue, reply>>

Get ==
  /\ queue # <<>>
  /\ reply' = Head(queue)
  /\ queue' = Tail(queue)
  /\ UNCHANGED wire

GetNothing ==
  /\ queue = <<>>
  /\ reply' = NoByte
  /\ UNCHANGED <<wire, queue>>

Clear ==
  /\ queue' = <<>>
  /\ UNCHANGED <<wire, reply>>

Next == Arrive \/ Put \/ Lose \/ Get \/ GetNothing \/ Clear

Spec == Init /\ [][Next]_vars

=============================================================================
