------------------------------- MODULE MCPowerOn ------------------------------
(***************************************************************************)
(* Words of two bits, a kernel of two sectors at sector 2, and behind it   *)
(* on the card another image that looks like a kernel, where a host would  *)
(* read that takes a card of high capacity for one of standard capacity.   *)
(* The memory test tries the first of its two words; of that word the      *)
(* check of the kernel's magic looks at one bit.                           *)
(* One section for the kernel, one for user space, one spare.              *)
(***************************************************************************)
EXTENDS PowerOn

W(a, b) == [i \in Bits |-> <<a, b>>[i]]
MCPattern == <<W(1, 0), W(0, 1)>>
MCMagic == {W(1, 1), W(1, 0)}
MCDisk == [b \in 0 .. 6 |->
  <<W(0, 0), W(1, 0), W(1, 1), W(0, 1), W(1, 1), W(0, 0), W(1, 0)>>[b + 1]]

=============================================================================
