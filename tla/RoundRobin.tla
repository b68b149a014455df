------------------------------ MODULE RoundRobin ------------------------------
(***************************************************************************)
(* What the scheduler promises, with no flags, stacks or interrupts: one   *)
(* task owns the CPU; only the owner can die; the CPU passes from a task   *)
(* to the live task that follows it in the cyclic order of the table.      *)
(***************************************************************************)
EXTENDS Integers

CONSTANTS N, Nobody

Task == 0 .. N - 1

VARIABLES live, owner

vars == <<live, owner>>

Distance(i, j) == (j - i + N) % N

\* j follows i among the tasks of S.
Follows(i, j, S) ==
  /\ j \in S \ {i}
  /\ \A k \in S \ {i} : Distance(i, j) <= Distance(i, k)

Init == live = {} /\ owner = Nobody

Admit(i) ==
  /\ owner = Nobody
  /\ i \notin live
  /\ live' = live \cup {i}
  /\ UNCHANGED owner

Start ==
  /\ owner = Nobody
  /\ 0 \in live
  /\ owner' = 0
  /\ UNCHANGED live

Die ==
  /\ owner \in live \ {0}
  /\ live' = live \ {owner}
  /\ UNCHANGED owner

Handoff(j) ==
  /\ owner # Nobody
  /\ Follows(owner, j, live)
  /\ owner' = j
  /\ UNCHANGED live

Next ==
  \/ \E i \in Task : Admit(i) \/ Handoff(i)
  \/ Start
  \/ Die

Spec == Init /\ [][Next]_vars

=============================================================================
