--------------------------- MODULE SchedulerClaims ---------------------------
(***************************************************************************)
(* What documents and comments of the repository say of the scheduler and  *)
(* the code does not do: TLC refutes each of these.                        *)
(***************************************************************************)
EXTENDS Scheduler

\* README.md: "Preemptive round-robin scheduler" with a 10 ms time slice: a
\* task that keeps the CPU loses it while another one is READY.
PreemptiveSlices ==
  \A t \in Slot :
    (onCpu = t /\ \E i \in Slot : state[i] = "READY") ~> (onCpu # t \/ Halted)

\* exception_entry_svc unmasks interrupts lest a switch "bleeds IRQ-disabled
\* state into the next task (idle), permanently killing all interrupts": a
\* raised timer line is always served in the end.
TimerServed == "timer" \in pending ~> ("timer" \notin pending \/ Halted)

=============================================================================
