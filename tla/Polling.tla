-------------------------------- MODULE Polling -------------------------------
(***************************************************************************)
(* The busy waits of the boot code.  A wait is named by the step it is in; *)
(* "ready" holds the waits whose device has set the bit that is polled.    *)
(* Each style of loop treats the end of its budget in its own way.         *)
(***************************************************************************)
EXTENDS Integers

CONSTANT Polls   \* bound: the budget of a loop, 10^3 to 10^7 in the code

ASSUME PollsAssumption == Polls \in Nat \ {0}

VARIABLES
  step,      \* where the code stands
  timeout,   \* what is left of the budget, -1 standing for 2^32 - 1
  ready

polling == <<step, timeout, ready>>

Go(next) == step' = next /\ timeout' = Polls

\* while (! bit);
Forever(w, next) ==
  /\ step = w /\ w \in ready
  /\ Go(next)
  /\ UNCHANGED ready

\* for (i = 0; i < N; i++) if (bit) break;    and    while (timeout--) if (bit) return;
Bounded(w, next, otherwise) ==
  /\ step = w
  /\ \/ timeout = 0 /\ Go(otherwise)
     \/ timeout > 0 /\ w \in ready /\ Go(next)
     \/ timeout > 0 /\ w \notin ready /\ timeout' = timeout - 1 /\ UNCHANGED step
  /\ UNCHANGED ready

MutGivesUp(w, next) == Forever(w, next)
GivesUp(w, next) == Bounded(w, next, next)

\* while (! bit) if (--timeout == 0) fail;
OrFail(w, next, fail) ==
  /\ step = w
  /\ \/ w \in ready /\ Go(next)
     \/ w \notin ready /\ timeout = 1 /\ Go(fail)
     \/ w \notin ready /\ timeout > 1 /\ timeout' = timeout - 1 /\ UNCHANGED step
  /\ UNCHANGED ready

\* while (! bit && timeout--);  if (! timeout) fail;
HaltsAtZero(w, next, fail) ==
  /\ step = w
  /\ IF w \notin ready /\ timeout >= 0
     THEN timeout' = timeout - 1 /\ UNCHANGED step
     ELSE Go(IF timeout = 0 THEN fail ELSE next)
  /\ UNCHANGED ready

\* The device sets the bit while it is polled.
Responds(w) ==
  /\ step = w /\ w \notin ready
  /\ ready' = ready \cup {w}
  /\ UNCHANGED <<step, timeout>>

=============================================================================
