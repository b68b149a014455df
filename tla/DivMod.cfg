CONSTANT Quarter = 16
SPECIFICATION FairSpec
INVARIANT DivisionIsExact
PROPERTY DivisionReturns
\* The routine returns to its caller.
CHECK_DEADLOCK FALSE
