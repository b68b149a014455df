CONSTANT Quarter = 4
SPECIFICATION FairSpec
PROPERTY SignedDivision
CHECK_DEADLOCK FALSE
