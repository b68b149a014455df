-------------------------------- MODULE MCVfs ---------------------------------
(***************************************************************************)
(* Three files, one of them empty, and one name without a file.            *)
(***************************************************************************)
EXTENDS Vfs

CONSTANTS hello, info, void, absent, b0, b1

MCName == {hello, info, void, absent}
MCByte == {b0, b1}
MCFileName == [f \in Files |-> <<hello, info, void>>[f + 1]]
MCContent == [f \in Files |-> <<<<b0, b1, b0>>, <<b1>>, <<>>>>[f + 1]]
MCNumber == -1 .. MaxFds
MCMax == {-1, 0, 2, 5}

=============================================================================
