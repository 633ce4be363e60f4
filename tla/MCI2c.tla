------------------------------- MODULE MCI2c -------------------------------
(* Small instances of I2cMaster for TLC.  With a page of 3 bytes a command    *)
(* reads up to 6 bytes and writes up to 5.                                    *)
EXTENDS I2cMaster

R(a, n) == [addr |-> a, dir |-> "read", len |-> n, block |-> FALSE, pec |-> FALSE]
W(a, n) == [addr |-> a, dir |-> "write", len |-> n, block |-> FALSE, pec |-> FALSE]
B(a, withPec) == [addr |-> a, dir |-> "read", len |-> 1, block |-> TRUE, pec |-> withPec]

A1 == CHOOSE a \in Devices : TRUE
A2 == CHOOSE a \in Devices : a # A1

\* Register access: a write, or a write and a read, in one command each and
\* through one page or both; a block; plain reads and writes; messages to two
\* devices; nothing.  No message follows one that leaves the high page selected.
MCRegisters ==
  {<<W(a, n)>> : a \in Devices, n \in {0, 2, 5}}
    \cup {<<R(a, n)>> : a \in Devices, n \in {1, 3}} \cup {<<R(A1, 0)>>}
    \cup {<<W(a, 1), R(a, n)>> : a \in Devices, n \in {1, 4, 6}}
    \cup {<<W(A1, 1), B(A1, TRUE)>>, <<W(A1, 5), W(A1, 2), R(A1, 6)>>,
          <<W(A1, 1), R(A2, 1)>>, <<>>}

\* The run of these asks for nothing beyond register access.
ASSUME InstanceAssumption == ~AnyPage => RegisterAccess

\* A read whose last use of the buffer was of both pages.
MCLarge == {<<R(A1, 4)>>, <<R(A2, 4)>>, <<W(A1, 5), R(A1, 1)>>}

\* Writes that take two commands.
MCChunks == {<<W(A1, 7)>>}
=============================================================================
