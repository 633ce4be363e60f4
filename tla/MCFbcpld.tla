------------------------------ MODULE MCFbcpld ------------------------------
(* Small instances of FbcpldCdev for TLC.                                    *)
EXTENDS FbcpldCdev, TLC

CONSTANT Few  \* the names used where the processes do as they like

A(n, r) == [name |-> n, reg |-> r, valid |-> TRUE]
Bad(n) == [name |-> n, reg |-> 0, valid |-> FALSE]

MCRegs == {0, 1}

\* Every batch of up to two attributes with a register each, one with an invalid
\* attribute, and none.
MCBatches ==
  {<<A(m, 0), A(n, 1)>> : m, n \in Names} \cup {<<A(n, 0)>> : n \in Names}
    \cup {<<Bad(n), A(n, 0)>> : n \in Names} \cup {<<A(n, 0), Bad(n)>> : n \in Names}
    \cup {<<>>}

MCSingles == {<<A(n, 0)>> : n \in Few}

\* Two processes create and destroy, but never while the other destroys.
MCCalm == [overlap |-> FALSE, hot |-> FALSE, batches |-> MCBatches]

\* They do as they like; and the CPLD may go away, too.
MCFree == [overlap |-> TRUE, hot |-> FALSE, batches |-> MCSingles]
MCHot == [MCFree EXCEPT !.hot = TRUE]

MCUses == {MCCalm, MCHot}
MCRace == {MCFree}

MCSymmetry == Permutations(Clients) \cup Permutations(Few)
=============================================================================
