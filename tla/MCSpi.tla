------------------------------- MODULE MCSpi -------------------------------
(* A small instance of SpiMaster for TLC: with descriptors of 2 bytes,        *)
(* transfers of one, exactly one, and two descriptors.                        *)
EXTENDS SpiMaster

X(d, n) == [dir |-> d, len |-> n]

\* A flash command and its answer, a page to program, plain transfers, and one
\* that goes both ways.
MCMessages ==
  {<<X("tx", 1), X("rx", 3)>>, <<X("tx", 2), X("tx", 3)>>, <<X("rx", 2)>>, <<X("both", 3)>>}
=============================================================================
