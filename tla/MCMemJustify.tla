---------------------------- MODULE MCMemJustify ----------------------------
\* Instance of MemJustify for TLC: an address space of WordSize bytes.
EXTENDS MemJustify, SequencesExt

CONSTANT MaxOps

\* Memory operands of two bytes anywhere in the address space, some whose
\* bit_length cuts them to one byte or to none, and one register operand.
MCOperands ==
  [kind : {"mem"}, addr : Word, bytes : {2}, bit_length : {0}]
    \cup [kind : {"mem"}, addr : {1}, bytes : {3}, bit_length : {12}]
    \cup [kind : {"mem"}, addr : {2}, bytes : {1}, bit_length : {4}]
    \cup {[kind |-> "reg", addr |-> 0, bytes |-> 2, bit_length |-> 16]}

MCOperandLists == {ops : ops \in BoundedSeq(MCOperands, MaxOps)}
=============================================================================
