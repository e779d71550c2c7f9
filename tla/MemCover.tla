------------------------------ MODULE MemCover ------------------------------
(***************************************************************************)
(* Sizes of trace operands (trace.h) and what it means for a memory access *)
(* of the IL VM to be covered by the memory operands of a frame.  A memory *)
(* operand counts only through its address, the number of bytes of its     *)
(* value and its bit_length, so those are its fields here.                 *)
(***************************************************************************)
EXTENDS Integers, Sequences

\* OperandSizeBits: the value's bytes, cut to a smaller positive bit_length.
OperandSizeBits(o) ==
  LET r == o.bytes * 8
  IN  IF o.bit_length > 0 /\ o.bit_length < r THEN o.bit_length ELSE r

\* MemOperandSizeBytes: rounds a bit count that is not byte-aligned down.
MemOperandSizeBytes(o) == OperandSizeBits(o) \div 8

\* The size of an IL access of val bits, rounded up to whole bytes.
AccessSize(val) == (val + 7) \div 8

\* The n bytes that start at address a.
Extent(a, n) == a .. (a + n - 1)

\* The byte ranges that the memory operands of a list describe.
MemRanges(ops) ==
  {[addr |-> ops[j].addr, size |-> MemOperandSizeBytes(ops[j])] :
     j \in {k \in DOMAIN ops : ops[k].kind = "mem"}}

\* Every byte of the access lies in some range.
Covered(a, n, ranges) ==
  \A b \in Extent(a, n) : \E r \in ranges : b \in Extent(r.addr, r.size)

\* Some byte of the access lies in some range.
Overlapped(a, n, ranges) ==
  \E b \in Extent(a, n) : \E r \in ranges : b \in Extent(r.addr, r.size)

\* Neither the access nor a range reaches the end of the address space.
NoWrap(a, n, ranges, wordSize) ==
  /\ a + n < wordSize
  /\ \A r \in ranges : r.addr + r.size < wordSize
=============================================================================
