---------------------------- MODULE MCFrameSparc ----------------------------
\* RunFrame with the adapter for 32-bit SPARC, on a profile in which d0 overlaps
\* the bound register f0, and on frames that exercise every branch.
EXTENDS FrameCheck, AdapterTable, FrameNotation

MCRegs == [o0 |-> Reg("gpr", 1, 1), cwp |-> Reg("ctr", 0, 1),
           ccr |-> Reg("ctr", 1, 2), f0 |-> Reg("fpu", 0, 1),
           d0 |-> Reg("fpu", 0, 2), pc |-> Reg("gpr", 0, 1)]
MCRizinBits(mode) == RizinBitsOf("sparc32", mode, 0)
MCBound == {"o0", "f0"}
MCAccesses == {[addr |-> 0, size |-> n, index |-> 0] : n \in {1, 2}}

MCFrames == {
  \* a register operation: psr is unpacked, d0 overlaps what the VM writes
  StdFrame(0, <<1>>, <<R("d0", <<1, 1>>), R("psr", <<1, 0, 1>>)>>,
                     <<R("d0", <<0, 1>>), R("psr", <<1, 1, 0>>)>>),
  \* registers twice in the post-operands, an ignored one among them
  StdFrame(0, <<1>>, <<>>, <<R("o0", <<1>>), R("pc", <<2>>), R("o0", <<0>>),
                             R("pc", <<1>>)>>),
  \* memory, twice at the same address; a pre value of another size
  StdFrame(0, <<2>>, <<M(0, <<1>>), R("d0", <<1>>)>>,
                     <<M(0, <<1>>), M(0, <<0, 0>>)>>),
  \* registers that rizin does not have
  StdFrame(1, <<1>>, <<R("zz", <<1>>), M(1, <<0>>)>>, <<R("zz", <<1>>), R("zz", <<0>>)>>),
  \* operands without a type, before and after the step
  StdFrame(2, <<1>>, <<R("o0", <<1>>), U>>, <<>>),
  StdFrame(2, <<1>>, <<>>, <<R("o0", <<1>>), U>>),
  \* refused frames
  StdFrame(0, <<0>>, <<>>, <<>>),
  StdFrame(0, <<>>, <<>>, <<>>),
  [StdFrame(0, <<1>>, <<>>, <<>>) EXCEPT !.std = FALSE]}
=============================================================================
