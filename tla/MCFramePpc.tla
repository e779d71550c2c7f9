----------------------------- MODULE MCFramePpc -----------------------------
\* RunFrame with the adapter for PowerPC: frames of both modes and of none.
EXTENDS FrameCheck, Adapters, FrameNotation

MCRegs == [ca |-> Reg("gpr", 2, 1), pc |-> Reg("gpr", 3, 1)]
\* The container names no machine.
MCRizinBits(mode) == PPCRizinBits(mode, 0)
MCBound == {"ca"}
MCAccesses == {[addr |-> 1, size |-> 1, index |-> 0]}

MCFrames == {
  FrameOfMode("ppc64", 0, <<1>>, <<R("ca", <<0, 1>>)>>, <<R("ca", <<1, 1>>)>>),
  FrameOfMode("ppc32", 0, <<1>>, <<>>, <<R("ca", <<1, 0>>)>>),
  StdFrame(2, <<1>>, <<>>, <<R("ca", <<0, 0>>)>>)}
=============================================================================
