----------------------------- MODULE MCTraceRun -----------------------------
\* Instance of TraceRun: traces in which code overlaps, repeats, is rewritten by
\* the trace or by operands, and frames that RunFrame refuses.
EXTENDS TraceRun, Adapters, FrameNotation

MCRegs == [a |-> Reg("gpr", 0, 1), pc |-> Reg("gpr", 1, 1)]
MCRizinBits(mode) == DefaultRizinBits(mode, 0)
MCAccesses == {[addr |-> a, size |-> 1, index |-> 0] : a \in {0, 2}}

Op == StdFrame(0, <<1, 2>>, <<>>, <<M(2, <<1>>)>>)
Second == StdFrame(1, <<2>>, <<R("a", <<1>>)>>, <<R("a", <<1>>)>>)
Patch == StdFrame(1, <<2>>, <<M(0, <<2>>)>>, <<>>)     \* writes to the code of Op
Other == StdFrame(0, <<2>>, <<>>, <<R("a", <<0>>)>>)    \* other bytes where Op is
Refused == {StdFrame(1, <<0>>, <<>>, <<>>), StdFrame(1, <<>>, <<>>, <<>>),
            StdFrame(2, <<1>>, <<U>>, <<>>), [Second EXCEPT !.std = FALSE]}

MCTraces == {<<>>, <<Op, Second, Op>>, <<Second, Op>>, <<Patch, Op>>, <<Other, Op>>}
  \cup {<<Op, f>> : f \in Refused} \cup {<<f, Second>> : f \in Refused}
MCPcs == Addr \cup {NoPc}
MCFlagSets == {{}, {"m"}}
=============================================================================
