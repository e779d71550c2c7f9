----------------------------- MODULE MCTestLoop -----------------------------
\* Instance of TestLoop: empty, short and longer traces, with frames of one
\* address, of another and frames that are no std_frame.
EXTENDS TestLoop

F(a) == [std |-> TRUE, addr |-> a]
NonStd == [std |-> FALSE, addr |-> 0]
MCTraces == {<<>>, <<F(1)>>, <<F(1), NonStd, F(2)>>, <<F(1), F(2), F(1)>>}
MCFlagSets == {{}, {"e"}, {"u"}, {"r"}, {"m"}, {"r", "m"}}
=============================================================================
