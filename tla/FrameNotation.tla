---------------------------- MODULE FrameNotation ---------------------------
\* How the instances of FrameCheck write down profiles and frames.
LOCAL INSTANCE Integers
LOCAL INSTANCE Sequences

R(n, v) == [kind |-> "reg", name |-> n, addr |-> 0, value |-> v]
M(a, v) == [kind |-> "mem", name |-> "", addr |-> a, value |-> v]
U == [kind |-> "none", name |-> "", addr |-> 0, value |-> <<0>>]
FrameOfMode(mode, a, code, pre, post) ==
  [std |-> TRUE, addr |-> a, code |-> code, mode |-> mode,
   pre |-> pre, post |-> post]
StdFrame(a, code, pre, post) == FrameOfMode("none", a, code, pre, post)

Reg(t, o, n) == [type |-> t, offset |-> o, size |-> n]
MCNextPcs == {-1, 2}
MCSkipped == {<<0>>}
=============================================================================
