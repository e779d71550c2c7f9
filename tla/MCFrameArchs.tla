---------------------------- MODULE MCFrameArchs ----------------------------
\* A profile and a few frames for each adapter, which exercise its overrides.
EXTENDS FrameArchs, FrameNotation

MCPcOf(arch) == CASE arch = "gb" -> "mpc" [] arch = "tricore" -> "PC" [] OTHER -> "pc"
MCAccesses == {[addr |-> 1, size |-> 1, index |-> n] : n \in {0, 1}}

G(o, n) == Reg("gpr", o, n)
pc == G(0, 1)
MCProfiles == [
  vice    |-> [a |-> G(1, 1), flags |-> G(2, 3), C |-> G(2, 1), pc |-> pc],
  sparc32 |-> [cwp |-> Reg("ctr", 0, 1), ccr |-> Reg("ctr", 1, 2),
               fprs |-> Reg("ctr", 3, 1), fsr |-> Reg("fpu", 0, 2), o0 |-> G(1, 1), pc |-> pc],
  sparc64 |-> [cwp |-> G(1, 1), pstate |-> G(2, 1), asi |-> G(3, 1), ccr |-> G(4, 1),
               fprs |-> G(5, 1), o0 |-> G(6, 1), pc |-> pc],
  ppc     |-> [cr |-> G(1, 2), cr0 |-> G(1, 1), cr1 |-> G(2, 1), ca |-> G(3, 1),
               xer |-> G(4, 2), vrsave |-> G(6, 1), pc |-> pc],
  arm32   |-> [r1 |-> G(1, 2), nf |-> G(3, 1), gef |-> G(4, 1), pc |-> pc],
  arm64   |-> [x1 |-> G(1, 1), sp |-> G(2, 1), nf |-> G(3, 1), pc |-> pc],
  gb      |-> [a |-> G(1, 1), mpc |-> G(2, 2)],
  hexagon |-> [R1 |-> G(1, 1), C1 |-> G(2, 1), C4 |-> G(3, 1), C10 |-> G(4, 1), pc |-> pc],
  tricore |-> [a1 |-> G(1, 1), PSW |-> G(2, 1), CPU_ID |-> G(3, 1), PC |-> pc]]
  @@ [arch \in {"8051", "mips", "x86"} |-> [r1 |-> G(1, 1), pc |-> pc]]

MCBoundOf == [
  vice |-> {"a", "C"},
  sparc32 |-> {"ccr", "o0"}, sparc64 |-> {"asi", "o0"}, ppc |-> {"cr0", "ca"},
  arm32 |-> {"r1"}, arm64 |-> {"x1"}, gb |-> {"a"}, hexagon |-> {"R1", "C4", "C10"},
  tricore |-> {"a1", "PSW"}] @@ [arch \in {"8051", "mips", "x86"} |-> {"r1"}]

F(pre, post) == StdFrame(0, <<1>>, pre, post)
MCFramesOf == [
  vice |-> {
    F(<<R("sr", <<1, 0, 1>>)>>, <<R("sr", <<1, 1, 1>>)>>),
    F(<<>>, <<R("a", <<1>>), R("pc", <<2>>), R("a", <<0>>), R("pc", <<1>>)>>)},
  sparc32 |-> {
    F(<<R("psr", <<1, 0, 1>>), R("o0", <<1>>)>>, <<R("psr", <<1, 1, 0>>), R("o0", <<0>>)>>),
    \* psr before and after another operand, and twice
    F(<<R("cwp", <<1>>), R("psr", <<0, 0, 1>>)>>,
      <<R("psr", <<0, 0, 1>>), R("psr", <<0, 0, 0>>)>>),
    \* post-operands whose mismatch is ignored
    F(<<M(1, <<0>>)>>, <<R("pc", <<0>>), R("fprs", <<1>>), R("o0", <<0>>)>>),
    F(<<M(1, <<1>>), R("fsr", <<1, 1>>)>>, <<M(1, <<1>>), R("fsr", <<1, 0>>)>>)},
  sparc64 |-> {
    F(<<R("state", <<1, 0, 1, 0>>)>>, <<R("state", <<1, 0, 1, 1>>)>>),
    F(<<R("fprs", <<1, 0>>)>>, <<R("fprs", <<0, 1>>), R("state", <<0, 0, 0, 0>>), R("o0", <<1>>)>>)},
  ppc |-> {
    FrameOfMode("ppc64", 0, <<1>>, <<R("crf0", <<1, 0>>), R("ca", <<0, 1>>)>>,
                                   <<R("crf0", <<0, 1>>), R("ca", <<1, 1>>)>>),
    FrameOfMode("ppc32", 0, <<1>>, <<R("cr", <<1, 1>>)>>, <<R("crf1", <<1, 1>>)>>),
    F(<<R("ca32", <<1>>), R("XER", <<1, 1>>), R("VRSAVE", <<1, 1>>)>>,
      <<R("XER", <<1, 1>>), R("VRSAVE", <<0, 1>>)>>)},
  arm32 |-> {
    FrameOfMode("arm-t32", 0, <<1>>, <<R("NF", <<0, 1>>), R("GE", <<1, 0>>)>>,
                                     <<R("NF", <<0, 0>>), R("GE", <<0, 1>>)>>),
    \* the frame of an mrs
    StdFrame(0, <<2>>, <<R("R1", <<1, 1>>)>>, <<R("R1", <<1, 1>>), R("PC", <<1>>)>>)},
  arm64 |-> {F(<<R("R31", <<1>>), R("R1", <<1>>), R("NF", <<0, 1>>)>>,
               <<R("R31", <<1>>), R("NF", <<0, 1>>)>>)},
  gb |-> {
    F(<<R("a", <<1>>), R("pc", <<0>>)>>, <<R("a", <<1>>), R("pc", <<1>>)>>),
    F(<<R("a", <<0>>)>>, <<R("a", <<1>>)>>)},
  hexagon |-> {
    F(<<R("r01", <<1>>), R("ugp", <<1>>)>>, <<R("r01", <<0>>), M(1, <<0>>)>>),
    F(<<M(1, <<0>>), R("lc0", <<1>>)>>, <<R("p3_0", <<0>>)>>)},
  tricore |-> {F(<<R("a1", <<1>>), R("psw", <<1>>)>>, <<R("a1", <<0>>), R("CPU_ID", <<1>>)>>)}]
  @@ [arch \in {"8051", "mips", "x86"} |-> {F(<<R("r1", <<1>>)>>, <<R("r1", <<0>>)>>)}]
MCArchs == DOMAIN MCFramesOf

=============================================================================
