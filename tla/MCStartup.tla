------------------------------ MODULE MCStartup -----------------------------
\* Instance of Startup: every command line of up to MaxOptions options, and
\* containers of several machines, with and without adapter and frames.
EXTENDS Startup, SequencesExt

CONSTANT MaxOptions

Opt(o, n, a) == [opt |-> o, number |-> n, arg |-> a]
MCOptions == {Opt("c", 1, ""), Opt("c", 0, ""), Opt("c", -1, ""), Opt("o", 1, ""),
              Opt("o", 0, "text"), Opt("s", 0, ""), Opt("s", 0, "malformed")}
               \cup {Opt(o, 0, "") : o \in {"b", "d", "n", "v", "h", "?"}}
MCCommandLines == [options : BoundedSeq(MCOptions, MaxOptions), files : {1, 2}]

Std(mode) == [std |-> TRUE, mode |-> mode]
NonStd == [std |-> FALSE, mode |-> "none"]
Container(arch, mach, frames) ==
  [opens |-> TRUE, arch |-> arch, mach |-> mach, frames |-> frames]
MCContainers ==
  {Container("sparc", 1, <<Std("none")>>), Container("sparc", 8, <<>>),
   Container("powerpc", 0, <<Std("ppc64"), NonStd, Std("none")>>),
   Container("powerpc", 64, <<Std("none"), Std("ppc32"), Std("none")>>),
   Container("riscv", 0, <<Std("none")>>),
   [Container("6502", 0, <<>>) EXCEPT !.opens = FALSE]}
=============================================================================
