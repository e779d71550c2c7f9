------------------------------ MODULE Adapters ------------------------------
(***************************************************************************)
(* The overrides of the TraceAdapter classes (adapter.cpp), on cells: each *)
(* class says how it groups the bits of the registers it looks into.  Names*)
(* keep the source's spelling; a conversion of letter case is a table of   *)
(* the registers that the instances use.                                   *)
(***************************************************************************)
EXTENDS Integers, Sequences, TLC

\* Addresses of the helpers that Linux maps for 32-bit ARM.
CONSTANT KuserHelpers

\* tolower and toupper of the names whose case changes
LowerCase ==
  "XER" :> "xer" @@ "VRSAVE" :> "vrsave" @@ "R1" :> "r1" @@ "NF" :> "nf" @@ "PC" :> "pc"
UpperCase == "r1" :> "R1" @@ "psw" :> "PSW" @@ "pc" :> "PC"
ToLower(t) == IF t \in DOMAIN LowerCase THEN LowerCase[t] ELSE t
ToUpper(t) == IF t \in DOMAIN UpperCase THEN UpperCase[t] ELSE t

\* A flag of one bit that the trace records in a whole word.
AnyBit(v) == IF \E k \in DOMAIN v : v[k] # 0 THEN <<1>> ELSE <<0>>

-----------------------------------------------------------------------------
\* The base class.  machine is that of the container, a number of bfd and 0
\* for unspecified.
DefaultRizinBits(mode, machine) == 0
DefaultTraceRegToRizin(t) == t
DefaultRegNeedsCustomHandling(t) == FALSE
DefaultSubRegs(t, v) == {}
DefaultSubRegContents(r, v) == v
DefaultFromTrace(t, v, op) == v
DefaultFromRizin(t, v) == v
DefaultIgnorePostMismatchReg(r) == FALSE
DefaultIgnorePCMismatch(actual, expect) == FALSE
DefaultAssumeEventIsJustified(e) == FALSE

-----------------------------------------------------------------------------
\* VICETraceAdapter.  sr has the cells <<bits 0-3, bits 4-5, bits 6-7>>.
ViceTraceRegToRizin(t) == IF t = "sr" THEN "flags" ELSE t
\* Both directions mask out the unused and the break bit.
ViceFromTrace(t, v, op) ==
  IF t = "sr" /\ Len(v) >= 2 THEN [v EXCEPT ![2] = 0] ELSE v
ViceFromRizin(t, v) == ViceFromTrace(t, v, <<>>)

-----------------------------------------------------------------------------
\* Sparc32TraceAdapter.  psr has the cells <<cwp, bits 5-19, icc>>, the
\* register ccr of rizin <<icc, xcc>>.
Sparc32RegNeedsCustomHandling(t) == t = "psr"
Sparc32SubRegs(t, v) ==
  {[reg |-> "cwp", value |-> <<v[1]>>], [reg |-> "ccr", value |-> <<v[3], 0>>]}
\* CompareSubreg looks at the icc half of ccr only.
Sparc32SubRegContents(r, v) == IF r = "ccr" THEN <<v[1], 0>> ELSE v
\* fsr has the cells <<exception fields, the rest>>; both directions remove
\* the exception fields.
Sparc32FromTrace(t, v, op) ==
  IF t = "fsr" /\ v # <<>> THEN [v EXCEPT ![1] = 0] ELSE v
Sparc32FromRizin(t, v) == Sparc32FromTrace(t, v, <<>>)
Sparc32IgnorePostMismatchReg(r) == r \in {"pc", "npc", "fprs"}
Sparc32IgnorePCMismatch(actual, expect) == TRUE
Sparc32AssumeEventIsJustified(e) ==
  IF e.kind \in {"read", "write"}
  THEN e.var \in {"cwp", "ccr", "pstate", "asi", "fprs"}
  ELSE e.index = 1

-----------------------------------------------------------------------------
\* Sparc64TraceAdapter.  state has the cells <<cwp, pstate, asi, ccr>>, fprs
\* of the trace <<its low 3 bits, the rest>>, fsr is as above.
Sparc64RegNeedsCustomHandling(t) == t = "state"
Sparc64SubRegs(t, v) ==
  {[reg |-> "cwp", value |-> <<v[1]>>], [reg |-> "pstate", value |-> <<v[2]>>],
   [reg |-> "asi", value |-> <<v[3]>>], [reg |-> "ccr", value |-> <<v[4]>>]}
Sparc64FromTrace(t, v, op) ==
  IF t = "fprs" THEN <<v[1]>> ELSE Sparc32FromTrace(t, v, op)
Sparc64IgnorePostMismatchReg(r) == r \in {"pc", "npc"}
Sparc64AssumeEventIsJustified(e) ==
  IF e.kind \in {"read", "write"}
  THEN e.var \in {"cwp", "ccr", "pstate", "asi"}
  ELSE e.index = 1

-----------------------------------------------------------------------------
\* PPCTraceAdapter.  A crf operand has the cells <<low nibble, high nibble>>,
\* the cr fields of rizin a single cell; carry and overflow are one cell.
\* XER has <<what ISA 2 knows, ca32 and ov32>>, VRSAVE two words.
PPCRizinBits(mode, machine) ==
  IF mode = "none" THEN machine ELSE IF mode = "ppc64" THEN 64 ELSE 32
PPCTraceRegToRizin(t) ==
  CASE t = "crf0" -> "cr0" [] t = "crf1" -> "cr1" [] OTHER -> ToLower(t)
IsOneBitFlag(t) == t \in {"ca", "ca32", "ov", "ov32", "so"}
PPCFromTrace(t, v, op) ==
  CASE t \in {"crf0", "crf1", "VRSAVE"} -> <<v[1]>>
    [] IsOneBitFlag(t) -> AnyBit(v)
    [] t = "XER" -> <<v[1], 0>>
    [] OTHER -> v
PPCFromRizin(t, v) == IF t = "XER" THEN <<v[1], 0>> ELSE v

-----------------------------------------------------------------------------
\* Arm32TraceAdapter.  A word has the cells <<the bits of cpsr that rizin
\* knows, the rest>>, GE of the trace <<the low 4 bits, the rest>>.
Arm32RizinBits(mode, machine) == IF mode = "arm-t32" THEN 16 ELSE 32
Arm32TraceRegToRizin(t) == IF t = "GE" THEN "gef" ELSE ToLower(t)
\* The instructions whose mnemonic starts with "mrs ".
ReadsStatus == {<<2>>}
Arm32FromTrace(t, v, op) ==
  CASE t \in {"NF", "ZF", "CF", "VF", "QF"} -> AnyBit(v)
    [] t = "GE" -> <<v[1]>>
    [] op \in ReadsStatus /\ Len(v) = 2 -> <<v[1], 0>>
    [] op \in ReadsStatus /\ t = "PC" -> <<0>>   \* masked like any other word
    [] OTHER -> v
Arm32IgnorePCMismatch(actual, expect) ==
  actual \div 2 = expect \div 2 \/ actual \in KuserHelpers

\* Arm64TraceAdapter
Arm64TraceRegToRizin(t) ==
  CASE t = "R31" -> "sp" [] t = "R1" -> "x1" [] OTHER -> ToLower(t)
Arm64FromTrace(t, v, op) == IF t \in {"NF", "ZF", "CF", "VF"} THEN AnyBit(v) ELSE v

-----------------------------------------------------------------------------
\* HexagonTraceAdapter.  The control registers in the order of their numbers,
\* "" where the table has no entry.
HexagonRegMapping ==
  LET Control ==
        <<"sa0", "lc0", "sa1", "lc1", "p3_0", "", "m0", "m1", "usr", "", "ugp", "gp",
          "cs0", "cs1", "upcyclelo", "upcyclehi", "framelimit", "framekey",
          "pktcountlo", "pktcounthi", "", "", "", "", "", "", "", "", "", "",
          "utimerlo", "utimerhi">>
      General(n) == IF n < 10 THEN "r0" \o ToString(n) ELSE "r" \o ToString(n)
  IN  [t \in {Control[k] : k \in 1 .. 32} \ {""} |->
         "C" \o ToString((CHOOSE k \in 1 .. 32 : Control[k] = t) - 1)]
        @@ [t \in {General(n) : n \in 0 .. 31} |->
              "R" \o ToString(CHOOSE n \in 0 .. 31 : t = General(n))]
HexagonTraceRegToRizin(t) ==
  IF t \in DOMAIN HexagonRegMapping THEN HexagonRegMapping[t] ELSE ToUpper(t)
\* strstr(variable, "_tmp") and the like are sets of names of variables.
HexagonAssumeEventIsJustified(e) ==
  LET ContainsTmp == {"R1_tmp", "C1_tmp", "C4_tmp"}
      ContainsC1 == {"C1", "C1_tmp"} \cup {"C" \o ToString(n) : n \in 10 .. 19}
      ContainsC4 == {"C4", "C4_tmp"}
  IN  \/ e.kind \in {"read", "write"} /\ e.var \in ContainsTmp
      \/ e.kind = "write" /\ e.var \in ContainsC4
      \/ e.kind = "write" /\ e.var \in ContainsC1 /\ e.same

-----------------------------------------------------------------------------
\* TriCoreTraceAdapter: data and address registers keep their case.
TriCoreTraceRegToRizin(t) == IF t \in {"a1", "d1"} THEN t ELSE ToUpper(t)
TriCoreIgnorePostMismatchReg(r) == r \in {"cpu_id", "CPU_ID", "syscon", "SYSCON"}
TriCoreAssumeEventIsJustified(e) == e.kind = "write" /\ e.same

\* GBTraceAdapter.  pc of the trace has 16 bits, one cell; mpc of rizin has the
\* cells <<bits 0-15, bits 16-31>>.
GBTraceRegToRizin(t) == IF t = "pc" THEN "mpc" ELSE t
\* Mutant: leaves pc at its 16 bits.
GBFromTraceNarrow(t, v, op) == v
GBFromTrace(t, v, op) == IF t = "pc" THEN <<v[1], 0>> ELSE v

\* MipsTraceAdapter and X86TraceAdapter
MipsRizinBits(mode, machine) == machine
frame_mach_x86_64 == 8
X86RizinBits(mode, machine) == IF machine = frame_mach_x86_64 THEN 64 ELSE 32
X86TraceRegToRizin(t) == ToLower(t)
=============================================================================
