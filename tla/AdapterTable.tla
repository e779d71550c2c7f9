---------------------------- MODULE AdapterTable ----------------------------
(***************************************************************************)
(* The class of the adapter that SelectTraceAdapter makes, and the virtual *)
(* calls on it: which override of Adapters answers for which class.        *)
(***************************************************************************)
EXTENDS Adapters

NoAdapter == "none"     \* nullptr
frame_mach_sparc_sparclite_le == 6
frame_mach_sparc_64bit_p(mach) == mach >= 7 /\ mach # 9
SelectTraceAdapter(arch, mach) ==
  CASE arch = "6502" -> "vice"
    [] arch = "arm" -> "arm32"
    [] arch = "aarch64" -> "arm64"
    [] arch = "powerpc" -> "ppc"
    [] arch = "sm83" -> "gb"
    [] arch = "i386" -> "x86"
    [] arch \in {"8051", "mips", "hexagon", "tricore"} -> arch
    [] arch = "sparc" -> IF frame_mach_sparc_64bit_p(mach) THEN "sparc64" ELSE "sparc32"
    [] OTHER -> NoAdapter

RizinArch(arch) ==
  CASE arch = "vice" -> "6502"
    [] arch \in {"arm32", "arm64"} -> "arm"
    [] arch \in {"sparc32", "sparc64"} -> "sparc"
    [] OTHER -> arch
RizinCPU(arch) ==
  CASE arch = "sparc32" -> "v8" [] arch = "sparc64" -> "v9" [] OTHER -> ""
RizinBitsOf(arch, mode, machine) ==
  CASE arch \in {"sparc32", "hexagon", "tricore"} -> 32
    [] arch \in {"sparc64", "arm64"} -> 64
    [] arch = "8051" -> 16
    [] arch = "ppc" -> PPCRizinBits(mode, machine)
    [] arch = "arm32" -> Arm32RizinBits(mode, machine)
    [] arch = "mips" -> MipsRizinBits(mode, machine)
    [] arch = "x86" -> X86RizinBits(mode, machine)
    [] OTHER -> DefaultRizinBits(mode, machine)
TraceRegToRizinOf(arch, t) ==
  CASE arch = "vice" -> ViceTraceRegToRizin(t)
    [] arch = "ppc" -> PPCTraceRegToRizin(t)
    [] arch = "arm32" -> Arm32TraceRegToRizin(t)
    [] arch = "arm64" -> Arm64TraceRegToRizin(t)
    [] arch = "gb" -> GBTraceRegToRizin(t)
    [] arch = "hexagon" -> HexagonTraceRegToRizin(t)
    [] arch = "x86" -> X86TraceRegToRizin(t)
    [] arch = "tricore" -> TriCoreTraceRegToRizin(t)
    [] OTHER -> DefaultTraceRegToRizin(t)
RegNeedsCustomHandlingOf(arch, t) ==
  CASE arch = "sparc32" -> Sparc32RegNeedsCustomHandling(t)
    [] arch = "sparc64" -> Sparc64RegNeedsCustomHandling(t)
    [] OTHER -> DefaultRegNeedsCustomHandling(t)
SubRegsOf(arch, t, v) ==
  CASE arch = "sparc32" -> Sparc32SubRegs(t, v)
    [] arch = "sparc64" -> Sparc64SubRegs(t, v)
    [] OTHER -> DefaultSubRegs(t, v)
SubRegContentsOf(arch, r, v) ==
  IF arch = "sparc32" THEN Sparc32SubRegContents(r, v)
  ELSE DefaultSubRegContents(r, v)
FromTraceOf(arch, t, v, op) ==
  CASE arch = "vice" -> ViceFromTrace(t, v, op)
    [] arch = "sparc32" -> Sparc32FromTrace(t, v, op)
    [] arch = "sparc64" -> Sparc64FromTrace(t, v, op)
    [] arch = "ppc" -> PPCFromTrace(t, v, op)
    [] arch = "arm32" -> Arm32FromTrace(t, v, op)
    [] arch = "arm64" -> Arm64FromTrace(t, v, op)
    [] arch = "gb" -> GBFromTrace(t, v, op)
    [] OTHER -> DefaultFromTrace(t, v, op)
FromRizinOf(arch, t, v) ==
  CASE arch = "vice" -> ViceFromRizin(t, v)
    [] arch \in {"sparc32", "sparc64"} -> Sparc32FromRizin(t, v)
    [] arch = "ppc" -> PPCFromRizin(t, v)
    [] OTHER -> DefaultFromRizin(t, v)
IgnorePostMismatchRegOf(arch, r) ==
  CASE arch = "sparc32" -> Sparc32IgnorePostMismatchReg(r)
    [] arch = "sparc64" -> Sparc64IgnorePostMismatchReg(r)
    [] arch = "tricore" -> TriCoreIgnorePostMismatchReg(r)
    [] OTHER -> DefaultIgnorePostMismatchReg(r)
IgnorePCMismatchOf(arch, actual, expect) ==
  CASE arch \in {"sparc32", "sparc64"} -> Sparc32IgnorePCMismatch(actual, expect)
    [] arch = "arm32" -> Arm32IgnorePCMismatch(actual, expect)
    [] OTHER -> DefaultIgnorePCMismatch(actual, expect)
AssumeEventIsJustifiedOf(arch, e) ==
  CASE arch = "sparc32" -> Sparc32AssumeEventIsJustified(e)
    [] arch = "sparc64" -> Sparc64AssumeEventIsJustified(e)
    [] arch = "hexagon" -> HexagonAssumeEventIsJustified(e)
    [] arch = "tricore" -> TriCoreAssumeEventIsJustified(e)
    [] OTHER -> DefaultAssumeEventIsJustified(e)
\* IgnoreCompareMemMismatch and AllowNoOperandSameValueAssignment
IgnoresMemMismatch == {"hexagon"}
AllowsSameValue == {"vice", "sparc32", "sparc64", "gb"}
=============================================================================
