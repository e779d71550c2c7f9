-------------------------- MODULE FrameArchsProofs --------------------------
(***************************************************************************)
(* RunFrame under each TraceAdapter: frames are lifted with bits of their  *)
(* own, the table of adapters does what RunFrame assumes of an adapter,    *)
(* and with each of them RunFrame computes the verdict of the one-step     *)
(* specification.                                                          *)
(***************************************************************************)
EXTENDS FrameArchs, SequenceTheorems, TLAPS

\* The bits of an adapter are determined by the mode of the frame, or are
\* always the same.
LEMMA BitsOfTable ==
  ASSUME NEW arch, arch = "ppc" => Machine # 0
  PROVE  \/ \A m : RizinBitsOf(arch, m, Machine) # 0
         \/ \A m : RizinBitsOf(arch, m, Machine) = 0
<1>1. CASE arch = "ppc"
  BY <1>1 DEF RizinBitsOf, PPCRizinBits
<1>2. CASE arch = "mips"
  BY <1>2 DEF RizinBitsOf, MipsRizinBits
<1>3. CASE arch = "arm32"
  BY <1>3 DEF RizinBitsOf, Arm32RizinBits
<1>4. CASE arch = "x86"
  BY <1>4 DEF RizinBitsOf, X86RizinBits
<1>5. CASE arch \in {"sparc32", "hexagon", "tricore", "sparc64", "arm64", "8051"}
  BY <1>5 DEF RizinBitsOf
<1>6. CASE arch \notin {"sparc32", "hexagon", "tricore", "sparc64", "arm64", "8051",
                        "ppc", "mips", "arm32", "x86"}
  BY <1>6 DEF RizinBitsOf, DefaultRizinBits
<1> QED
  BY <1>1, <1>2, <1>3, <1>4, <1>5, <1>6

BitsFor(m) == RizinBitsOf(adapter, m, Machine)
BitsInv ==
  /\ adapter \in Archs
  /\ at \in {"pre", "lift"} /\ BitsFor(frame.mode) # 0 => bits = BitsFor(frame.mode)
  /\ (\A m : BitsFor(m) = 0) => bits = 0

LEMMA BitsStep == BitsInv /\ [Next]_vars => BitsInv'
<1> SUFFICES ASSUME BitsInv, [Next]_vars
             PROVE  BitsInv'
  OBVIOUS
<1>1. CASE UNCHANGED vars
  BY <1>1 DEF vars, BitsInv, BitsFor
<1>2. CASE Next
  <2>1. PICK arch \in Archs : adapter = arch /\ Emulator(arch)!Next /\ adapter' = adapter
    BY <1>2 DEF Next
  <2> USE DEF Emulator!call, Emulator!machine, Emulator!vm, Emulator!locals, Emulator!outcome
  <2>2. CASE Emulator(arch)!SetUp \/ Emulator(arch)!NoCode \/ Emulator(arch)!Skip
    <3>1. Emulator(arch)!SwitchBits /\ frame' = frame
      BY <2>2 DEF Emulator!SetUp, Emulator!NoCode, Emulator!Skip
    <3>2. bits' = IF BitsFor(frame.mode) # 0 THEN BitsFor(frame.mode) ELSE bits
      BY <2>1, <3>1 DEF Emulator!SwitchBits, BitsFor
    <3> QED
      BY <2>1, <3>1, <3>2 DEF BitsInv, BitsFor
  <2>3. CASE Emulator(arch)!PreReg \/ Emulator(arch)!PreMem \/ Emulator(arch)!SetPc
    <3>1. bits' = bits /\ frame' = frame /\ at = "pre"
      BY <2>3 DEF Emulator!PreReg, Emulator!PreMem, Emulator!SetPc, Emulator!PreVisit
    <3> QED
      BY <2>1, <3>1 DEF BitsInv, BitsFor
  <2>4. CASE Emulator(arch)!Call
    <3>1. bits' = bits /\ at' = "begin"
      BY <2>4 DEF Emulator!Call, Emulator!Goto
    <3> QED
      BY <2>1, <3>1 DEF BitsInv, BitsFor
  <2>5. CASE \/ Emulator(arch)!NonStd \/ Emulator(arch)!PreUntyped
             \/ Emulator(arch)!NotLifted \/ Emulator(arch)!InvalidIL
             \/ Emulator(arch)!Lifted \/ Emulator(arch)!StepFailed
             \/ Emulator(arch)!StepDone \/ Emulator(arch)!PostUntyped
             \/ Emulator(arch)!ComparePc \/ Emulator(arch)!Finish
    <3>1. bits' = bits /\ at' \notin {"pre", "lift"}
      BY <2>5 DEF Emulator!NonStd, Emulator!PreUntyped, Emulator!NotLifted,
         Emulator!InvalidIL, Emulator!Lifted, Emulator!StepFailed, Emulator!StepDone,
         Emulator!PostUntyped, Emulator!ComparePc, Emulator!Finish, Emulator!Return,
         Emulator!Goto
    <3> QED
      BY <2>1, <3>1 DEF BitsInv, BitsFor
  <2>6. CASE \/ Emulator(arch)!VarRead \/ Emulator(arch)!VarWrite
             \/ Emulator(arch)!MemRead \/ Emulator(arch)!MemWrite
             \/ Emulator(arch)!PostUnknown \/ Emulator(arch)!PostCustom
             \/ Emulator(arch)!PostReg \/ Emulator(arch)!PostMem
             \/ Emulator(arch)!CheckEvent
    <3>1. bits' = bits /\ at' \notin {"pre", "lift"}
      BY <2>6 DEF Emulator!VarRead, Emulator!VarWrite, Emulator!MemRead,
         Emulator!MemWrite, Emulator!VmGoesOn, Emulator!PostUnknown, Emulator!PostCustom,
         Emulator!PostReg, Emulator!PostMem, Emulator!PostVisit, Emulator!CheckEvent
    <3> QED
      BY <2>1, <3>1 DEF BitsInv, BitsFor
  <2> QED
    BY <2>1, <2>2, <2>3, <2>4, <2>5, <2>6 DEF Emulator!Next, Emulator!Step
<1> QED
  BY <1>1, <1>2

\* With every adapter and for every trace, a frame is lifted with the bits of
\* its own mode and machine, whatever frames came before it; only PowerPC needs
\* the machine of the container for that.
THEOREM BitsCorrect ==
  ASSUME "ppc" \in Archs => Machine # 0
  PROVE  Spec => []BitsFromFrame
<1>1. Init => BitsInv
  <2> SUFFICES ASSUME Init
               PROVE  BitsInv
    OBVIOUS
  <2>1. PICK arch \in Archs : adapter = arch /\ Emulator(arch)!Init
    BY DEF Init
  <2>2. at = "idle" /\ bits = BitsFor("none")
    BY <2>1 DEF Emulator!Init, BitsFor
  <2> QED
    BY <2>1, <2>2 DEF BitsInv
<1>2. BitsInv => BitsFromFrame
  <2> SUFFICES ASSUME BitsInv, NEW arch \in Archs, adapter = arch, at = "lift"
               PROVE  \/ RizinBitsOf(arch, frame.mode, Machine) = bits
                      \/ /\ RizinBitsOf(arch, frame.mode, Machine) = 0
                         /\ bits = RizinBitsOf(arch, "none", Machine)
    BY DEF BitsFromFrame, Emulator!BitsFromFrame
  <2>1. \/ \A m : BitsFor(m) # 0
        \/ \A m : BitsFor(m) = 0
    BY BitsOfTable DEF BitsFor
  <2> QED
    BY <2>1 DEF BitsInv, BitsFor
<1> QED
  BY <1>1, <1>2, BitsStep, PTL DEF Spec

-----------------------------------------------------------------------------
(***************************************************************************)
(* What RunFrame assumes of its adapter (FrameCheck) holds of each one.    *)
(***************************************************************************)
\* Clearing a cell, as several overrides do, leaves contents of a register.
LEMMA ZeroedCell ==
  ASSUME NEW V, 0 \in V, NEW v \in Seq(V), NEW k \in 1 .. Len(v)
  PROVE  [v EXCEPT ![k] = 0] \in Seq(V) /\ Len([v EXCEPT ![k] = 0]) = Len(v)
BY ExceptSeq

LEMMA FromTraceTypes ==
  ASSUME NEW V, 0 \in V, 1 \in V, NEW v \in Seq(V), Len(v) >= 1, NEW arch, NEW t, NEW op
  PROVE  LET w == FromTraceOf(arch, t, v, op)
         IN  w \in Seq(V) /\ w[1] \in V
<1> DEFINE Contents(w) == w \in Seq(V) /\ w[1] \in V
<1>1. Contents(v) /\ v[1] \in V
  OBVIOUS
<1>2. Contents(<<v[1]>>) /\ Contents(<<v[1], 0>>) /\ Contents(<<0>>)
  BY <1>1
<1>3. Contents(AnyBit(v))
  BY DEF AnyBit
<1>4. \A k \in 1 .. Len(v) : Contents([v EXCEPT ![k] = 0])
  BY ZeroedCell
<1> HIDE DEF Contents
<1>5. Contents(ViceFromTrace(t, v, op))
  <2>1. CASE t = "sr" /\ Len(v) >= 2
    <3>1. 2 \in 1 .. Len(v)
      BY <2>1
    <3> QED
      BY <1>4, <2>1, <3>1 DEF ViceFromTrace
  <2>2. CASE ~ (t = "sr" /\ Len(v) >= 2)
    BY <1>1, <2>2 DEF ViceFromTrace
  <2> QED
    BY <2>1, <2>2
<1>6. Contents(Sparc32FromTrace(t, v, op))
  BY <1>1, <1>4 DEF Sparc32FromTrace
<1>7. Contents(Sparc64FromTrace(t, v, op))
  BY <1>2, <1>6 DEF Sparc64FromTrace
<1>8. Contents(PPCFromTrace(t, v, op))
  BY <1>1, <1>2, <1>3 DEF PPCFromTrace
<1>9. Contents(Arm32FromTrace(t, v, op))
  BY <1>1, <1>2, <1>3 DEF Arm32FromTrace
<1>10. Contents(Arm64FromTrace(t, v, op))
  BY <1>1, <1>3 DEF Arm64FromTrace
<1>11. Contents(GBFromTrace(t, v, op))
  BY <1>1, <1>2 DEF GBFromTrace
<1>12. Contents(FromTraceOf(arch, t, v, op))
  BY <1>1, <1>5, <1>6, <1>7, <1>8, <1>9, <1>10, <1>11 DEF FromTraceOf, DefaultFromTrace
<1> QED
  BY <1>12 DEF Contents

\* Bits are numbers for every mode.
LEMMA BitsTypes ==
  ASSUME NEW arch, NEW m
  PROVE  RizinBitsOf(arch, m, Machine) \in Nat
BY MachineAssumption
DEF RizinBitsOf, PPCRizinBits, Arm32RizinBits, MipsRizinBits, X86RizinBits, DefaultRizinBits

\* Only SPARC unpacks a register.
LEMMA CustomNames ==
  ASSUME NEW arch, NEW t, RegNeedsCustomHandlingOf(arch, t)
  PROVE  \/ arch = "sparc32" /\ t = "psr"
         \/ arch = "sparc64" /\ t = "state"
<1>1. CASE arch = "sparc32"
  <2>1. RegNeedsCustomHandlingOf(arch, t) <=> t = "psr"
    BY <1>1, Zenon DEF RegNeedsCustomHandlingOf, Sparc32RegNeedsCustomHandling
  <2> QED
    BY <1>1, <2>1, Zenon
<1>2. CASE arch = "sparc64"
  BY <1>2 DEF RegNeedsCustomHandlingOf, Sparc64RegNeedsCustomHandling
<1>3. CASE arch \notin {"sparc32", "sparc64"}
  BY <1>3 DEF RegNeedsCustomHandlingOf, DefaultRegNeedsCustomHandling
<1> QED
  BY <1>1, <1>2, <1>3

\* into one value of cells for each of the registers in Unpacked.
LEMMA SubRegTypes ==
  ASSUME NEW V, 0 \in V, NEW v \in Seq(V), NEW arch, NEW t,
         RegNeedsCustomHandlingOf(arch, t), Len(v) >= CellsNeeded(arch, t)
  PROVE  /\ \A s \in SubRegsOf(arch, t, v) : s.reg \in Unpacked(arch) /\ s.value \in Seq(V)
         /\ \A s, u \in SubRegsOf(arch, t, v) : s # u => s.reg # u.reg
<1>1. CASE arch = "sparc32" /\ t = "psr"
  <2>1. v[1] \in V /\ v[3] \in V
    BY <1>1 DEF CellsNeeded
  <2>2. <<v[1]>> \in Seq(V) /\ <<v[3], 0>> \in Seq(V)
    BY <2>1
  <2>3. SubRegsOf(arch, t, v)
          = {[reg |-> "cwp", value |-> <<v[1]>>], [reg |-> "ccr", value |-> <<v[3], 0>>]}
    BY <1>1 DEF SubRegsOf, Sparc32SubRegs
  <2>4. Unpacked(arch) = {"cwp", "ccr"}
    BY <1>1 DEF Unpacked
  <2> QED
    BY <2>2, <2>3, <2>4
<1>2. CASE arch = "sparc64" /\ t = "state"
  <2>1. v[1] \in V /\ v[2] \in V /\ v[3] \in V /\ v[4] \in V
    BY <1>2 DEF CellsNeeded
  <2>2. <<v[1]>> \in Seq(V) /\ <<v[2]>> \in Seq(V) /\ <<v[3]>> \in Seq(V)
          /\ <<v[4]>> \in Seq(V)
    BY <2>1
  <2>3. SubRegsOf(arch, t, v)
          = {[reg |-> "cwp", value |-> <<v[1]>>], [reg |-> "pstate", value |-> <<v[2]>>],
             [reg |-> "asi", value |-> <<v[3]>>], [reg |-> "ccr", value |-> <<v[4]>>]}
    BY <1>2 DEF SubRegsOf, Sparc64SubRegs
  <2>4. Unpacked(arch) = {"cwp", "pstate", "asi", "ccr"}
    BY <1>2 DEF Unpacked
  <2> QED
    BY <2>2, <2>3, <2>4
<1> QED
  BY <1>1, <1>2, CustomNames

\* Whatever RunFrame assumes of its adapter holds of every adapter of the table: it
\* makes contents of a register from contents, its bits are numbers, no register of
\* rizin is compared under two names in two ways, and the parts it unpacks a
\* register into do not overlap.
THEOREM AdaptersAdmissible ==
  \A arch \in Archs :
    /\ Emulator(arch)!AdapterAssumption
    /\ Emulator(arch)!CustomAssumption
    /\ Emulator(arch)!SubRegAssumption
<1> SUFFICES ASSUME NEW arch \in Archs
             PROVE  /\ Emulator(arch)!AdapterAssumption
                    /\ Emulator(arch)!CustomAssumption
                    /\ Emulator(arch)!SubRegAssumption
  OBVIOUS
<1> USE DEF Emulator!IsReg, Emulator!IsMem, Emulator!RegOf, Emulator!Unmapped,
            Emulator!IsMappedReg, Emulator!IsCustom, Emulator!IsPlain, Emulator!NullOp
<1> DEFINE V == Emulator(arch)!Val
<1>1. 0 \in V /\ 1 \in V
  BY MachineAssumption DEF Emulator!Val, Emulator!Addr
<1>2. ASSUME NEW f \in FramesOf[arch], NEW o \in Range(f.pre) \cup Range(f.post)
      PROVE  /\ o.value \in Seq(V)
             /\ o.kind = "reg" => Len(o.value) >= CellsNeeded(arch, o.name)
  <2>1. /\ f.pre \in Seq(Emulator(arch)!OperandType)
        /\ f.post \in Seq(Emulator(arch)!OperandType)
    BY ArchsAssumption DEF Emulator!FrameAssumption, Emulator!FrameType
  <2>2. o \in Emulator(arch)!OperandType
    BY <2>1 DEF Range
  <2> QED
    BY <2>2, ArchsAssumption DEF Emulator!OperandType
<1>3. \A t : CellsNeeded(arch, t) >= 1
  BY DEF CellsNeeded
<1>4. \A f \in FramesOf[arch] : \A o \in Range(f.pre) \cup Range(f.post) :
        o.kind = "reg" => o.value \in Seq(V) /\ Len(o.value) >= 1
  <2> SUFFICES ASSUME NEW f \in FramesOf[arch], NEW o \in Range(f.pre) \cup Range(f.post),
                      o.kind = "reg"
               PROVE  o.value \in Seq(V) /\ Len(o.value) >= 1
    OBVIOUS
  <2>1. o.value \in Seq(V) /\ Len(o.value) >= CellsNeeded(arch, o.name)
    BY <1>2
  <2>2. CellsNeeded(arch, o.name) \in Nat
    BY DEF CellsNeeded
  <2> QED
    BY <1>3, <2>1, <2>2
<1>5. ASSUME NEW f \in FramesOf[arch], NEW o \in Range(f.pre), Emulator(arch)!IsCustom(o)
      PROVE  /\ \A s \in SubRegsOf(arch, o.name, o.value) :
                  s.reg \in Unpacked(arch) /\ s.value \in Seq(V)
             /\ \A s, u \in SubRegsOf(arch, o.name, o.value) : s # u => s.reg # u.reg
  BY <1>1, <1>2, <1>5, SubRegTypes
<1>6. Emulator(arch)!AdapterAssumption
  <2>1. ASSUME NEW f \in FramesOf[arch], NEW o \in Range(f.pre)
        PROVE  /\ Emulator(arch)!IsPlain(o) =>
                    FromTraceOf(arch, o.name, o.value, <<>>) \in Seq(V)
               /\ Emulator(arch)!IsCustom(o) =>
                    \A s \in SubRegsOf(arch, o.name, o.value) :
                      s.reg \in DOMAIN Profiles[arch] /\ s.value \in Seq(V)
    BY <1>1, <1>4, <1>5, FromTraceTypes, ArchsAssumption
  <2>2. ASSUME NEW f \in FramesOf[arch], NEW o \in Range(f.post), Emulator(arch)!IsPlain(o)
        PROVE  FromTraceOf(arch, o.name, o.value, f.code)[1] \in V
    BY <1>1, <1>4, <2>2, FromTraceTypes
  <2> QED
    BY <2>1, <2>2, BitsTypes DEF Emulator!AdapterAssumption, Emulator!Range, Range
<1>7. Emulator(arch)!CustomAssumption
  <2>1. ASSUME NEW t, NEW u, TraceRegToRizinOf(arch, t) = TraceRegToRizinOf(arch, u),
               RegNeedsCustomHandlingOf(arch, t)
        PROVE  t = u
    BY <2>1, CustomNames DEF TraceRegToRizinOf, DefaultTraceRegToRizin
  <2> QED
    BY <2>1 DEF Emulator!CustomAssumption
<1>8. Emulator(arch)!SubRegAssumption
  <2>1. ASSUME NEW f \in FramesOf[arch], NEW o \in Range(f.pre), Emulator(arch)!IsCustom(o),
               NEW s \in SubRegsOf(arch, o.name, o.value),
               NEW u \in SubRegsOf(arch, o.name, o.value), s # u
        PROVE  Emulator(arch)!RegCells(s.reg) \cap Emulator(arch)!RegCells(u.reg) = {}
    <3>1. s.reg \in Unpacked(arch) /\ u.reg \in Unpacked(arch) /\ s.reg # u.reg
      BY <1>5, <2>1
    <3> QED
      BY <3>1, ArchsAssumption
  <2> QED
    BY <2>1 DEF Emulator!SubRegAssumption, Emulator!Range, Range
<1> QED
  BY <1>6, <1>7, <1>8

-----------------------------------------------------------------------------
\* RunFrame with an adapter Arch, which can be any: an emulator keeps the adapter
\* it was constructed with.  What is proved of FrameCheck holds of it.
CONSTANT Arch
One == INSTANCE FrameOracleProofs WITH
  Regs <- Profiles[Arch], PcReg <- PcOf(Arch), Bound <- BoundOf[Arch],
  Frames <- FramesOf[Arch], CacheReset <- TRUE,
  RizinBits <- LAMBDA m : RizinBitsOf(Arch, m, Machine),
  TraceRegToRizin <- LAMBDA t : TraceRegToRizinOf(Arch, t),
  RegNeedsCustomHandling <- LAMBDA t : RegNeedsCustomHandlingOf(Arch, t),
  SubRegs <- LAMBDA t, v : SubRegsOf(Arch, t, v),
  SubRegContents <- LAMBDA r, v : SubRegContentsOf(Arch, r, v),
  AdjustRegContentsFromTrace <- LAMBDA t, v, op : FromTraceOf(Arch, t, v, op),
  AdjustRegContentsFromRizin <- LAMBDA t, v : FromRizinOf(Arch, t, v),
  IgnorePostMismatchReg <- LAMBDA r : IgnorePostMismatchRegOf(Arch, r),
  IgnorePCMismatch <- LAMBDA a, e : IgnorePCMismatchOf(Arch, a, e),
  IgnoreCompareMemMismatch <- Arch \in IgnoresMemMismatch,
  AssumeEventIsJustified <- LAMBDA e : AssumeEventIsJustifiedOf(Arch, e),
  AllowNoOperandSameValueAssignment <- Arch \in AllowsSameValue

\* Expanded, an action is the same formula under either name.
LEMMA SameStep == Emulator(Arch)!Next => One!Next
<1> USE DEF One!Addr, Emulator!Addr, One!BlankMem, Emulator!BlankMem,
            One!Cardinality, Emulator!Cardinality, One!CellOfReg,
            Emulator!CellOfReg, One!Cells, Emulator!Cells, One!Covered,
            Emulator!Covered, One!Described, Emulator!Described, One!Extent,
            Emulator!Extent, One!FallThrough, Emulator!FallThrough, One!Goto,
            Emulator!Goto, One!InOperands, Emulator!InOperands, One!IsCustom,
            Emulator!IsCustom, One!IsMappedReg, Emulator!IsMappedReg, One!IsMem,
            Emulator!IsMem, One!IsPlain, Emulator!IsPlain, One!IsReg,
            Emulator!IsReg, One!Justified, Emulator!Justified, One!MemEvent,
            Emulator!MemEvent, One!Mismatched, Emulator!Mismatched, One!NoCounts,
            Emulator!NoCounts, One!NoPc, Emulator!NoPc, One!NullOp, Emulator!NullOp,
            One!PcContents, Emulator!PcContents, One!PostOpMap, Emulator!PostOpMap, One!PostOperand,
            Emulator!PostOperand, One!PostVisit, Emulator!PostVisit, One!PreOperand,
            Emulator!PreOperand, One!PreVisit, Emulator!PreVisit, One!Range,
            Emulator!Range, One!ReadMem, Emulator!ReadMem, One!ReadReg,
            Emulator!ReadReg, One!Record, Emulator!Record, One!RegCells,
            Emulator!RegCells, One!RegOf, Emulator!RegOf, One!RegPc, Emulator!RegPc,
            One!Return, Emulator!Return, One!SwitchBits, Emulator!SwitchBits,
            One!TraceRegOverlapsILVar, Emulator!TraceRegOverlapsILVar, One!Unmapped,
            Emulator!Unmapped, One!Untyped, Emulator!Untyped, One!VmGoesOn,
            Emulator!VmGoesOn, One!WriteMem, Emulator!WriteMem, One!WriteRegs,
            Emulator!WriteRegs, One!ZeroArena, Emulator!ZeroArena, One!call,
            Emulator!call, One!locals, Emulator!locals, One!machine,
            Emulator!machine, One!outcome, Emulator!outcome, One!vm, Emulator!vm
<1>1. Emulator(Arch)!NonStd => One!NonStd
  BY DEF One!NonStd, Emulator!NonStd
<1>2. Emulator(Arch)!NoCode => One!NoCode
  BY DEF One!NoCode, Emulator!NoCode
<1>3. Emulator(Arch)!Skip => One!Skip
  BY DEF One!Skip, Emulator!Skip
<1>4. Emulator(Arch)!SetUp => One!SetUp
  BY DEF One!SetUp, Emulator!SetUp
<1>5. Emulator(Arch)!PreReg => One!PreReg
  BY DEF One!PreReg, Emulator!PreReg
<1>6. Emulator(Arch)!PreMem => One!PreMem
  BY DEF One!PreMem, Emulator!PreMem
<1>7. Emulator(Arch)!PreUntyped => One!PreUntyped
  BY DEF One!PreUntyped, Emulator!PreUntyped
<1>8. Emulator(Arch)!SetPc => One!SetPc
  BY DEF One!SetPc, Emulator!SetPc
<1>9. Emulator(Arch)!NotLifted => One!NotLifted
  BY DEF One!NotLifted, Emulator!NotLifted
<1>10. Emulator(Arch)!InvalidIL => One!InvalidIL
  BY DEF One!InvalidIL, Emulator!InvalidIL
<1>11. Emulator(Arch)!Lifted => One!Lifted
  BY DEF One!Lifted, Emulator!Lifted
<1>12. Emulator(Arch)!VarRead => One!VarRead
  BY DEF One!VarRead, Emulator!VarRead
<1>13. Emulator(Arch)!VarWrite => One!VarWrite
  BY DEF One!VarWrite, Emulator!VarWrite
<1>14. Emulator(Arch)!MemRead => One!MemRead
  BY DEF One!MemRead, Emulator!MemRead
<1>15. Emulator(Arch)!MemWrite => One!MemWrite
  BY DEF One!MemWrite, Emulator!MemWrite
<1>16. Emulator(Arch)!StepFailed => One!StepFailed
  BY DEF One!StepFailed, Emulator!StepFailed
<1>17. Emulator(Arch)!StepDone => One!StepDone
  BY DEF One!StepDone, Emulator!StepDone
<1>18. Emulator(Arch)!PostUnknown => One!PostUnknown
  BY DEF One!PostUnknown, Emulator!PostUnknown
<1>19. Emulator(Arch)!PostCustom => One!PostCustom
  BY DEF One!PostCustom, Emulator!PostCustom
<1>20. Emulator(Arch)!PostReg => One!PostReg
  BY DEF One!PostReg, Emulator!PostReg
<1>21. Emulator(Arch)!PostMem => One!PostMem
  BY DEF One!PostMem, Emulator!PostMem
<1>22. Emulator(Arch)!PostUntyped => One!PostUntyped
  BY DEF One!PostUntyped, Emulator!PostUntyped
<1>23. Emulator(Arch)!ComparePc => One!ComparePc
  BY DEF One!ComparePc, Emulator!ComparePc
<1>24. Emulator(Arch)!CheckEvent => One!CheckEvent
  BY DEF One!CheckEvent, Emulator!CheckEvent
<1>25. Emulator(Arch)!Finish => One!Finish
  BY DEF One!Finish, Emulator!Finish
<1>26. Emulator(Arch)!Call => One!Call
  BY DEF One!Call, Emulator!Call
<1> QED
  BY <1>1, <1>2, <1>3, <1>4, <1>5, <1>6, <1>7, <1>8, <1>9, <1>10, <1>11, <1>12,
     <1>13, <1>14, <1>15, <1>16, <1>17, <1>18, <1>19, <1>20, <1>21, <1>22, <1>23,
     <1>24, <1>25, <1>26
  DEF One!Next, Emulator!Next, One!Step, Emulator!Step

LEMMA SameInit ==
  ASSUME Emulator(Arch)!Init
  PROVE  One!Init
BY DEF One!Addr, Emulator!Addr, One!BlankMem, Emulator!BlankMem, One!Cells,
    Emulator!Cells, One!Init, Emulator!Init, One!NoCounts, Emulator!NoCounts,
    One!NoPc, Emulator!NoPc, One!RegCells, Emulator!RegCells, One!ZeroArena,
    Emulator!ZeroArena

LEMMA SamePerform == One!Oracle!Perform => Emulator(Arch)!Oracle!Perform
<1>1. /\ One!Oracle!Addr = Emulator(Arch)!Oracle!Addr
      /\ One!Oracle!Val = Emulator(Arch)!Oracle!Val
      /\ One!Oracle!Events = Emulator(Arch)!Oracle!Events
      /\ One!NoCounts = Emulator(Arch)!NoCounts
  BY DEF One!Oracle!Addr, Emulator!Oracle!Addr, One!Oracle!Val, Emulator!Oracle!Val,
         One!Oracle!Events, Emulator!Oracle!Events, One!NoCounts, Emulator!NoCounts
<1>2. One!Oracle!Cells = Emulator(Arch)!Oracle!Cells
  BY DEF One!Oracle!Cells, Emulator!Oracle!Cells, One!Oracle!RegCells,
         Emulator!Oracle!RegCells
<1> QED
  BY <1>1, <1>2
  DEF One!Oracle!Perform, Emulator!Oracle!Perform, One!Oracle!call, Emulator!Oracle!call,
      One!Phase, Emulator!Phase, One!Visible, Emulator!Visible

LEMMA SameOracle ==
  [One!Oracle!Next]_(One!Oracle!vars)
    => [Emulator(Arch)!Oracle!Next]_(Emulator(Arch)!Oracle!vars)
<1> USE DEF One!Oracle!Addr, Emulator!Oracle!Addr, One!Oracle!ArenaWrites,
            Emulator!Oracle!ArenaWrites, One!Oracle!CellOfReg,
            Emulator!Oracle!CellOfReg, One!Oracle!Cells, Emulator!Oracle!Cells,
            One!Oracle!Covered, Emulator!Oracle!Covered, One!Oracle!Described,
            Emulator!Oracle!Described, One!Oracle!Events, Emulator!Oracle!Events,
            One!Oracle!EventsExplained, Emulator!Oracle!EventsExplained,
            One!Oracle!Extent, Emulator!Oracle!Extent, One!Oracle!Hidden,
            Emulator!Oracle!Hidden, One!Oracle!IsCustom, Emulator!Oracle!IsCustom,
            One!Oracle!IsLast, Emulator!Oracle!IsLast, One!Oracle!IsMappedReg,
            Emulator!Oracle!IsMappedReg, One!Oracle!IsMem, Emulator!Oracle!IsMem,
            One!Oracle!IsPlain, Emulator!Oracle!IsPlain, One!Oracle!IsReg,
            Emulator!Oracle!IsReg, One!Oracle!LastOf, Emulator!Oracle!LastOf,
            One!Oracle!MemAgrees, Emulator!Oracle!MemAgrees, One!Oracle!MemWrites,
            Emulator!Oracle!MemWrites, One!Oracle!NoPc, Emulator!Oracle!NoPc,
            One!Oracle!NullOp, Emulator!Oracle!NullOp, One!Oracle!PcAgrees,
            Emulator!Oracle!PcAgrees, One!Oracle!PcContents,
            Emulator!Oracle!PcContents, One!Oracle!PcExpected,
            Emulator!Oracle!PcExpected, One!Oracle!PreArena,
            Emulator!Oracle!PreArena, One!Oracle!PreMem, Emulator!Oracle!PreMem,
            One!Oracle!ReadReg, Emulator!Oracle!ReadReg, One!Oracle!Refusal,
            Emulator!Oracle!Refusal, One!Oracle!RegCells, Emulator!Oracle!RegCells,
            One!Oracle!RegOf, Emulator!Oracle!RegOf, One!Oracle!RegPc,
            Emulator!Oracle!RegPc, One!Oracle!RegWrite, Emulator!Oracle!RegWrite,
            One!Oracle!RegsAgree, Emulator!Oracle!RegsAgree, One!Oracle!Return,
            Emulator!Oracle!Return, One!Oracle!Touches, Emulator!Oracle!Touches,
            One!Oracle!Unmapped, Emulator!Oracle!Unmapped, One!Oracle!Untyped,
            Emulator!Oracle!Untyped, One!Oracle!Val, Emulator!Oracle!Val,
            One!Oracle!Verdict, Emulator!Oracle!Verdict, One!Oracle!Written,
            Emulator!Oracle!Written, One!Oracle!call, Emulator!Oracle!call
<1> USE DEF One!Phase, Emulator!Phase, One!Visible, Emulator!Visible, One!NoCounts,
            Emulator!NoCounts
<1>1. One!Oracle!Call => Emulator(Arch)!Oracle!Call
  BY DEF One!Oracle!Call, Emulator!Oracle!Call
<1>2. One!Oracle!Refuse => Emulator(Arch)!Oracle!Refuse
  BY DEF One!Oracle!Refuse, Emulator!Oracle!Refuse
<1>3. One!Oracle!Load => Emulator(Arch)!Oracle!Load
  BY DEF One!Oracle!Load, Emulator!Oracle!Load
<1>4. One!Oracle!Reject => Emulator(Arch)!Oracle!Reject
  BY DEF One!Oracle!Reject, Emulator!Oracle!Reject
<1>5. One!Oracle!Start => Emulator(Arch)!Oracle!Start
  BY DEF One!Oracle!Start, Emulator!Oracle!Start
<1>6. One!Oracle!Perform => Emulator(Arch)!Oracle!Perform
  BY SamePerform
<1>7. One!Oracle!Halt => Emulator(Arch)!Oracle!Halt
  BY DEF One!Oracle!Halt, Emulator!Oracle!Halt
<1>8. One!Oracle!Crash => Emulator(Arch)!Oracle!Crash
  BY DEF One!Oracle!Crash, Emulator!Oracle!Crash
<1>9. One!Oracle!Judge => Emulator(Arch)!Oracle!Judge
  BY DEF One!Oracle!Judge, Emulator!Oracle!Judge
<1>10. UNCHANGED One!Oracle!vars => UNCHANGED Emulator(Arch)!Oracle!vars
  BY DEF One!Oracle!vars, Emulator!Oracle!vars
<1> QED
  BY <1>1, <1>2, <1>3, <1>4, <1>5, <1>6, <1>7, <1>8, <1>9, <1>10
  DEF One!Oracle!Next, Emulator!Oracle!Next

LEMMA SameOracleInit ==
  ASSUME One!Oracle!Init
  PROVE  Emulator(Arch)!Oracle!Init
BY DEF One!Oracle!Hidden, Emulator!Oracle!Hidden, One!Oracle!Init,
    Emulator!Oracle!Init, One!Oracle!NoPc, Emulator!Oracle!NoPc,
  One!Phase, Emulator!Phase, One!Visible, Emulator!Visible, One!NoCounts,
      Emulator!NoCounts

\* With an adapter of the table, FrameCheck's assumptions are met.
LEMMA AssumptionsMet ==
  ASSUME Arch \in Archs
  PROVE  /\ One!MemoryAssumption /\ One!ProfileAssumption
         /\ One!FrameAssumption /\ One!AdapterAssumption
         /\ One!CustomAssumption /\ One!SubRegAssumption
<1> USE DEF One!Addr, Emulator!Addr, One!FrameType, Emulator!FrameType,
            One!IsCustom, Emulator!IsCustom, One!IsMappedReg, Emulator!IsMappedReg,
            One!IsMem, Emulator!IsMem, One!IsPlain, Emulator!IsPlain, One!IsReg,
            Emulator!IsReg, One!NoPc, Emulator!NoPc, One!NullOp, Emulator!NullOp,
            One!OperandType, Emulator!OperandType, One!Range, Emulator!Range,
            One!RegCells, Emulator!RegCells, One!RegOf, Emulator!RegOf,
            One!Unmapped, Emulator!Unmapped, One!Val, Emulator!Val
<1>1. One!MemoryAssumption
  BY ArchsAssumption DEF One!MemoryAssumption, Emulator!MemoryAssumption
<1>2. One!ProfileAssumption
  BY ArchsAssumption DEF One!ProfileAssumption, Emulator!ProfileAssumption
<1>3. One!FrameAssumption
  BY ArchsAssumption DEF One!FrameAssumption, Emulator!FrameAssumption
<1>4. One!AdapterAssumption
  BY AdaptersAdmissible DEF One!AdapterAssumption, Emulator!AdapterAssumption
<1>5. One!CustomAssumption
  BY AdaptersAdmissible DEF One!CustomAssumption, Emulator!CustomAssumption
<1>6. One!SubRegAssumption
  BY AdaptersAdmissible DEF One!SubRegAssumption, Emulator!SubRegAssumption
<1> QED
  BY <1>1, <1>2, <1>3, <1>4, <1>5, <1>6

LEMMA SameVars ==
  ASSUME UNCHANGED vars
  PROVE  UNCHANGED One!vars
BY DEF vars, One!vars, One!call, One!machine, One!vm, One!locals, One!outcome

\* With every adapter, RunFrame computes the verdict of the one-step specification,
\* for all profiles, traces and runs of the IL VM: renamed, narrowed, masked and
\* unpacked registers, ignored mismatches and assumed events included.  Arch is any
\* constant, so this speaks of every behaviour of Spec, whatever its adapter.
THEOREM VerdictsCorrect == Spec /\ adapter = Arch => ImplementsOracle
<1>1. Init /\ adapter = Arch => Arch \in Archs
  BY DEF Init
<1>2. CASE Arch \in Archs
  <2>1. Init /\ adapter = Arch => One!Init
    BY SameInit DEF Init
  <2>2. adapter = Arch /\ [Next]_vars => (adapter = Arch)' /\ [One!Next]_(One!vars)
    <3>1. CASE UNCHANGED vars
      BY <3>1, SameVars DEF vars
    <3>2. CASE Next
      BY <3>2, SameStep DEF Next
    <3> QED
      BY <3>1, <3>2
  <2>3. One!Spec => One!ImplementsOracle
    BY <1>2, AssumptionsMet, One!OracleRefined
  <2>4. adapter = Arch /\ One!Oracle!Init
          => \A arch \in Archs : adapter = arch => Emulator(arch)!Oracle!Init
    BY SameOracleInit
  <2>5. adapter = Arch /\ [One!Oracle!Next]_(One!Oracle!vars)
          => [\A arch \in Archs : adapter = arch =>
                [Emulator(arch)!Oracle!Next]_(Emulator(arch)!Oracle!vars)]_vars
    BY SameOracle
  <2> QED
    BY <2>1, <2>2, <2>3, <2>4, <2>5, PTL
    DEF Spec, ImplementsOracle, One!Spec, One!ImplementsOracle, One!Oracle!Spec
<1>3. CASE Arch \notin Archs
  <2>1. ~ (Init /\ adapter = Arch)
    BY <1>1, <1>3
  <2> QED
    BY <2>1, PTL DEF Spec
<1> QED
  BY <1>2, <1>3

-----------------------------------------------------------------------------
(***************************************************************************)
(* What an adapter loads from the trace it finds equal to the trace.       *)
(***************************************************************************)
\* The trace gives registers the sizes that rizin gives them, once the adapter has
\* converted them, and an address has no bits above those of the trace.
OperandsFit(arch) ==
  \A f \in FramesOf[arch] : \A o \in Range(f.pre) :
    /\ Emulator(arch)!IsPlain(o) =>
         LET v == FromTraceOf(arch, o.name, o.value, <<>>)
             r == TraceRegToRizinOf(arch, o.name)
         IN  /\ Len(v) = Profiles[arch][r].size
             /\ r = PcOf(arch) => \A k \in 2 .. Len(v) : v[k] = 0
    /\ Emulator(arch)!IsCustom(o) =>
         \A s \in SubRegsOf(arch, o.name, o.value) : Len(s.value) = Profiles[arch][s.reg].size

\* What came from the trace is converted from rizin as it is: the two conversions
\* of each adapter know the same registers, in the same sizes.
LEMMA ConversionsAgree ==
  ASSUME NEW V, 0 \in V, NEW w \in Seq(V), NEW arch, NEW t
  PROVE  LET v == FromTraceOf(arch, t, w, <<>>)
         IN  FromRizinOf(arch, t, v) = v
<1>1. CASE arch = "vice"
  <2> DEFINE v == ViceFromTrace(t, w, <<>>)
  <2>1. CASE t = "sr" /\ Len(w) >= 2
    <3>1. v = [w EXCEPT ![2] = 0] /\ 2 \in 1 .. Len(w)
      BY <2>1 DEF ViceFromTrace
    <3>2. v \in Seq(V) /\ Len(v) = Len(w)
      BY <3>1, ZeroedCell
    <3>3. [v EXCEPT ![2] = 0] = v
      BY <3>1
    <3> HIDE DEF v
    <3>4. ViceFromTrace(t, v, <<>>) = v
      BY <2>1, <3>2, <3>3 DEF ViceFromTrace
    <3> QED
      BY <1>1, <3>4 DEF FromTraceOf, FromRizinOf, ViceFromRizin, v
  <2>2. CASE ~ (t = "sr" /\ Len(w) >= 2)
    BY <1>1, <2>2 DEF FromTraceOf, FromRizinOf, ViceFromRizin, ViceFromTrace
  <2> QED
    BY <2>1, <2>2
<1>2. Sparc32FromTrace(t, Sparc32FromTrace(t, w, <<>>), <<>>) = Sparc32FromTrace(t, w, <<>>)
  <2> DEFINE v == Sparc32FromTrace(t, w, <<>>)
  <2>1. CASE t = "fsr" /\ w # <<>>
    <3>1. v = [w EXCEPT ![1] = 0] /\ 1 \in 1 .. Len(w)
      BY <2>1 DEF Sparc32FromTrace
    <3>2. [v EXCEPT ![1] = 0] = v
      BY <3>1
    <3> HIDE DEF v
    <3>3. Sparc32FromTrace(t, v, <<>>) = v
      BY <3>2 DEF Sparc32FromTrace
    <3> QED
      BY <3>3 DEF v
  <2>2. CASE ~ (t = "fsr" /\ w # <<>>)
    BY <2>2 DEF Sparc32FromTrace
  <2> QED
    BY <2>1, <2>2
<1>3. CASE arch = "sparc32"
  BY <1>2, <1>3 DEF FromTraceOf, FromRizinOf, Sparc32FromRizin
<1>4. CASE arch = "sparc64"
  <2>1. CASE t = "fprs"
    BY <1>4, <2>1 DEF FromTraceOf, FromRizinOf, Sparc32FromRizin, Sparc64FromTrace,
                      Sparc32FromTrace
  <2>2. CASE t # "fprs"
    BY <1>2, <1>4, <2>2 DEF FromTraceOf, FromRizinOf, Sparc32FromRizin, Sparc64FromTrace
  <2> QED
    BY <2>1, <2>2
<1>5. CASE arch = "ppc"
  <2>1. CASE t = "XER"
    BY <1>5, <2>1 DEF FromTraceOf, FromRizinOf, PPCFromTrace, PPCFromRizin, IsOneBitFlag
  <2>2. CASE t # "XER"
    BY <1>5, <2>2 DEF FromRizinOf, PPCFromRizin
  <2> QED
    BY <2>1, <2>2
<1>6. CASE arch \notin {"vice", "sparc32", "sparc64", "ppc"}
  BY <1>6 DEF FromRizinOf, DefaultFromRizin
<1> QED
  BY <1>1, <1>3, <1>4, <1>5, <1>6

\* So are the parts of a register that SPARC unpacks.
LEMMA PartsAgree ==
  ASSUME NEW arch, NEW t, NEW v, RegNeedsCustomHandlingOf(arch, t),
         NEW s \in SubRegsOf(arch, t, v)
  PROVE  SubRegContentsOf(arch, s.reg, s.value) = s.value
<1>1. CASE arch = "sparc32" /\ t = "psr"
  BY <1>1 DEF SubRegsOf, Sparc32SubRegs, SubRegContentsOf, Sparc32SubRegContents
<1>2. CASE arch = "sparc64" /\ t = "state"
  BY <1>2 DEF SubRegContentsOf, DefaultSubRegContents
<1> QED
  BY <1>1, <1>2, CustomNames

\* At the end of the loop over the pre-operands, one that is in force is found
\* equal.
LEMMA InForceFoundEqual ==
  ASSUME Arch \in Archs, OperandsFit(Arch),
         NEW f \in FramesOf[Arch], NEW j \in DOMAIN f.pre, InForce(Arch, f, j),
         arena = One!Oracle!PreArena(f)
  PROVE  FoundEqual(Arch, f.pre[j])
<1> DEFINE o == f.pre[j]
           v == FromTraceOf(Arch, o.name, o.value, <<>>)
           r == TraceRegToRizinOf(Arch, o.name)
           V == Emulator(Arch)!Val
<1>1. /\ \A q : One!IsCustom(q) <=> Emulator(Arch)!IsCustom(q)
      /\ \A q : One!IsPlain(q) <=> Emulator(Arch)!IsPlain(q)
  BY DEF One!IsCustom, Emulator!IsCustom, One!IsPlain, Emulator!IsPlain, One!IsMappedReg,
         Emulator!IsMappedReg, One!IsReg, Emulator!IsReg, One!RegOf, Emulator!RegOf,
         One!Unmapped, Emulator!Unmapped
<1>2. /\ \A q : One!RegCells(q) = Emulator(Arch)!RegCells(q)
      /\ \A a, q : One!ReadReg(a, q) = Emulator(Arch)!ReadReg(a, q)
  BY DEF One!RegCells, Emulator!RegCells, One!ReadReg, Emulator!ReadReg, One!CellOfReg,
         Emulator!CellOfReg
<1>3. \A q : One!FilledBy(q) = Filled(Arch, q)
  BY <1>1, <1>2 DEF One!FilledBy, Filled, One!RegOf
<1>4. /\ f.pre \in Seq(Emulator(Arch)!OperandType)
      /\ o \in Range(f.pre) /\ o.value \in Seq(V) /\ 0 \in V /\ 1 \in V
      /\ One!RegOf(o) = r
  <2>1. /\ f.pre \in Seq(Emulator(Arch)!OperandType)
        /\ 0 \in V /\ 1 \in V
    BY ArchsAssumption, MachineAssumption
       DEF Emulator!FrameAssumption, Emulator!FrameType, Emulator!Val, Emulator!Addr
  <2>2. o \in Emulator(Arch)!OperandType
    BY <2>1
  <2> QED
    BY <2>1, <2>2 DEF Emulator!OperandType, Range, One!RegOf
<1>5. /\ One!IsCustom(o) /\ One!FilledBy(o) \cap One!RegCells(PcOf(Arch)) = {} =>
            \A s \in SubRegsOf(Arch, o.name, o.value) :
              Len(s.value) = Profiles[Arch][s.reg].size =>
                One!ReadReg(arena, s.reg) = s.value
      /\ /\ One!IsPlain(o) /\ Len(v) = Profiles[Arch][r].size
         /\ \/ One!FilledBy(o) \cap One!RegCells(PcOf(Arch)) = {}
            \/ r = PcOf(Arch) /\ v = One!PcContents(f.addr)
         => One!ReadReg(arena, r) = v
  <2>1. \A k \in (j + 1) .. Len(f.pre) : One!FilledBy(o) \cap One!FilledBy(f.pre[k]) = {}
    BY <1>3 DEF InForce
  <2> QED
    BY <1>4, <2>1, AssumptionsMet, One!OperandLoaded DEF One!NullOp, One!RegOf
<1>6. CASE Emulator(Arch)!IsCustom(o)
  <2>1. ~ Emulator(Arch)!IsPlain(o) /\ RegNeedsCustomHandlingOf(Arch, o.name)
    BY <1>6 DEF Emulator!IsPlain, Emulator!IsCustom
  <2>2. One!FilledBy(o) \cap One!RegCells(PcOf(Arch)) = {}
    BY <1>2, <1>3, <2>1 DEF InForce
  <2>3. \A s \in SubRegsOf(Arch, o.name, o.value) : Len(s.value) = Profiles[Arch][s.reg].size
    BY <1>4, <1>6 DEF OperandsFit
  <2>4. \A s \in SubRegsOf(Arch, o.name, o.value) :
          Emulator(Arch)!ReadReg(arena, s.reg) = s.value
    BY <1>1, <1>2, <1>5, <1>6, <2>2, <2>3
  <2>5. \A s \in SubRegsOf(Arch, o.name, o.value) :
          SubRegContentsOf(Arch, s.reg, s.value) = s.value
    BY <2>1, PartsAgree
  <2> QED
    BY <2>1, <2>4, <2>5 DEF FoundEqual
<1>7. CASE Emulator(Arch)!IsPlain(o)
  <2>1. ~ Emulator(Arch)!IsCustom(o)
    BY <1>7 DEF Emulator!IsPlain
  <2>2. /\ Len(v) = Profiles[Arch][r].size
        /\ r = PcOf(Arch) => \A k \in 2 .. Len(v) : v[k] = 0
    BY <1>4, <1>7 DEF OperandsFit
  <2>3. \/ One!FilledBy(o) \cap One!RegCells(PcOf(Arch)) = {}
        \/ r = PcOf(Arch) /\ v[1] = f.addr
    BY <1>2, <1>3 DEF InForce
  <2>4. v \in Seq(V)
    <3>1. Len(o.value) >= 1
      BY <1>4, <1>7, ArchsAssumption DEF Emulator!IsPlain, Emulator!IsMappedReg,
         Emulator!IsReg, CellsNeeded
    <3> QED
      BY <1>4, <3>1, FromTraceTypes
  <2>5. r = PcOf(Arch) /\ v[1] = f.addr => v = One!PcContents(f.addr)
    <3> SUFFICES ASSUME r = PcOf(Arch), v[1] = f.addr
                 PROVE  v = One!PcContents(f.addr)
      OBVIOUS
    <3> HIDE DEF v
    <3>1. v = [k \in 1 .. Profiles[Arch][PcOf(Arch)].size |-> IF k = 1 THEN f.addr ELSE 0]
      BY <2>2, <2>4
    <3> QED
      BY <3>1 DEF One!PcContents
  <2>6. Emulator(Arch)!ReadReg(arena, r) = v
    BY <1>1, <1>2, <1>5, <1>7, <2>2, <2>3, <2>5
  <2>7. FromRizinOf(Arch, o.name, v) = v
    BY <1>4, ConversionsAgree
  <2> QED
    BY <2>1, <2>6, <2>7 DEF FoundEqual
<1>8. CASE ~ Emulator(Arch)!IsCustom(o) /\ ~ Emulator(Arch)!IsPlain(o)
  BY <1>8 DEF FoundEqual
<1> QED
  BY <1>6, <1>7, <1>8

\* With every adapter, for all profiles and traces whose operands fit the profile,
\* RunFrame finds a register that it has loaded from the trace, and nothing has
\* overwritten, equal to the trace.
THEOREM LoadedAsComparedCorrect ==
  ASSUME OperandsFit(Arch)
  PROVE  Spec /\ adapter = Arch => []LoadedAsCompared
<1>1. Init /\ adapter = Arch => Arch \in Archs
  BY DEF Init
<1>2. CASE Arch \in Archs
  <2>1. Init /\ adapter = Arch => One!Init
    BY SameInit DEF Init
  <2>2. adapter = Arch /\ [Next]_vars => (adapter = Arch)' /\ [One!Next]_(One!vars)
    <3>1. CASE UNCHANGED vars
      BY <3>1, SameVars DEF vars
    <3>2. CASE Next
      BY <3>2, SameStep DEF Next
    <3> QED
      BY <3>1, <3>2
  <2>3. One!Spec => []One!LoadedHere
    BY <1>2, AssumptionsMet, One!LoadedAtLift
  <2>4. adapter = Arch /\ One!LoadedHere => LoadedAsCompared
    <3> SUFFICES ASSUME adapter = Arch, One!LoadedHere, at = "lift",
                        NEW j \in DOMAIN frame.pre, InForce(Arch, frame, j)
                 PROVE  FoundEqual(Arch, frame.pre[j])
      BY DEF LoadedAsCompared
    <3> QED
      BY <1>2, InForceFoundEqual DEF One!LoadedHere
  <2> QED
    BY <2>1, <2>2, <2>3, <2>4, PTL DEF Spec, One!Spec
<1>3. CASE Arch \notin Archs
  <2>1. ~ (Init /\ adapter = Arch)
    BY <1>1, <1>3
  <2> QED
    BY <2>1, PTL DEF Spec
<1> QED
  BY <1>2, <1>3
=============================================================================
