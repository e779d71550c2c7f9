----------------------------- MODULE FrameArchs -----------------------------
(***************************************************************************)
(* RunFrame under every TraceAdapter: one emulator whose adapter is fixed  *)
(* when it is constructed, as a parameterised instance of FrameCheck.      *)
(***************************************************************************)
EXTENDS AdapterTable, FiniteSets, Functions

CONSTANTS
  Archs,         \* the adapters that a run selects
  Profiles,      \* arch -> register profile
  BoundOf,       \* arch -> bound registers
  FramesOf,      \* arch -> frames
  PcOf(_),       \* arch -> name of the PC
  Machine,       \* trace.get_machine()
  MemSize, Blank, Accesses, SkippedCode, NextPcs, InsnIds, MaxEvents, WriteVals

VARIABLES
  adapter, frame, nextPc, at, i, arena, mem, bits, events, vmPc,
  postCount, pcExpect, mismatch, testedInsnId, result

vars == <<adapter, frame, nextPc, at, i, arena, mem, bits, events, vmPc,
          postCount, pcExpect, mismatch, testedInsnId, result>>

Emulator(arch) ==
  INSTANCE FrameCheck WITH
    Regs <- Profiles[arch], PcReg <- PcOf(arch), Bound <- BoundOf[arch],
    Frames <- FramesOf[arch], CacheReset <- TRUE,
    RizinBits <- LAMBDA m : RizinBitsOf(arch, m, Machine),
    TraceRegToRizin <- LAMBDA t : TraceRegToRizinOf(arch, t),
    RegNeedsCustomHandling <- LAMBDA t : RegNeedsCustomHandlingOf(arch, t),
    SubRegs <- LAMBDA t, v : SubRegsOf(arch, t, v),
    SubRegContents <- LAMBDA r, v : SubRegContentsOf(arch, r, v),
    AdjustRegContentsFromTrace <- LAMBDA t, v, op : FromTraceOf(arch, t, v, op),
    AdjustRegContentsFromRizin <- LAMBDA t, v : FromRizinOf(arch, t, v),
    IgnorePostMismatchReg <- LAMBDA r : IgnorePostMismatchRegOf(arch, r),
    IgnorePCMismatch <- LAMBDA a, e : IgnorePCMismatchOf(arch, a, e),
    IgnoreCompareMemMismatch <- arch \in IgnoresMemMismatch,
    AssumeEventIsJustified <- LAMBDA e : AssumeEventIsJustifiedOf(arch, e),
    AllowNoOperandSameValueAssignment <- arch \in AllowsSameValue

\* The registers of rizin that an adapter unpacks a trace register into, and the
\* cells that its overrides look for in the value of a trace register.
Unpacked(arch) ==
  CASE arch = "sparc32" -> {"cwp", "ccr"}
    [] arch = "sparc64" -> {"cwp", "pstate", "asi", "ccr"}
    [] OTHER -> {}
CellsNeeded(arch, t) ==
  CASE arch = "sparc32" /\ t = "psr" -> 3
    [] arch = "sparc64" /\ t = "state" -> 4
    [] OTHER -> 1

\* Profiles and traces: frames are well-formed, their register operands are of
\* the registers' sizes at least, and rizin keeps the registers that an adapter
\* unpacks apart.  What RunFrame needs of an adapter beyond that is no assumption
\* (AdaptersAdmissible in FrameArchsProofs).
ASSUME MachineAssumption == Machine \in Nat /\ MemSize \in Nat \ {0, 1}
ASSUME ArchsAssumption ==
  \A arch \in Archs :
    /\ Emulator(arch)!MemoryAssumption
    /\ Emulator(arch)!ProfileAssumption
    /\ Emulator(arch)!FrameAssumption
    /\ \A f \in FramesOf[arch] : \A o \in Range(f.pre) \cup Range(f.post) :
         o.kind = "reg" => Len(o.value) >= CellsNeeded(arch, o.name)
    /\ Unpacked(arch) \subseteq DOMAIN Profiles[arch]
    /\ \A r, s \in Unpacked(arch) :
         r # s => Emulator(arch)!RegCells(r) \cap Emulator(arch)!RegCells(s) = {}

Init == \E arch \in Archs : adapter = arch /\ Emulator(arch)!Init
Next ==
  \E arch \in Archs :
    adapter = arch /\ Emulator(arch)!Next /\ UNCHANGED adapter

Spec == Init /\ [][Next]_vars

-----------------------------------------------------------------------------
\* With every adapter RunFrame computes the verdict of the one-step
\* specification (FrameCheck!ImplementsOracle): unpacked, renamed, widened and
\* masked registers, ignored mismatches and assumed events included.
ImplementsOracle ==
  /\ \A arch \in Archs : adapter = arch => Emulator(arch)!Oracle!Init
  /\ [][\A arch \in Archs : adapter = arch =>
          [Emulator(arch)!Oracle!Next]_(Emulator(arch)!Oracle!vars)]_vars

\* The cells that a pre-operand fills, and whether it is what fills them: no later
\* operand fills one of them, and the PC is the one that RunFrame sets at the end.
Filled(arch, o) ==
  IF Emulator(arch)!IsCustom(o)
  THEN UNION {Emulator(arch)!RegCells(s.reg) : s \in SubRegsOf(arch, o.name, o.value)}
  ELSE IF Emulator(arch)!IsPlain(o)
  THEN Emulator(arch)!RegCells(TraceRegToRizinOf(arch, o.name))
  ELSE {}
InForce(arch, f, j) ==
  /\ \A k \in (j + 1) .. Len(f.pre) : Filled(arch, f.pre[j]) \cap Filled(arch, f.pre[k]) = {}
  /\ \/ Filled(arch, f.pre[j]) \cap Emulator(arch)!RegCells(PcOf(arch)) = {}
     \/ /\ Emulator(arch)!IsPlain(f.pre[j])
        /\ TraceRegToRizinOf(arch, f.pre[j].name) = PcOf(arch)
        /\ FromTraceOf(arch, f.pre[j].name, f.pre[j].value, <<>>)[1] = f.addr
\* What RunFrame would find at operand o if it were a post-operand of an
\* instruction that reads no status register.
FoundEqual(arch, o) ==
  /\ Emulator(arch)!IsCustom(o) =>
       \A s \in SubRegsOf(arch, o.name, o.value) :
         SubRegContentsOf(arch, s.reg, Emulator(arch)!ReadReg(arena, s.reg)) = s.value
  /\ Emulator(arch)!IsPlain(o) =>
       FromTraceOf(arch, o.name, o.value, <<>>)
         = FromRizinOf(arch, o.name,
             Emulator(arch)!ReadReg(arena, TraceRegToRizinOf(arch, o.name)))

\* What an adapter loads from the trace it finds equal to the trace: an operand
\* of an instruction that leaves the registers alone is no mismatch, under
\* whichever name, of whichever width and with whatever masked away RunFrame
\* loads it, and whatever the operands before it have filled.  One override that
\* knows a register in one direction only, or in another size than rizin, would
\* make every frame that names it fail.
LoadedAsCompared ==
  at = "lift" =>
    \A arch \in Archs : adapter = arch =>
      \A j \in DOMAIN frame.pre :
        InForce(arch, frame, j) => FoundEqual(arch, frame.pre[j])

\* With every adapter, a frame is lifted with the bits of its mode and of the
\* machine of the container (FrameCheck!BitsFromFrame).
BitsFromFrame ==
  \A arch \in Archs : adapter = arch => Emulator(arch)!BitsFromFrame
=============================================================================
