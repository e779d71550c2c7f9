------------------------------ MODULE FrameBase -----------------------------
(***************************************************************************)
(* The vocabulary of a frame check: what a std_frame carries, the register *)
(* arena of rizin, the IL events, and the methods of TraceAdapter, which   *)
(* are constant operators here so that every adapter is an instance.       *)
(*                                                                         *)
(* Contents are sequences of cells.  A cell of a register is a group of    *)
(* neighbouring bits that the adapter and the overlapping registers treat  *)
(* alike; a cell of memory is a byte.  Cells hold small numbers.  The first*)
(* cell of the program counter holds an address; a register that is wider  *)
(* than the addresses of the trace has cells above it, which are zero.     *)
(***************************************************************************)
EXTENDS MemCover, Functions, FiniteSets

CONSTANTS
  MemSize,      \* addresses are 0 .. MemSize - 1, and cells hold addresses
  Blank,        \* what memory reads as where nothing was written
  Regs,         \* the RzReg profile: name -> [type, offset, size]
  PcReg,        \* name of the register with the PC role
  Bound,        \* registers bound to global IL variables
  CacheReset,   \* FALSE with option -n
  Accesses,     \* [addr, size, index] of the IL VM's memory accesses
  SkippedCode,  \* instruction bytes whose disassembly matches option -s
  \* the virtual methods of TraceAdapter
  RizinBits(_), TraceRegToRizin(_), RegNeedsCustomHandling(_),
  SubRegs(_, _), SubRegContents(_, _),
  AdjustRegContentsFromTrace(_, _, _), AdjustRegContentsFromRizin(_, _),
  IgnorePostMismatchReg(_), IgnorePCMismatch(_, _), IgnoreCompareMemMismatch,
  AssumeEventIsJustified(_), AllowNoOperandSameValueAssignment

Addr == 0 .. (MemSize - 1)
Val == Addr
NoPc == -1            \* std::nullopt for next_pc
NullOp == <<>>        \* no RzAnalysisOp given
Unmapped == ""        \* a trace register that does not exist in rizin
Results == {"Success", "Skipped", "InvalidOp", "InvalidIL", "VMRuntimeError",
            "PostStateMismatch", "Unimplemented", "Unkown"}

\* The VM's accesses stay away from the end of the address space, where
\* MemAccessJustifiedByOperands promises nothing (JustifyOracle).
ASSUME MemoryAssumption ==
  /\ MemSize \in Nat \ {0}
  /\ Blank \in Val
  /\ \A x \in Accesses : x.addr \in Addr /\ x.size \in Nat /\ x.addr + x.size < MemSize

\* The constructor throws when there is no IL VM for the profile; RunFrame
\* refuses every frame when the profile has no PC.
ASSUME ProfileAssumption ==
  /\ \A r \in DOMAIN Regs : Regs[r].offset \in Nat /\ Regs[r].size \in Nat \ {0}
  /\ PcReg \in DOMAIN Regs
  /\ Bound \subseteq DOMAIN Regs

-----------------------------------------------------------------------------
\* The arena: one value per cell <<type, offset>> of the register profile.
RegCells(r) ==
  {<<Regs[r].type, Regs[r].offset + k>> : k \in 0 .. (Regs[r].size - 1)}
Cells == UNION {RegCells(r) : r \in DOMAIN Regs}
ZeroArena == [c \in Cells |-> 0]
CellOfReg(r, k) == <<Regs[r].type, Regs[r].offset + k - 1>>

\* rz_reg_get_bv
ReadReg(a, r) == [k \in 1 .. Regs[r].size |-> a[CellOfReg(r, k)]]
\* rz_reg_set_bv of some [reg, value]; a value of another size than the
\* register's cannot be applied.
WriteRegs(a, parts) ==
  LET fitting(c) == {p \in parts : c \in RegCells(p.reg)
                                    /\ Len(p.value) = Regs[p.reg].size}
  IN  [c \in Cells |->
         IF fitting(c) = {} THEN a[c]
         ELSE LET p == CHOOSE p \in fitting(c) : TRUE
              IN  p.value[c[2] - Regs[p.reg].offset + 1]]
\* rz_reg_get_value and rz_reg_set_value on the PC
RegPc(a) == a[CellOfReg(PcReg, 1)]
PcContents(p) == [k \in 1 .. Regs[PcReg].size |-> IF k = 1 THEN p ELSE 0]

BlankMem == [b \in Addr |-> Blank]
\* rz_io_write_at and rz_io_read_at_mapped
WriteMem(m, a, v) ==
  [b \in Addr |-> IF b \in Extent(a, Len(v)) THEN v[b - a + 1] ELSE m[b]]
ReadMem(m, a, n) == [k \in 1 .. n |-> m[(a + k - 1) % MemSize]]

-----------------------------------------------------------------------------
\* Operands.  The value of an operand is already cut to OperandSizeBits.
IsReg(o) == o.kind = "reg"
IsMem(o) == o.kind = "mem"
Untyped(o) == ~ IsReg(o) /\ ~ IsMem(o)
RegOf(o) == TraceRegToRizin(o.name)
IsMappedReg(o) == IsReg(o) /\ RegOf(o) # Unmapped
IsCustom(o) == IsMappedReg(o) /\ RegNeedsCustomHandling(o.name)
\* handled by RunFrame itself, and in the register profile of rizin
IsPlain(o) == IsMappedReg(o) /\ ~ IsCustom(o) /\ RegOf(o) \in DOMAIN Regs

\* An event-justifying memory operand list, as byte ranges.
Described(ops) ==
  {[addr |-> ops[j].addr, size |-> Len(ops[j].value)] :
     j \in {k \in DOMAIN ops : IsMem(ops[k])}}

\* IL events; `same` tells whether a write assigns the value already there.
\* Writes of the PC are events too, but no check looks at them.
Events ==
  [kind : {"read"}, var : Bound]
    \cup [kind : {"write"}, var : Bound, same : BOOLEAN]
    \cup {[kind |-> k, addr |-> x.addr, size |-> x.size, index |-> x.index] :
            k \in {"load", "store"}, x \in Accesses}
=============================================================================
