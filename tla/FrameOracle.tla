----------------------------- MODULE FrameOracle ----------------------------
(***************************************************************************)
(* What RunFrame promises to the loop in main: the outcome of a frame is a *)
(* function of the frame, of the address of the next one, of what the IL   *)
(* VM did and, where memory is not reset, of the memory it started from.   *)
(* It is not one of the registers that earlier frames left, of the order   *)
(* of operands beyond "the last one counts", or of the way the comparison  *)
(* loops go about it.  Registers and memory are visible only from the      *)
(* moment the pre-state is complete to the moment RunFrame returns.        *)
(***************************************************************************)
EXTENDS FrameBase

CONSTANTS Frames, NextPcs

VARIABLES frame, nextPc, phase, arena, mem, events, vmPc, result

call == <<frame, nextPc>>
vars == <<call, phase, arena, mem, events, vmPc, result>>

Hidden == [c \in {} |-> 0]

Init ==
  /\ frame \in Frames /\ nextPc = NoPc
  /\ phase = "idle"
  /\ arena = Hidden /\ mem = Hidden
  /\ events = <<>> /\ vmPc = 0
  /\ result = "Unkown"

\* The value a list of writes leaves in a cell: the last write counts.
LastOf(js) == CHOOSE j \in js : \A k \in js : k <= j

\* The writes of pre-operand j: a set of <<cell or address, value>>.
RegWrite(r, v) ==
  IF Len(v) # Regs[r].size THEN {}
  ELSE {<<CellOfReg(r, k), v[k]>> : k \in DOMAIN v}
ArenaWrites(o) ==
  IF IsCustom(o)
  THEN UNION {RegWrite(s.reg, s.value) : s \in SubRegs(o.name, o.value)}
  ELSE IF IsPlain(o)
  THEN RegWrite(RegOf(o), AdjustRegContentsFromTrace(o.name, o.value, NullOp))
  ELSE {}
MemWrites(o) ==
  IF IsMem(o) THEN {<<o.addr + k - 1, o.value[k]>> : k \in DOMAIN o.value}
  ELSE {}
\* What the write to x among `writes` stores.
Written(writes, x) == (CHOOSE w \in writes : w[1] = x)[2]

PreArena(f) ==
  [c \in Cells |->
     LET js == {j \in DOMAIN f.pre : \E w \in ArenaWrites(f.pre[j]) : w[1] = c}
     IN  IF c \in RegCells(PcReg) THEN PcContents(f.addr)[c[2] - Regs[PcReg].offset + 1]
         ELSE IF js = {} THEN 0
         ELSE Written(ArenaWrites(f.pre[LastOf(js)]), c)]
PreMem(f) ==
  [b \in Addr |->
     LET js == {j \in DOMAIN f.pre : \E w \in MemWrites(f.pre[j]) : w[1] = b}
     IN  IF js # {} THEN Written(MemWrites(f.pre[LastOf(js)]), b)
         ELSE IF b \in Extent(f.addr, Len(f.code))
         THEN f.code[b - f.addr + 1] ELSE Blank]

-----------------------------------------------------------------------------
\* Whether frame f is refused before anything is executed, and as what.
Refusal(f) ==
  IF ~ f.std THEN "Unimplemented"
  ELSE IF f.code = <<>> THEN "InvalidOp"
  ELSE IF f.code \in SkippedCode THEN "Skipped"
  ELSE IF \E j \in DOMAIN f.pre : Untyped(f.pre[j]) THEN "Unimplemented"
  ELSE "none"

\* Operand j is the last post operand of its rizin register.
IsLast(ops, j) ==
  \A k \in (j + 1) .. Len(ops) :
    ~ (IsMappedReg(ops[k]) /\ RegOf(ops[k]) = RegOf(ops[j]))

RegsAgree(f, a) ==
  \A j \in DOMAIN f.post :
    LET o == f.post[j] IN
    /\ IsPlain(o) /\ IsLast(f.post, j) /\ ~ IgnorePostMismatchReg(RegOf(o)) =>
         AdjustRegContentsFromTrace(o.name, o.value, f.code)
           = AdjustRegContentsFromRizin(o.name, ReadReg(a, RegOf(o)))
    /\ IsCustom(o) =>
         \A s \in SubRegs(o.name, o.value) :
           \/ IgnorePostMismatchReg(s.reg)
           \/ SubRegContents(s.reg, ReadReg(a, s.reg)) = s.value

MemAgrees(f, m) ==
  IgnoreCompareMemMismatch \/
    \A j \in DOMAIN f.post :
      IsMem(f.post[j]) => \A k \in DOMAIN f.post[j].value :
        m[f.post[j].addr + k - 1] = f.post[j].value[k]

PcExpected(f, np) ==
  LET js == {j \in DOMAIN f.post : IsPlain(f.post[j]) /\ RegOf(f.post[j]) = PcReg}
  IN  IF js # {}
      THEN LET o == f.post[LastOf(js)]
           IN  AdjustRegContentsFromTrace(o.name, o.value, f.code)[1]
      ELSE IF np # NoPc THEN np ELSE (f.addr + Len(f.code)) % MemSize
PcAgrees(f, np, a, vp) ==
  LET e == PcExpected(f, np)
  IN  vp = e \/ RegPc(a) = e \/ IgnorePCMismatch(RegPc(a), e)

\* A register operand of the list shares a cell with the IL variable.
Touches(ops, var) ==
  \E j \in DOMAIN ops :
    /\ IsMappedReg(ops[j]) /\ RegOf(ops[j]) \in DOMAIN Regs
    /\ RegCells(RegOf(ops[j])) \cap RegCells(var) # {}
EventsExplained(f, es) ==
  \A n \in DOMAIN es :
    LET e == es[n] IN
    \/ AssumeEventIsJustified(e)
    \/ e.kind = "read" /\ (Touches(f.pre, e.var) \/ Touches(f.post, e.var))
    \/ e.kind = "write" /\ AllowNoOperandSameValueAssignment /\ e.same
    \/ e.kind = "write" /\ Touches(f.post, e.var)
    \/ e.kind = "load" /\ Covered(e.addr, e.size, Described(f.pre))
    \/ e.kind = "store" /\ Covered(e.addr, e.size, Described(f.post))

Verdict(f, np, a, m, es, vp) ==
  IF \E j \in DOMAIN f.post : Untyped(f.post[j]) THEN "Unimplemented"
  ELSE IF /\ RegsAgree(f, a) /\ MemAgrees(f, m)
          /\ PcAgrees(f, np, a, vp) /\ EventsExplained(f, es)
  THEN "Success" ELSE "PostStateMismatch"

-----------------------------------------------------------------------------
Return(r) ==
  /\ phase' = "idle" /\ result' = r
  /\ arena' = Hidden /\ mem' = Hidden /\ events' = <<>> /\ vmPc' = 0
  /\ UNCHANGED call

Call ==
  /\ phase = "idle"
  /\ frame' \in Frames /\ nextPc' \in NextPcs
  /\ phase' = "called"
  /\ UNCHANGED <<arena, mem, events, vmPc, result>>

Refuse ==
  /\ phase = "called"
  /\ Refusal(frame) # "none"
  /\ Return(Refusal(frame))

Load ==
  /\ phase = "called"
  /\ Refusal(frame) = "none"
  /\ phase' = "loaded"
  /\ arena' = PreArena(frame)
  /\ mem' \in [Addr -> Val] /\ (CacheReset => mem' = PreMem(frame))
  /\ UNCHANGED <<call, events, vmPc, result>>

\* Disassembled, not lifted or not valid; or handed to the IL VM.
Reject ==
  /\ phase = "loaded"
  /\ \E r \in {"InvalidOp", "Unimplemented"} : Return(r)
Start ==
  /\ phase = "loaded"
  /\ phase' = "running"
  /\ UNCHANGED <<call, arena, mem, events, vmPc, result>>

Perform ==
  /\ phase = "running"
  /\ \E e \in Events : events' = Append(events, e)
  /\ arena' \in [Cells -> Val] /\ mem' \in [Addr -> Val]
  /\ UNCHANGED <<call, phase, vmPc, result>>
Halt ==
  /\ phase = "running"
  /\ phase' = "halted"
  /\ vmPc' \in Addr
  /\ arena' \in [Cells -> Val]
  /\ UNCHANGED <<call, mem, events, result>>
Crash ==
  /\ phase = "running"
  /\ \E r \in {"VMRuntimeError", "InvalidOp", "Unimplemented", "InvalidIL"} :
       Return(r)

Judge ==
  /\ phase = "halted"
  /\ Return(Verdict(frame, nextPc, arena, mem, events, vmPc))

Next ==
  \/ Call \/ Refuse \/ Load \/ Reject \/ Start
  \/ Perform \/ Halt \/ Crash \/ Judge

Spec == Init /\ [][Next]_vars
=============================================================================
