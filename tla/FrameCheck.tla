----------------------------- MODULE FrameCheck -----------------------------
(***************************************************************************)
(* RizinEmulator::RunFrame (rzemu.cpp): loads the pre-state of a frame,    *)
(* lifts and executes its instruction in the IL VM of rizin, and compares  *)
(* registers, memory, PC and events of the VM with the frame.              *)
(*                                                                         *)
(* One action per branch of a loop body.  The arena, memory and asm.bits   *)
(* belong to the RizinEmulator and survive the call; the rest are locals,  *)
(* put back to fixed values when the call returns.                         *)
(***************************************************************************)
EXTENDS FrameBase

CONSTANTS
  Frames,     \* the frames a trace may hold
  NextPcs,    \* values of the argument next_pc
  InsnIds,    \* values of RzAnalysisOp.id
  MaxEvents,  \* bound of the model: events of one instruction
  WriteVals   \* bound of the model: what the instructions write into a cell

OperandType ==
  [kind : {"reg", "mem", "none"}, name : STRING, addr : Addr, value : Seq(Val)]
FrameType ==
  [std : BOOLEAN, addr : Addr, code : Seq(Val), mode : STRING,
   pre : Seq(OperandType), post : Seq(OperandType)]

ASSUME FrameAssumption ==
  /\ Frames \subseteq FrameType
  /\ \A f \in Frames : \A o \in Range(f.pre) \cup Range(f.post) :
       IsMem(o) => o.addr + Len(o.value) < MemSize
  /\ NextPcs \subseteq Addr \cup {NoPc}
  /\ WriteVals \subseteq Val

\* What the adapter makes of the operands is again contents of registers.
ASSUME AdapterAssumption ==
  /\ RizinBits("none") \in Nat
  /\ \A f \in Frames :
       /\ RizinBits(f.mode) \in Nat
       /\ \A o \in Range(f.pre) :
            /\ IsPlain(o) =>
                 AdjustRegContentsFromTrace(o.name, o.value, NullOp) \in Seq(Val)
            /\ IsCustom(o) =>
                 \A s \in SubRegs(o.name, o.value) :
                   s.reg \in DOMAIN Regs /\ s.value \in Seq(Val)
       /\ \A o \in Range(f.post) :
            IsPlain(o) /\ RegOf(o) = PcReg =>
              AdjustRegContentsFromTrace(o.name, o.value, f.code)[1] \in Val

\* No register of rizin is compared by RunFrame under one name of the trace
\* and by the adapter under another, or post_op_map would count both.
ASSUME CustomAssumption ==
  \A f \in Frames : \A o, p \in Range(f.post) :
    IsMappedReg(o) /\ IsMappedReg(p) /\ RegOf(o) = RegOf(p) =>
      (IsCustom(o) <=> IsCustom(p))

\* The registers that the adapter unpacks a trace register into are distinct
\* ones of the profile, or the order of CustomRegSetup would matter.
ASSUME SubRegAssumption ==
  \A f \in Frames : \A o \in Range(f.pre) :
    IsCustom(o) =>
      \A s, t \in SubRegs(o.name, o.value) :
        s # t => RegCells(s.reg) \cap RegCells(t.reg) = {}

VARIABLES
  frame, nextPc,                     \* the arguments
  at, i,                             \* control, position in the current loop
  arena, mem, bits,                  \* RzReg, RzIO, asm.bits
  events, vmPc,                      \* of the IL VM, for this step
  postCount, pcExpect, mismatch,     \* locals
  testedInsnId, result               \* *tested_insn_id, the returned value

call == <<frame, nextPc>>
machine == <<arena, mem, bits>>
vm == <<events, vmPc>>
locals == <<postCount, pcExpect, mismatch>>
outcome == <<testedInsnId, result>>
vars == <<call, at, i, machine, vm, locals, outcome>>

NoCounts == [r \in {} |-> 0]

Init ==
  /\ frame \in Frames /\ nextPc = NoPc
  /\ at = "idle" /\ i = 1
  /\ arena = ZeroArena /\ mem = BlankMem
  /\ bits = RizinBits("none")     \* the constructor passes std::nullopt
  /\ events = <<>> /\ vmPc = 0
  /\ postCount = NoCounts /\ pcExpect = 0 /\ mismatch = FALSE
  /\ testedInsnId = 0 /\ result = "Unkown"

Goto(label) == at' = label /\ i' = 1
Return(r) ==
  /\ Goto("idle")
  /\ result' = r
  /\ events' = <<>> /\ vmPc' = 0
  /\ postCount' = NoCounts /\ pcExpect' = 0 /\ mismatch' = FALSE

\* The caller passes the frame and the address of the next one.
Call ==
  /\ at = "idle"
  /\ frame' \in Frames /\ nextPc' \in NextPcs
  /\ Goto("begin")
  /\ UNCHANGED <<machine, vm, locals, outcome>>

-----------------------------------------------------------------------------
\* Mutant: the mode is only taken over when none is set yet.
SwitchBitsOnce ==
  bits' = IF bits = 0 THEN RizinBits(frame.mode) ELSE bits
SwitchBits ==
  LET need == RizinBits(frame.mode)
  IN  bits' = IF need # 0 THEN need ELSE bits

NonStd ==
  /\ at = "begin"
  /\ ~ frame.std
  /\ Return("Unimplemented")
  /\ UNCHANGED <<call, machine, testedInsnId>>

NoCode ==
  /\ at = "begin"
  /\ frame.std /\ frame.code = <<>>
  /\ SwitchBits
  /\ Return("InvalidOp")
  /\ UNCHANGED <<call, arena, mem, testedInsnId>>

Skip ==
  /\ at = "begin"
  /\ frame.std /\ frame.code # <<>> /\ frame.code \in SkippedCode
  /\ SwitchBits
  /\ Return("Skipped")
  /\ UNCHANGED <<call, arena, mem, testedInsnId>>

\* Mutant: registers keep what the frame before left in them.
SetUpKeepsArena ==
  /\ at = "begin"
  /\ frame.std /\ frame.code # <<>> /\ frame.code \notin SkippedCode
  /\ SwitchBits
  /\ mem' = IF CacheReset THEN WriteMem(BlankMem, frame.addr, frame.code) ELSE mem
  /\ Goto("pre")
  /\ UNCHANGED <<call, arena, vm, locals, outcome>>
\* Mutant: resets the cache although -n is given.
SetUpResets ==
  /\ at = "begin"
  /\ frame.std /\ frame.code # <<>> /\ frame.code \notin SkippedCode
  /\ SwitchBits
  /\ mem' = WriteMem(BlankMem, frame.addr, frame.code)
  /\ arena' = ZeroArena
  /\ Goto("pre")
  /\ UNCHANGED <<call, vm, locals, outcome>>
SetUp ==
  /\ at = "begin"
  /\ frame.std /\ frame.code # <<>> /\ frame.code \notin SkippedCode
  /\ SwitchBits
  /\ mem' = IF CacheReset THEN WriteMem(BlankMem, frame.addr, frame.code) ELSE mem
  /\ arena' = ZeroArena
  /\ Goto("pre")
  /\ UNCHANGED <<call, vm, locals, outcome>>

-----------------------------------------------------------------------------
\* The loop over the pre-operands.
PreVisit == at = "pre" /\ i <= Len(frame.pre)
PreOperand == frame.pre[i]

PreReg ==
  /\ PreVisit
  /\ IsReg(PreOperand)
  /\ arena' =
       LET o == PreOperand
       IN  IF IsCustom(o) THEN WriteRegs(arena, SubRegs(o.name, o.value))
           ELSE IF IsPlain(o)
           THEN WriteRegs(arena, {[reg |-> RegOf(o), value |->
                  AdjustRegContentsFromTrace(o.name, o.value, NullOp)]})
           ELSE arena
  /\ i' = i + 1
  /\ UNCHANGED <<call, at, mem, bits, vm, locals, outcome>>

PreMem ==
  /\ PreVisit
  /\ IsMem(PreOperand)
  /\ mem' = WriteMem(mem, PreOperand.addr, PreOperand.value)
  /\ i' = i + 1
  /\ UNCHANGED <<call, at, arena, bits, vm, locals, outcome>>

PreUntyped ==
  /\ PreVisit
  /\ Untyped(PreOperand)
  /\ Return("Unimplemented")
  /\ UNCHANGED <<call, machine, testedInsnId>>

SetPc ==
  /\ at = "pre" /\ i > Len(frame.pre)
  /\ arena' = WriteRegs(arena, {[reg |-> PcReg, value |-> PcContents(frame.addr)]})
  /\ Goto("lift")
  /\ UNCHANGED <<call, mem, bits, vm, locals, outcome>>

-----------------------------------------------------------------------------
\* rz_analysis_op fails, or the plugin does not lift.
NotLifted ==
  /\ at = "lift"
  /\ \E r \in {"InvalidOp", "Unimplemented"} : Return(r)
  /\ UNCHANGED <<call, machine, testedInsnId>>

\* The id is handed out before the IL is validated.
InvalidIL ==
  /\ at = "lift"
  /\ testedInsnId' \in InsnIds
  /\ Return("InvalidOp")
  /\ UNCHANGED <<call, machine>>

Lifted ==
  /\ at = "lift"
  /\ testedInsnId' \in InsnIds
  /\ Goto("step")
  /\ UNCHANGED <<call, machine, vm, locals, result>>

-----------------------------------------------------------------------------
\* The IL VM executes what it finds at the PC.  It may do anything that IL
\* can do to bound registers and to memory, and records every access.
VmGoesOn == at = "step" /\ Len(events) < MaxEvents
Record(e) == events' = Append(events, e)

VarRead ==
  /\ VmGoesOn
  /\ \E v \in Bound : Record([kind |-> "read", var |-> v])
  /\ UNCHANGED <<call, at, i, machine, vmPc, locals, outcome>>

VarWrite ==
  /\ VmGoesOn
  /\ \E v \in Bound : \E new \in [1 .. Regs[v].size -> WriteVals] :
       /\ Record([kind |-> "write", var |-> v,
                  same |-> new = ReadReg(arena, v)])
       /\ arena' = WriteRegs(arena, {[reg |-> v, value |-> new]})
  /\ UNCHANGED <<call, at, i, mem, bits, vmPc, locals, outcome>>

MemEvent(k, x) ==
  [kind |-> k, addr |-> x.addr, size |-> x.size, index |-> x.index]

MemRead ==
  /\ VmGoesOn
  /\ \E x \in Accesses : Record(MemEvent("load", x))
  /\ UNCHANGED <<call, at, i, machine, vmPc, locals, outcome>>

\* IL memory 0 is the memory of RzIO; any other is private to the VM.
MemWrite ==
  /\ VmGoesOn
  /\ \E x \in Accesses, n \in WriteVals :
       /\ Record(MemEvent("store", x))
       /\ mem' = IF x.index = 0
                  THEN WriteMem(mem, x.addr, [k \in 1 .. x.size |-> n]) ELSE mem
  /\ UNCHANGED <<call, at, i, arena, bits, vmPc, locals, outcome>>

\* rz_analysis_il_vm_step reports an error.
StepFailed ==
  /\ at = "step"
  /\ \E r \in {"VMRuntimeError", "InvalidOp", "Unimplemented", "InvalidIL"} :
       Return(r)
  /\ UNCHANGED <<call, machine, testedInsnId>>

\* Mutant: the first operand of a register counts 0.
PostOpMapFromZero ==
  LET names == {RegOf(o) : o \in {p \in Range(frame.post) : IsMappedReg(p)}}
  IN  [r \in names |-> Cardinality({j \in DOMAIN frame.post :
         IsMappedReg(frame.post[j]) /\ RegOf(frame.post[j]) = r}) - 1]
\* get_post_op_map: how often a register occurs in the post-operands.
PostOpMap ==
  LET names == {RegOf(o) : o \in {p \in Range(frame.post) : IsMappedReg(p)}}
  IN  [r \in names |-> Cardinality({j \in DOMAIN frame.post :
         IsMappedReg(frame.post[j]) /\ RegOf(frame.post[j]) = r})]

\* The address after the instruction.
FallThrough(f) == (f.addr + Len(f.code)) % MemSize

\* Mutant: reads next_pc although there is none.
StepDoneNextOnly ==
  /\ at = "step"
  /\ vmPc' \in Addr
  /\ \E p \in Addr :
       arena' = WriteRegs(arena, {[reg |-> PcReg, value |-> PcContents(p)]})
  /\ pcExpect' = nextPc
  /\ postCount' = PostOpMap
  /\ Goto("post")
  /\ UNCHANGED <<call, mem, bits, events, mismatch, outcome>>
\* The step succeeds: the VM leaves its pc and the PC register.
StepDone ==
  /\ at = "step"
  /\ vmPc' \in Addr
  /\ \E p \in Addr :
       arena' = WriteRegs(arena, {[reg |-> PcReg, value |-> PcContents(p)]})
  /\ pcExpect' = IF nextPc # NoPc THEN nextPc ELSE FallThrough(frame)
  /\ postCount' = PostOpMap
  /\ Goto("post")
  /\ UNCHANGED <<call, mem, bits, events, mismatch, outcome>>

-----------------------------------------------------------------------------
\* trace -> vm: the loop over the post-operands.
PostVisit == at = "post" /\ i <= Len(frame.post)
PostOperand == frame.post[i]
Mismatched(found) == mismatch' = (mismatch \/ found)

\* Not in rizin: neither compared nor counted.
PostUnknown ==
  /\ PostVisit
  /\ IsReg(PostOperand) /\ ~ IsCustom(PostOperand) /\ ~ IsPlain(PostOperand)
  /\ i' = i + 1
  /\ UNCHANGED <<call, at, machine, vm, locals, outcome>>

\* CustomRegCompare
PostCustom ==
  /\ PostVisit
  /\ IsCustom(PostOperand)
  /\ Mismatched(\E s \in SubRegs(PostOperand.name, PostOperand.value) :
       /\ SubRegContents(s.reg, ReadReg(arena, s.reg)) # s.value
       /\ ~ IgnorePostMismatchReg(s.reg))
  /\ i' = i + 1
  /\ UNCHANGED <<call, at, machine, vm, postCount, pcExpect, outcome>>

\* A mismatch counts at the last operand of the register only; as long as
\* more are to come it just counts down.
PostReg ==
  /\ PostVisit
  /\ IsPlain(PostOperand)
  /\ LET o == PostOperand
         rn == RegOf(o)
         tbv == AdjustRegContentsFromTrace(o.name, o.value, frame.code)
         rbv == AdjustRegContentsFromRizin(o.name, ReadReg(arena, rn))
         found == /\ tbv # rbv
                  /\ postCount[rn] <= 1
                  /\ ~ IgnorePostMismatchReg(rn)
     IN  /\ pcExpect' = IF rn = PcReg THEN tbv[1] ELSE pcExpect
         /\ Mismatched(found)
         /\ postCount' = IF found THEN postCount
                         ELSE [postCount EXCEPT ![rn] = @ - 1]
  /\ i' = i + 1
  /\ UNCHANGED <<call, at, machine, vm, outcome>>

PostMem ==
  /\ PostVisit
  /\ IsMem(PostOperand)
  /\ Mismatched(/\ ~ IgnoreCompareMemMismatch
                /\ ReadMem(mem, PostOperand.addr, Len(PostOperand.value))
                     # PostOperand.value)
  /\ i' = i + 1
  /\ UNCHANGED <<call, at, machine, vm, postCount, pcExpect, outcome>>

\* The mismatches found so far are forgotten.
PostUntyped ==
  /\ PostVisit
  /\ Untyped(PostOperand)
  /\ Return("Unimplemented")
  /\ UNCHANGED <<call, machine, testedInsnId>>

ComparePc ==
  /\ at = "post" /\ i > Len(frame.post)
  /\ Mismatched(/\ vmPc # pcExpect
                /\ RegPc(arena) # pcExpect
                /\ ~ IgnorePCMismatch(RegPc(arena), pcExpect))
  /\ Goto("events")
  /\ UNCHANGED <<call, machine, vm, postCount, pcExpect, outcome>>

-----------------------------------------------------------------------------
\* vm -> trace: the loop over the events of the VM.
\* Mutant: only a variable of the same name overlaps.
TraceRegIsILVar(o, var) == var \in Bound /\ RegOf(o) = var
TraceRegOverlapsILVar(o, var) ==
  LET rn == RegOf(o) IN
  /\ rn # Unmapped /\ rn \in DOMAIN Regs
  /\ var \in Bound
  /\ \/ rn = var
     \/ /\ var \in DOMAIN Regs
        /\ Regs[rn].type = Regs[var].type
        /\ ~ \/ Regs[var].offset >= Regs[rn].offset + Regs[rn].size
             \/ Regs[var].offset + Regs[var].size <= Regs[rn].offset

InOperands(ops, var) ==
  \E o \in Range(ops) : IsReg(o) /\ TraceRegOverlapsILVar(o, var)

\* Memory accesses are decided by MemAccessJustifiedByOperands: MemJustify.
Justified(e) ==
  \/ AssumeEventIsJustified(e)
  \/ CASE e.kind = "read" ->
            InOperands(frame.pre, e.var) \/ InOperands(frame.post, e.var)
       [] e.kind = "write" ->
            \/ AllowNoOperandSameValueAssignment /\ e.same
            \/ InOperands(frame.post, e.var)
       [] e.kind = "load" -> Covered(e.addr, e.size, Described(frame.pre))
       [] e.kind = "store" -> Covered(e.addr, e.size, Described(frame.post))

CheckEvent ==
  /\ at = "events" /\ i <= Len(events)
  /\ Mismatched(~ Justified(events[i]))
  /\ i' = i + 1
  /\ UNCHANGED <<call, at, machine, vm, postCount, pcExpect, outcome>>

Finish ==
  /\ at = "events" /\ i > Len(events)
  /\ Return(IF mismatch THEN "PostStateMismatch" ELSE "Success")
  /\ UNCHANGED <<call, machine, testedInsnId>>

-----------------------------------------------------------------------------
Step ==
  \/ NonStd \/ NoCode \/ Skip \/ SetUp
  \/ PreReg \/ PreMem \/ PreUntyped \/ SetPc
  \/ NotLifted \/ InvalidIL \/ Lifted
  \/ VarRead \/ VarWrite \/ MemRead \/ MemWrite \/ StepFailed \/ StepDone
  \/ PostUnknown \/ PostCustom \/ PostReg \/ PostMem \/ PostUntyped
  \/ ComparePc \/ CheckEvent \/ Finish

Next == Call \/ Step

Spec == Init /\ [][Next]_vars

-----------------------------------------------------------------------------
\* Types of the emulator's state and of the locals of RunFrame.
TypeOK ==
  /\ frame \in Frames /\ nextPc \in NextPcs \cup {NoPc}
  /\ at \in {"idle", "begin", "pre", "lift", "step", "post", "events"}
  /\ i \in Nat \ {0}
  /\ arena \in [Cells -> Val] /\ mem \in [Addr -> Val] /\ bits \in Nat
  /\ events \in Seq(Events) /\ vmPc \in Addr
  /\ DOMAIN postCount \subseteq {RegOf(o) : o \in Range(frame.post)}
  /\ \A r \in DOMAIN postCount : postCount[r] \in Int
  /\ at \in {"post", "events"} \/ postCount = NoCounts
  /\ pcExpect \in Val /\ mismatch \in BOOLEAN
  /\ testedInsnId \in InsnIds \cup {0} /\ result \in Results

\* While operands of a register are still to come, post_op_map counts just
\* them, so that exactly the last one is compared strictly, also when an
\* earlier one matched, mismatched or was ignored.
CountdownInv ==
  at = "post" =>
    \A r \in DOMAIN postCount :
      LET left == {j \in i .. Len(frame.post) :
                     IsPlain(frame.post[j]) /\ RegOf(frame.post[j]) = r}
      IN  left # {} => postCount[r] = Cardinality(left)

\* RunFrame computes the verdict of the one-step specification: registers before
\* the step come from the frame alone, whatever earlier frames left, and so does
\* memory where it is reset; the result depends on the last post-operand of each
\* register, on all memory operands, on the PC and on the coverage of the events.
Phase ==
  CASE at = "idle" -> "idle"
    [] at \in {"begin", "pre"} -> "called"
    [] at = "lift" -> "loaded"
    [] at = "step" -> "running"
    [] at \in {"post", "events"} -> "halted"
Visible == at \in {"lift", "step", "post", "events"}
Oracle == INSTANCE FrameOracle
            WITH phase <- Phase,
                 arena <- IF Visible THEN arena ELSE NoCounts,
                 mem <- IF Visible THEN mem ELSE NoCounts
ImplementsOracle == Oracle!Spec

\* The comment at cache_reset: "effects of ops should only depend on the
\* operands and bytes given explicitly in the frame".  What the instruction
\* means depends on asm.bits too.
BitsFromFrame ==
  at = "lift" => \/ RizinBits(frame.mode) = bits
                 \/ RizinBits(frame.mode) = 0 /\ bits = RizinBits("none")

\* Option -m stops "at the first execution mismatch", which it can only do
\* when RunFrame returns the mismatch that it has found and printed.
MismatchReported ==
  [][mismatch /\ at' = "idle" => result' = "PostStateMismatch"]_vars
=============================================================================
