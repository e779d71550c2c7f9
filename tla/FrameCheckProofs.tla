-------------------------- MODULE FrameCheckProofs --------------------------
(***************************************************************************)
(* Types of the emulator's state in RunFrame, for every register profile,  *)
(* adapter and set of frames, and the countdown of repeated registers.     *)
(***************************************************************************)
EXTENDS FrameCheck, FiniteSetTheorems, TLAPS

-----------------------------------------------------------------------------
\* Facts about contents, arena and memory.

\* Zero is a cell value, and the last address is below MemSize.
LEMMA ValFacts == MemSize \in Nat \ {0} /\ 0 \in Val /\ Addr = Val /\ Val \subseteq Nat
BY MemoryAssumption DEF Val, Addr

\* An element of a sequence of contents is contents.
LEMMA CellOfSeq ==
  ASSUME NEW v \in Seq(Val), NEW k \in 1 .. Len(v)
  PROVE  v[k] \in Val
OBVIOUS

\* rz_reg_set_bv keeps the arena an arena, whatever fits.
LEMMA WriteRegsType ==
  ASSUME NEW a \in [Cells -> Val], NEW parts,
         \A p \in parts : p.reg \in DOMAIN Regs /\ p.value \in Seq(Val)
  PROVE  WriteRegs(a, parts) \in [Cells -> Val]
<1> DEFINE fitting(c) == {p \in parts : c \in RegCells(p.reg)
                                         /\ Len(p.value) = Regs[p.reg].size}
           new(c) == IF fitting(c) = {} THEN a[c]
                     ELSE LET p == CHOOSE p \in fitting(c) : TRUE
                          IN  p.value[c[2] - Regs[p.reg].offset + 1]
<1>1. ASSUME NEW c \in Cells
      PROVE  new(c) \in Val
  <2>1. CASE fitting(c) = {}
    BY <2>1
  <2>2. CASE fitting(c) # {}
    <3> DEFINE p == CHOOSE p \in fitting(c) : TRUE
    <3>1. p \in fitting(c)
      BY <2>2
    <3> HIDE DEF p
    <3>2. /\ p.reg \in DOMAIN Regs /\ p.value \in Seq(Val)
          /\ Len(p.value) = Regs[p.reg].size
          /\ c \in RegCells(p.reg)
      BY <3>1
    <3>3. /\ Regs[p.reg].offset \in Nat /\ Regs[p.reg].size \in Nat
      BY <3>2, ProfileAssumption
    <3>4. PICK k \in 0 .. (Regs[p.reg].size - 1) :
            c = <<Regs[p.reg].type, Regs[p.reg].offset + k>>
      BY <3>2 DEF RegCells
    <3>5. c[2] - Regs[p.reg].offset + 1 = k + 1
      BY <3>3, <3>4
    <3>6. k + 1 \in 1 .. Len(p.value)
      BY <3>2, <3>3, <3>4
    <3>7. p.value[k + 1] \in Val
      BY <3>2, <3>6, CellOfSeq
    <3>8. new(c) = p.value[c[2] - Regs[p.reg].offset + 1]
      BY <2>2 DEF p
    <3> QED
      BY <3>5, <3>7, <3>8
  <2> QED
    BY <2>1, <2>2
<1>2. WriteRegs(a, parts) = [c \in Cells |-> new(c)]
  BY DEF WriteRegs
<1> QED
  BY <1>1, <1>2

\* So does setting the PC.
LEMMA WritePcType ==
  ASSUME NEW a \in [Cells -> Val], NEW p \in Val
  PROVE  WriteRegs(a, {[reg |-> PcReg, value |-> PcContents(p)]}) \in [Cells -> Val]
<1> DEFINE parts == {[reg |-> PcReg, value |-> PcContents(p)]}
<1>1. PcReg \in DOMAIN Regs /\ Regs[PcReg].size \in Nat
  BY ProfileAssumption
<1>2. PcContents(p) \in Seq(Val)
  BY <1>1, ValFacts DEF PcContents
<1>3. ASSUME NEW q \in parts
      PROVE  q.reg \in DOMAIN Regs /\ q.value \in Seq(Val)
  <2>1. q.reg = PcReg /\ q.value = PcContents(p)
    OBVIOUS
  <2> QED
    BY <1>1, <1>2, <2>1
<1> QED
  BY <1>3, WriteRegsType

\* rz_io_write_at keeps memory a memory.
LEMMA WriteMemType ==
  ASSUME NEW m \in [Addr -> Val], NEW a \in Addr, NEW v \in Seq(Val)
  PROVE  WriteMem(m, a, v) \in [Addr -> Val]
<1>1. ASSUME NEW b \in Addr, b \in Extent(a, Len(v))
      PROVE  v[b - a + 1] \in Val
  <2>1. b - a + 1 \in 1 .. Len(v)
    BY <1>1, ValFacts DEF Extent
  <2> QED
    BY <2>1, CellOfSeq
<1> QED
  BY <1>1 DEF WriteMem

LEMMA EmptyStateTypes ==
  ZeroArena \in [Cells -> Val] /\ BlankMem \in [Addr -> Val]
BY ValFacts, MemoryAssumption DEF ZeroArena, BlankMem

\* The parts of a frame.
LEMMA FrameTypes ==
  ASSUME NEW f \in Frames
  PROVE  /\ f.addr \in Addr /\ f.code \in Seq(Val)
         /\ f.pre \in Seq(OperandType) /\ f.post \in Seq(OperandType)
         /\ RizinBits(f.mode) \in Nat
BY FrameAssumption, AdapterAssumption DEF FrameType

LEMMA OperandTypes ==
  ASSUME NEW ops \in Seq(OperandType), NEW k \in 1 .. Len(ops)
  PROVE  /\ ops[k] \in Range(ops)
         /\ ops[k].addr \in Addr /\ ops[k].value \in Seq(Val)
<1>1. ops[k] \in OperandType
  OBVIOUS
<1> QED
  BY <1>1 DEF Range, OperandType

-----------------------------------------------------------------------------
LEMMA TypeInit == Init => TypeOK
<1> SUFFICES ASSUME Init
             PROVE  TypeOK
  OBVIOUS
<1>1. RizinBits("none") \in Nat
  BY AdapterAssumption
<1>2. DOMAIN NoCounts = {}
  BY DEF NoCounts
<1>3. 0 \in Addr /\ 0 \in Val /\ <<>> \in Seq(Events)
  BY ValFacts
<1>4. /\ postCount = NoCounts
      /\ DOMAIN postCount \subseteq {RegOf(o) : o \in Range(frame.post)}
      /\ \A r \in DOMAIN postCount : postCount[r] \in Int
  BY <1>2 DEF Init
<1>5. arena \in [Cells -> Val] /\ mem \in [Addr -> Val]
  BY EmptyStateTypes DEF Init
<1>6. "Unkown" \in Results
  BY DEF Results
<1>7. mismatch \in BOOLEAN
  BY Zenon DEF Init
<1> QED
  BY <1>1, <1>3, <1>4, <1>5, <1>6, <1>7 DEF Init, TypeOK

\* Every return leaves the locals at their fixed values.
LEMMA ReturnTypes ==
  ASSUME TypeOK, NEW r \in Results, Return(r), UNCHANGED call,
         arena' \in [Cells -> Val], mem' \in [Addr -> Val], bits' \in Nat,
         testedInsnId' \in InsnIds \cup {0}
  PROVE  TypeOK'
<1>1. DOMAIN NoCounts = {}
  BY DEF NoCounts
<1> QED
  BY <1>1, ValFacts DEF TypeOK, Return, Goto, call

LEMMA SwitchBitsType ==
  ASSUME TypeOK, SwitchBits
  PROVE  bits' \in Nat
BY FrameTypes DEF TypeOK, SwitchBits

LEMMA TypeStep == TypeOK /\ [Next]_vars => TypeOK'
<1> SUFFICES ASSUME TypeOK, [Next]_vars
             PROVE  TypeOK'
  OBVIOUS
<1> USE DEF call, machine, vm, locals, outcome
<1>0. /\ frame \in Frames /\ frame.addr \in Addr /\ frame.code \in Seq(Val)
      /\ frame.pre \in Seq(OperandType) /\ frame.post \in Seq(OperandType)
  BY FrameTypes DEF TypeOK
<1>a. /\ arena \in [Cells -> Val] /\ mem \in [Addr -> Val] /\ bits \in Nat
      /\ testedInsnId \in InsnIds \cup {0} /\ i \in Nat \ {0}
  BY DEF TypeOK
<1>b. {"Success", "Skipped", "InvalidOp", "InvalidIL", "VMRuntimeError",
       "PostStateMismatch", "Unimplemented"} \subseteq Results
  BY DEF Results
<1>1. CASE Call
  <2>1. DOMAIN postCount' = {} /\ postCount' = NoCounts
    BY <1>1 DEF Call, TypeOK, NoCounts
  <2> QED
    BY <1>1, <2>1 DEF Call, Goto, TypeOK
<1>2. CASE NonStd
  BY <1>2, <1>a, <1>b, ReturnTypes DEF NonStd
<1>3. CASE NoCode
  BY <1>3, <1>a, <1>b, ReturnTypes, SwitchBitsType DEF NoCode
<1>4. CASE Skip
  BY <1>4, <1>a, <1>b, ReturnTypes, SwitchBitsType DEF Skip
<1>5. CASE SetUp
  <2>1. bits' \in Nat
    BY <1>5, SwitchBitsType DEF SetUp
  <2>2. WriteMem(BlankMem, frame.addr, frame.code) \in [Addr -> Val]
    BY <1>0, EmptyStateTypes, WriteMemType
  <2> QED
    BY <1>5, <2>1, <2>2, EmptyStateTypes DEF SetUp, Goto, TypeOK
<1>6. CASE PreReg
  <2> DEFINE o == frame.pre[i]
  <2>1. o \in Range(frame.pre)
    BY <1>6, <1>0, <1>a, OperandTypes DEF PreReg, PreVisit
  <2>2. ASSUME IsCustom(o)
        PROVE  WriteRegs(arena, SubRegs(o.name, o.value)) \in [Cells -> Val]
    <3>1. \A s \in SubRegs(o.name, o.value) :
            s.reg \in DOMAIN Regs /\ s.value \in Seq(Val)
      BY <2>1, <2>2, <1>0, AdapterAssumption
    <3> QED
      BY <3>1, <1>a, WriteRegsType
  <2>3. ASSUME IsPlain(o)
        PROVE  WriteRegs(arena, {[reg |-> RegOf(o), value |->
                 AdjustRegContentsFromTrace(o.name, o.value, NullOp)]})
                 \in [Cells -> Val]
    <3> DEFINE v == AdjustRegContentsFromTrace(o.name, o.value, NullOp)
               parts == {[reg |-> RegOf(o), value |-> v]}
    <3>1. v \in Seq(Val)
      BY <2>1, <2>3, <1>0, AdapterAssumption
    <3>2. RegOf(o) \in DOMAIN Regs
      BY <2>3 DEF IsPlain
    <3> HIDE DEF v
    <3>3. \A p \in parts : p.reg \in DOMAIN Regs /\ p.value \in Seq(Val)
      BY <3>1, <3>2
    <3>4. WriteRegs(arena, parts) \in [Cells -> Val]
      BY <3>3, <1>a, WriteRegsType
    <3> QED
      BY <3>4 DEF v
  <2>4. arena' \in [Cells -> Val]
    BY <1>6, <1>a, <2>2, <2>3 DEF PreReg, PreOperand
  <2>5. UNCHANGED <<frame, nextPc, at, mem, bits, events, vmPc, postCount,
                    pcExpect, mismatch, testedInsnId, result>>
    BY <1>6 DEF PreReg
  <2>6. i' \in Nat \ {0}
    BY <1>6, <1>a DEF PreReg
  <2> QED
    BY <2>4, <2>5, <2>6 DEF TypeOK
<1>7. CASE PreMem
  <2>1. /\ frame.pre[i].addr \in Addr /\ frame.pre[i].value \in Seq(Val)
    BY <1>7, <1>0, <1>a, OperandTypes DEF PreMem, PreVisit
  <2>2. mem' \in [Addr -> Val]
    BY <1>7, <1>a, <2>1, WriteMemType DEF PreMem, PreOperand
  <2> QED
    BY <1>7, <1>a, <2>2 DEF PreMem, PreVisit, TypeOK
<1>8. CASE PreUntyped
  BY <1>8, <1>a, <1>b, ReturnTypes DEF PreUntyped
<1>9. CASE SetPc
  <2>1. arena' \in [Cells -> Val]
    BY <1>9, <1>0, <1>a, ValFacts, WritePcType DEF SetPc
  <2>2. UNCHANGED <<frame, nextPc, mem, bits, events, vmPc, postCount,
                    pcExpect, mismatch, testedInsnId, result>>
    BY <1>9 DEF SetPc
  <2>3. at = "pre" /\ at' = "lift" /\ i' = 1
    BY <1>9 DEF SetPc, Goto
  <2> QED
    BY <2>1, <2>2, <2>3 DEF TypeOK
<1>10. CASE NotLifted
  BY <1>10, <1>a, <1>b, ReturnTypes DEF NotLifted
<1>11. CASE InvalidIL
  BY <1>11, <1>a, <1>b, ReturnTypes DEF InvalidIL
<1>12. CASE Lifted
  BY <1>12 DEF Lifted, Goto, TypeOK
<1>13. CASE VarRead \/ VarWrite \/ MemRead \/ MemWrite
  <2>1. CASE VarRead
    <3>1. events' \in Seq(Events)
      BY <2>1 DEF VarRead, Record, Events, TypeOK
    <3> QED
      BY <2>1, <3>1 DEF VarRead, TypeOK
  <2>2. CASE VarWrite
    <3>0. PICK v \in Bound : \E new \in [1 .. Regs[v].size -> WriteVals] :
            /\ Record([kind |-> "write", var |-> v,
                       same |-> new = ReadReg(arena, v)])
            /\ arena' = WriteRegs(arena, {[reg |-> v, value |-> new]})
      BY <2>2 DEF VarWrite
    <3>1. PICK new \in [1 .. Regs[v].size -> WriteVals] :
            /\ Record([kind |-> "write", var |-> v,
                       same |-> new = ReadReg(arena, v)])
            /\ arena' = WriteRegs(arena, {[reg |-> v, value |-> new]})
      BY <3>0
    <3>2. [kind |-> "write", var |-> v, same |-> new = ReadReg(arena, v)]
            \in Events
      BY DEF Events
    <3>3. events' \in Seq(Events)
      BY <3>1, <3>2 DEF Record, TypeOK
    <3>4. v \in DOMAIN Regs /\ Regs[v].size \in Nat
      BY ProfileAssumption
    <3>5. new \in Seq(Val)
      BY <3>4, FrameAssumption
    <3>6. \A p \in {[reg |-> v, value |-> new]} :
            p.reg \in DOMAIN Regs /\ p.value \in Seq(Val)
      BY <3>4, <3>5
    <3>7. arena' \in [Cells -> Val]
      BY <3>1, <3>6, <1>a, WriteRegsType
    <3> QED
      BY <2>2, <3>3, <3>7 DEF VarWrite, TypeOK
  <2>3. CASE MemRead
    <3>1. events' \in Seq(Events)
      BY <2>3 DEF MemRead, Record, MemEvent, Events, TypeOK
    <3> QED
      BY <2>3, <3>1 DEF MemRead, TypeOK
  <2>4. CASE MemWrite
    <3>1. PICK x \in Accesses, n \in WriteVals :
            /\ Record(MemEvent("store", x))
            /\ mem' = IF x.index = 0
                      THEN WriteMem(mem, x.addr, [k \in 1 .. x.size |-> n])
                      ELSE mem
      BY <2>4 DEF MemWrite
    <3>2. MemEvent("store", x) \in Events
      BY DEF MemEvent, Events
    <3>3. events' \in Seq(Events)
      BY <3>1, <3>2 DEF Record, TypeOK
    <3>4. x.addr \in Addr /\ x.size \in Nat /\ n \in Val
      BY MemoryAssumption, FrameAssumption
    <3>5. [k \in 1 .. x.size |-> n] \in Seq(Val)
      BY <3>4
    <3>6. mem' \in [Addr -> Val]
      BY <3>1, <3>4, <3>5, <1>a, WriteMemType
    <3> QED
      BY <2>4, <3>3, <3>6 DEF MemWrite, TypeOK
  <2> QED
    BY <1>13, <2>1, <2>2, <2>3, <2>4
<1>14. CASE StepFailed
  BY <1>14, <1>a, <1>b, ReturnTypes DEF StepFailed
<1>15. CASE StepDone
  <2>1. arena' \in [Cells -> Val]
    BY <1>15, <1>a, ValFacts, WritePcType DEF StepDone
  <2>2. FallThrough(frame) \in Addr
    BY <1>0, ValFacts DEF FallThrough, Addr
  <2>3. pcExpect' \in Val
    BY <1>15, <2>2, ValFacts, FrameAssumption DEF StepDone, TypeOK
  <2>4. /\ DOMAIN postCount' \subseteq {RegOf(o) : o \in Range(frame.post)}
        /\ \A r \in DOMAIN postCount' : postCount'[r] \in Int
    <3> DEFINE occurrences(r) == Cardinality({j \in DOMAIN frame.post :
                 IsMappedReg(frame.post[j]) /\ RegOf(frame.post[j]) = r})
    <3>1. ASSUME NEW r
          PROVE  occurrences(r) \in Nat
      <4>1. /\ DOMAIN frame.post = 1 .. Len(frame.post) /\ Len(frame.post) \in Nat
        BY <1>0
      <4>2. IsFiniteSet(DOMAIN frame.post)
        BY <4>1, FS_Interval
      <4> QED
        BY <4>2, FS_Subset, FS_CardinalityType
    <3>2. postCount' = PostOpMap
      BY <1>15 DEF StepDone
    <3>3. DOMAIN PostOpMap
            = {RegOf(o) : o \in {p \in Range(frame.post) : IsMappedReg(p)}}
      BY DEF PostOpMap
    <3>4. \A r \in DOMAIN PostOpMap : PostOpMap[r] = occurrences(r)
      BY DEF PostOpMap
    <3> HIDE DEF occurrences
    <3> QED
      BY <3>1, <3>2, <3>3, <3>4
  <2>5. UNCHANGED <<frame, nextPc, mem, bits, events, mismatch, testedInsnId,
                    result>>
    BY <1>15 DEF StepDone
  <2>6. at' = "post" /\ i' = 1 /\ vmPc' \in Addr
    BY <1>15 DEF StepDone, Goto
  <2> QED
    BY <2>1, <2>3, <2>4, <2>5, <2>6 DEF TypeOK
<1>16. CASE PostUnknown
  BY <1>16 DEF PostUnknown, PostVisit, TypeOK
<1>17. CASE PostCustom
  BY <1>17 DEF PostCustom, PostVisit, Mismatched, TypeOK
<1>18. CASE PostReg
  <2> DEFINE o == frame.post[i]
             tbv == AdjustRegContentsFromTrace(o.name, o.value, frame.code)
  <2>1. o \in Range(frame.post)
    BY <1>18, <1>0, <1>a, OperandTypes DEF PostReg, PostVisit
  <2>2. IsPlain(o) /\ RegOf(o) = PcReg => tbv[1] \in Val
    BY <2>1, <1>0, AdapterAssumption
  <2>3. pcExpect' \in Val
    BY <1>18, <2>2 DEF PostReg, PostOperand, TypeOK
  <2>4. /\ DOMAIN postCount' \subseteq {RegOf(p) : p \in Range(frame.post)}
        /\ \A r \in DOMAIN postCount' : postCount'[r] \in Int
    BY <1>18 DEF PostReg, PostOperand, TypeOK
  <2>5. mismatch' \in BOOLEAN
    BY <1>18 DEF PostReg, Mismatched, TypeOK
  <2> QED
    BY <1>18, <2>3, <2>4, <2>5 DEF PostReg, PostVisit, TypeOK
<1>19. CASE PostMem
  BY <1>19 DEF PostMem, PostVisit, Mismatched, TypeOK
<1>20. CASE PostUntyped
  BY <1>20, <1>a, <1>b, ReturnTypes DEF PostUntyped
<1>21. CASE ComparePc
  BY <1>21 DEF ComparePc, Goto, Mismatched, TypeOK
<1>22. CASE CheckEvent
  BY <1>22 DEF CheckEvent, Mismatched, TypeOK
<1>23. CASE Finish
  BY <1>23, <1>a, <1>b, ReturnTypes DEF Finish
<1>24. CASE UNCHANGED vars
  BY <1>24 DEF vars, TypeOK
<1> QED
  BY <1>1, <1>2, <1>3, <1>4, <1>5, <1>6, <1>7, <1>8, <1>9, <1>10, <1>11,
     <1>12, <1>13, <1>14, <1>15, <1>16, <1>17, <1>18, <1>19, <1>20, <1>21,
     <1>22, <1>23, <1>24 DEF Next, Step

\* The state of the emulator stays well-formed in every call: registers and
\* memory hold values that fit, whatever the adapter unpacks into them.
THEOREM TypeCorrect == Spec => []TypeOK
<1> QED
  BY TypeInit, TypeStep, PTL DEF Spec

-----------------------------------------------------------------------------
\* The operands of rizin register r still to come from position k on.
LeftFrom(k, r) ==
  {j \in k .. Len(frame.post) :
     IsPlain(frame.post[j]) /\ RegOf(frame.post[j]) = r}

LEMMA CountdownIff ==
  CountdownInv <=>
    (at = "post" =>
       \A r \in DOMAIN postCount :
         LeftFrom(i, r) # {} => postCount[r] = Cardinality(LeftFrom(i, r)))
BY DEF CountdownInv, LeftFrom

LEMMA LeftFinite ==
  ASSUME TypeOK, NEW k \in Nat, NEW r
  PROVE  IsFiniteSet(LeftFrom(k, r)) /\ Cardinality(LeftFrom(k, r)) \in Nat
<1>1. Len(frame.post) \in Nat
  BY FrameTypes DEF TypeOK
<1>2. IsFiniteSet(k .. Len(frame.post))
  BY <1>1, FS_Interval
<1>3. LeftFrom(k, r) \subseteq k .. Len(frame.post)
  BY DEF LeftFrom
<1> QED
  BY <1>2, <1>3, FS_Subset, FS_CardinalityType

\* An operand that is not compared strictly does not count.
LEMMA LeftSame ==
  ASSUME TypeOK, PostVisit, NEW r,
         ~ (IsPlain(frame.post[i]) /\ RegOf(frame.post[i]) = r)
  PROVE  LeftFrom(i + 1, r) = LeftFrom(i, r)
<1>1. Len(frame.post) \in Nat /\ i \in Nat
  BY FrameTypes DEF TypeOK
<1> QED
  BY <1>1 DEF LeftFrom, PostVisit

\* One that is counts once.
LEMMA LeftOneLess ==
  ASSUME TypeOK, PostVisit, NEW r,
         IsPlain(frame.post[i]), RegOf(frame.post[i]) = r
  PROVE  /\ LeftFrom(i, r) # {}
         /\ Cardinality(LeftFrom(i, r)) = Cardinality(LeftFrom(i + 1, r)) + 1
<1>1. Len(frame.post) \in Nat /\ i \in Nat /\ i <= Len(frame.post)
  BY FrameTypes DEF TypeOK, PostVisit
<1>2. i \in LeftFrom(i, r)
  BY <1>1 DEF LeftFrom
<1>3. LeftFrom(i + 1, r) = LeftFrom(i, r) \ {i}
  BY <1>1 DEF LeftFrom
<1>4. IsFiniteSet(LeftFrom(i, r)) /\ Cardinality(LeftFrom(i, r)) \in Nat
  BY <1>1, LeftFinite
<1>5. Cardinality(LeftFrom(i, r) \ {i}) = Cardinality(LeftFrom(i, r)) - 1
  BY <1>2, <1>4, FS_RemoveElement
<1>6. LeftFrom(i, r) # {}
  BY ONLY <1>2
<1>7. Cardinality(LeftFrom(i + 1, r)) = Cardinality(LeftFrom(i, r) \ {i})
  BY ONLY <1>3
<1> DEFINE n == Cardinality(LeftFrom(i, r))
           m == Cardinality(LeftFrom(i + 1, r))
<1>8. n \in Nat /\ m = n - 1
  BY <1>4, <1>5, <1>7
<1>9. n = m + 1
  <2> HIDE DEF n, m
  <2> QED
    BY ONLY <1>8
<1> QED
  BY <1>6, <1>9, Zenon

\* get_post_op_map counts what the loop is going to compare strictly.
LEMMA CountsAtStart ==
  ASSUME TypeOK, NEW r \in DOMAIN PostOpMap, LeftFrom(1, r) # {}
  PROVE  PostOpMap[r] = Cardinality(LeftFrom(1, r))
<1> DEFINE occurrences(x) == {j \in DOMAIN frame.post :
             IsMappedReg(frame.post[j]) /\ RegOf(frame.post[j]) = x}
<1>1. /\ frame \in Frames /\ frame.post \in Seq(OperandType)
      /\ DOMAIN frame.post = 1 .. Len(frame.post)
  BY FrameTypes DEF TypeOK
<1>2. PICK k \in 1 .. Len(frame.post) :
        IsPlain(frame.post[k]) /\ RegOf(frame.post[k]) = r
  BY DEF LeftFrom
<1>3. ASSUME NEW j \in 1 .. Len(frame.post),
             IsMappedReg(frame.post[j]), RegOf(frame.post[j]) = r
      PROVE  IsPlain(frame.post[j])
  <2>1. frame.post[j] \in Range(frame.post) /\ frame.post[k] \in Range(frame.post)
    BY <1>1, OperandTypes
  <2>2. IsCustom(frame.post[j]) <=> IsCustom(frame.post[k])
    BY <1>1, <1>2, <1>3, <2>1, CustomAssumption DEF IsPlain
  <2> QED
    BY <1>2, <1>3, <2>2 DEF IsPlain
<1>4. occurrences(r) = LeftFrom(1, r)
  BY <1>1, <1>3 DEF LeftFrom, IsPlain
<1>5. PostOpMap[r] = Cardinality(occurrences(r))
  BY DEF PostOpMap
<1> QED
  BY <1>4, <1>5

LEMMA CountdownStep ==
  TypeOK /\ TypeOK' /\ CountdownInv /\ [Next]_vars => CountdownInv'
<1> SUFFICES ASSUME TypeOK, TypeOK', CountdownInv, [Next]_vars
             PROVE  CountdownInv'
  OBVIOUS
<1> USE DEF call, machine, vm, locals, outcome
<1>1. CASE StepDone
  <2>1. /\ postCount' = PostOpMap /\ i' = 1 /\ frame' = frame
    BY <1>1 DEF StepDone, Goto
  <2>2. \A r : LeftFrom(i, r)' = LeftFrom(1, r)
    BY <2>1 DEF LeftFrom
  <2>3. \A r \in DOMAIN PostOpMap :
          LeftFrom(1, r) # {} => PostOpMap[r] = Cardinality(LeftFrom(1, r))
    BY CountsAtStart
  <2> QED
    BY <2>1, <2>2, <2>3 DEF CountdownInv, LeftFrom
<1>2. CASE PostUnknown \/ PostCustom \/ PostMem
  <2>1. PostVisit /\ at' = at /\ i' = i + 1 /\ UNCHANGED <<frame, postCount>>
    BY <1>2 DEF PostUnknown, PostCustom, PostMem, PostVisit
  <2>2. ~ IsPlain(frame.post[i])
    BY <1>2 DEF PostUnknown, PostCustom, PostMem, PostOperand, IsPlain,
                IsMappedReg, IsReg, IsMem
  <2>3. \A r : LeftFrom(i + 1, r) = LeftFrom(i, r)
    BY <2>1, <2>2, LeftSame
  <2>4. \A r \in DOMAIN postCount :
          LeftFrom(i, r) # {} => postCount[r] = Cardinality(LeftFrom(i, r))
    BY <2>1, CountdownIff DEF PostVisit
  <2>5. \A r \in DOMAIN postCount : LeftFrom(i + 1, r) # {} =>
          postCount[r] = Cardinality(LeftFrom(i + 1, r))
    BY <2>3, <2>4
  <2> QED
    BY <2>1, <2>5 DEF CountdownInv, LeftFrom
<1>3. CASE PostReg
  <2> DEFINE rn == RegOf(frame.post[i])
  <2>1. /\ PostVisit /\ at' = at /\ i' = i + 1 /\ frame' = frame
        /\ IsPlain(frame.post[i])
    BY <1>3 DEF PostReg, PostVisit, PostOperand
  <2>2. \/ postCount' = postCount /\ postCount[rn] <= 1
        \/ postCount' = [postCount EXCEPT ![rn] = @ - 1]
    BY <1>3 DEF PostReg, PostOperand
  <2>3. \A r \in DOMAIN postCount :
          LeftFrom(i, r) # {} => postCount[r] = Cardinality(LeftFrom(i, r))
    BY <2>1, CountdownIff DEF PostVisit
  <2>4. i + 1 \in Nat
    BY DEF TypeOK
  <2>5. ASSUME NEW r \in DOMAIN postCount, LeftFrom(i + 1, r) # {}
        PROVE  postCount'[r] = Cardinality(LeftFrom(i + 1, r))
    <3>1. CASE r = rn
      <4>1. /\ LeftFrom(i, r) # {}
            /\ Cardinality(LeftFrom(i, r)) = Cardinality(LeftFrom(i + 1, r)) + 1
        BY <2>1, <3>1, LeftOneLess
      <4>2. /\ Cardinality(LeftFrom(i + 1, r)) \in Nat
            /\ Cardinality(LeftFrom(i + 1, r)) # 0
        BY <2>4, <2>5, LeftFinite, FS_EmptySet
      <4>3. postCount[r] = Cardinality(LeftFrom(i + 1, r)) + 1
        BY <2>3, <4>1
      <4> HIDE DEF rn
      <4>4. ~ (postCount[rn] <= 1)
        BY <3>1, <4>2, <4>3
      <4>5. postCount'[r] = postCount[r] - 1
        BY <2>2, <3>1, <4>4
      <4> QED
        BY <4>2, <4>3, <4>5
    <3>2. CASE r # rn
      <4>1. LeftFrom(i + 1, r) = LeftFrom(i, r)
        BY <2>1, <3>2, LeftSame
      <4>2. postCount'[r] = postCount[r]
        BY <2>2, <3>2
      <4> QED
        BY <2>3, <2>5, <4>1, <4>2
    <3> QED
      BY <3>1, <3>2
  <2>6. DOMAIN postCount' = DOMAIN postCount
    BY <2>2
  <2> QED
    BY <2>1, <2>5, <2>6 DEF CountdownInv, LeftFrom
<1>4. CASE UNCHANGED vars
  BY <1>4 DEF vars, CountdownInv
<1>5. CASE Call \/ NonStd \/ NoCode \/ Skip \/ SetUp \/ PreUntyped \/ SetPc
            \/ NotLifted \/ InvalidIL \/ Lifted \/ StepFailed \/ PostUntyped
            \/ ComparePc \/ Finish
  <2>1. at' # "post"
    BY <1>5 DEF Call, NonStd, NoCode, Skip, SetUp, PreUntyped, SetPc, NotLifted,
                InvalidIL, Lifted, StepFailed, PostUntyped, ComparePc, Finish,
                Return, Goto
  <2> QED
    BY <2>1 DEF CountdownInv
<1>6. CASE PreReg \/ PreMem \/ VarRead \/ VarWrite \/ MemRead \/ MemWrite
            \/ CheckEvent
  <2>1. at' # "post"
    BY <1>6 DEF PreReg, PreMem, PreVisit, VarRead, VarWrite, MemRead, MemWrite,
                VmGoesOn, CheckEvent
  <2> QED
    BY <2>1 DEF CountdownInv
<1> QED
  BY <1>1, <1>2, <1>3, <1>4, <1>5, <1>6 DEF Next, Step

\* For every list of post-operands and every adapter that treats a register of
\* rizin one way: while operands of a register are to come, post_op_map holds
\* their number, so exactly the last of them is compared strictly.
THEOREM CountdownCorrect == Spec => []CountdownInv
<1>1. Init => CountdownInv
  BY DEF Init, CountdownInv
<1> QED
  BY <1>1, TypeInit, TypeStep, CountdownStep, PTL DEF Spec

-----------------------------------------------------------------------------
\* What decides asm.bits: either every frame asks for some bits, or the adapter
\* knows a single value and frames ask for that one or none.
BitsAreDetermined ==
  \/ \A f \in Frames : RizinBits(f.mode) # 0
  \/ \A f \in Frames : RizinBits(f.mode) \in {0, RizinBits("none")}

\* From SetUp to the lifting the bits are those that the frame asks for; with a
\* single value of bits they never change at all.
BitsInv ==
  /\ at \in {"pre", "lift"} /\ RizinBits(frame.mode) # 0 => bits = RizinBits(frame.mode)
  /\ (\A f \in Frames : RizinBits(f.mode) \in {0, RizinBits("none")})
       => bits = RizinBits("none")

LEMMA BitsStep == TypeOK /\ BitsInv /\ [Next]_vars => BitsInv'
<1> SUFFICES ASSUME TypeOK, BitsInv, [Next]_vars
             PROVE  BitsInv'
  OBVIOUS
<1> USE DEF call, machine, vm, locals, outcome
<1>0. frame \in Frames
  BY DEF TypeOK
<1>1. CASE SetUp \/ NoCode \/ Skip
  <2>1. SwitchBits /\ frame' = frame
    BY <1>1 DEF SetUp, NoCode, Skip
  <2>2. bits' = IF RizinBits(frame.mode) # 0 THEN RizinBits(frame.mode) ELSE bits
    BY <2>1 DEF SwitchBits
  <2> QED
    BY <1>0, <2>1, <2>2 DEF BitsInv
<1>2. CASE PreReg \/ PreMem \/ SetPc
  <2>1. bits' = bits /\ frame' = frame /\ at = "pre"
    BY <1>2 DEF PreReg, PreMem, SetPc, PreVisit
  <2> QED
    BY <2>1 DEF BitsInv
<1>3. CASE Call
  <2>1. bits' = bits /\ at' = "begin"
    BY <1>3 DEF Call, Goto
  <2> QED
    BY <2>1 DEF BitsInv
<1>4. CASE NonStd \/ PreUntyped \/ NotLifted \/ InvalidIL \/ Lifted \/ StepFailed
            \/ StepDone \/ PostUntyped \/ ComparePc \/ Finish
  <2>1. bits' = bits /\ at' \notin {"pre", "lift"}
    BY <1>4 DEF NonStd, PreUntyped, NotLifted, InvalidIL, Lifted, StepFailed,
                StepDone, PostUntyped, ComparePc, Finish, Return, Goto
  <2> QED
    BY <2>1 DEF BitsInv
<1>5. CASE VarRead \/ VarWrite \/ MemRead \/ MemWrite \/ PostUnknown
            \/ PostCustom \/ PostReg \/ PostMem \/ CheckEvent
  <2>1. bits' = bits /\ at' \notin {"pre", "lift"}
    BY <1>5 DEF VarRead, VarWrite, MemRead, MemWrite, VmGoesOn, PostUnknown,
                PostCustom, PostReg, PostMem, PostVisit, CheckEvent
  <2> QED
    BY <2>1 DEF BitsInv
<1>6. CASE UNCHANGED vars
  BY <1>6 DEF vars, BitsInv
<1> QED
  BY <1>1, <1>2, <1>3, <1>4, <1>5, <1>6 DEF Next, Step

\* A frame is lifted with the bits of its own mode, whatever frames came before,
\* if the adapter asks for bits in every mode of the trace, or for one value
\* only.  Every adapter does one of the two, except those that return the
\* machine of the container (PowerPC without mode, MIPS) when it is 0.
THEOREM BitsFromFrameCorrect ==
  ASSUME BitsAreDetermined
  PROVE  Spec => []BitsFromFrame
<1>1. Init => BitsInv
  BY DEF Init, BitsInv
<1>2. TypeOK /\ BitsInv => BitsFromFrame
  BY DEF TypeOK, BitsInv, BitsFromFrame, BitsAreDetermined
<1> QED
  BY <1>1, <1>2, BitsStep, TypeInit, TypeStep, PTL DEF Spec

-----------------------------------------------------------------------------
\* Where a mismatch gets lost (MismatchReported, frame_lost): RunFrame returns
\* from its comparisons at an untyped post-operand or at their end only, and
\* only the former forgets what was found.
LEMMA MismatchStep ==
  ASSUME TypeOK, mismatch => at \in {"post", "events"}, [Next]_vars
  PROVE  /\ mismatch' => at' \in {"post", "events"}
         /\ mismatch /\ at' = "idle" /\ vars' # vars
              => PostUntyped \/ result' = "PostStateMismatch"
<1> USE DEF call, machine, vm, locals, outcome
<1>1. CASE Call \/ NonStd \/ NoCode \/ Skip \/ SetUp \/ PreReg \/ PreMem
            \/ PreUntyped \/ SetPc \/ NotLifted \/ InvalidIL \/ Lifted \/ VarRead
            \/ VarWrite \/ MemRead \/ MemWrite \/ StepFailed
  <2>1. at \notin {"post", "events"}
    BY <1>1 DEF Call, NonStd, NoCode, Skip, SetUp, PreReg, PreMem, PreUntyped,
                PreVisit, SetPc, NotLifted, InvalidIL, Lifted, VarRead, VarWrite,
                MemRead, MemWrite, VmGoesOn, StepFailed
  <2>2. mismatch = FALSE
    BY <2>1 DEF TypeOK
  <2>3. mismatch' = mismatch \/ mismatch' = FALSE
    BY <1>1, Zenon DEF Call, NonStd, NoCode, Skip, SetUp, PreReg, PreMem,
                PreUntyped, SetPc, NotLifted, InvalidIL, Lifted, VarRead, VarWrite,
                MemRead, MemWrite, StepFailed, Return
  <2> QED
    BY <2>2, <2>3
<1>2. CASE StepDone \/ ComparePc
  <2>1. at' \in {"post", "events"}
    BY <1>2 DEF StepDone, ComparePc, Goto
  <2> QED
    BY <2>1
<1>3. CASE PostUnknown \/ PostCustom \/ PostReg \/ PostMem \/ CheckEvent
  <2>1. at' \in {"post", "events"}
    BY <1>3 DEF PostUnknown, PostCustom, PostReg, PostMem, PostVisit, CheckEvent
  <2> QED
    BY <2>1
<1>4. CASE PostUntyped
  <2>1. mismatch' = FALSE
    BY <1>4, Zenon DEF PostUntyped, Return
  <2> QED
    BY <1>4, <2>1
<1>5. CASE Finish
  <2>1. mismatch' = FALSE
    BY <1>5, Zenon DEF Finish, Return
  <2>2. result' = IF mismatch THEN "PostStateMismatch" ELSE "Success"
    BY <1>5, Zenon DEF Finish, Return
  <2>3. mismatch => result' = "PostStateMismatch"
    BY <2>2
  <2> QED
    BY <2>1, <2>3
<1>6. CASE UNCHANGED vars
  BY <1>6 DEF vars
<1> QED
  BY <1>1, <1>2, <1>3, <1>4, <1>5, <1>6 DEF Next, Step

\* The comment at -m holds for every trace whose post-operands are registers and
\* memory: a mismatch that was found is the result of the call.
THEOREM MismatchReportedIfTyped ==
  ASSUME \A f \in Frames : \A o \in Range(f.post) : ~ Untyped(o)
  PROVE  Spec => MismatchReported
<1>1. TypeOK => ~ PostUntyped
  <2> SUFFICES ASSUME TypeOK, PostUntyped
               PROVE  FALSE
    OBVIOUS
  <2>1. /\ frame \in Frames /\ i \in 1 .. Len(frame.post)
        /\ Untyped(frame.post[i])
    BY FrameTypes DEF TypeOK, PostUntyped, PostVisit, PostOperand
  <2>2. frame.post[i] \in Range(frame.post)
    BY <2>1, FrameTypes, OperandTypes
  <2> QED
    BY <2>1, <2>2
<1> DEFINE Found == mismatch => at \in {"post", "events"}
<1>2. Init => Found
  BY DEF Init
<1>3. TypeOK /\ Found /\ [Next]_vars
        => Found' /\ [mismatch /\ at' = "idle" => result' = "PostStateMismatch"]_vars
  BY <1>1, MismatchStep
<1> QED
  BY <1>2, <1>3, TypeInit, TypeStep, PTL DEF Spec, MismatchReported

-----------------------------------------------------------------------------
(***************************************************************************)
(* Why every call returns: the control only moves on, and a loop over      *)
(* operands or events uses up one of them in every step.                   *)
(***************************************************************************)
PhasesLeft ==
  CASE at = "begin"  -> 6
    [] at = "pre"    -> 5
    [] at = "lift"   -> 4
    [] at = "step"   -> 3
    [] at = "post"   -> 2
    [] at = "events" -> 1
    [] OTHER         -> 0

\* What the loop of the phase has still to visit.
LoopLeft ==
  CASE at = "pre"    -> Len(frame.pre) + 1 - i
    [] at = "step"   -> MaxEvents - Len(events)
    [] at = "post"   -> Len(frame.post) + 1 - i
    [] at = "events" -> Len(events) + 1 - i
    [] OTHER         -> 0

\* For every frame, adapter and IL run, a step of RunFrame ends its phase for a
\* later one, or uses up some of the loop it is in, which it never overruns.
THEOREM CallProgress ==
  ASSUME MaxEvents \in Nat
  PROVE  Spec => [][Step => \/ PhasesLeft' < PhasesLeft
                            \/ /\ PhasesLeft' = PhasesLeft
                               /\ 0 <= LoopLeft' /\ LoopLeft' < LoopLeft]_vars
<1> USE DEF call, machine, vm, locals, outcome
<1>1. ASSUME TypeOK, Step
      PROVE  \/ PhasesLeft' < PhasesLeft
             \/ /\ PhasesLeft' = PhasesLeft
                /\ 0 <= LoopLeft' /\ LoopLeft' < LoopLeft
  <2>0. /\ Len(frame.pre) \in Nat /\ Len(frame.post) \in Nat
        /\ Len(events) \in Nat /\ i \in Nat
    BY <1>1, FrameTypes DEF TypeOK
  <2>1. CASE NonStd \/ NoCode \/ Skip \/ SetUp
    <3>1. at = "begin" /\ at' \in {"idle", "pre"}
      BY <2>1 DEF NonStd, NoCode, Skip, SetUp, Return, Goto
    <3> QED
      BY <3>1 DEF PhasesLeft
  <2>2. CASE PreUntyped \/ SetPc
    <3>1. at = "pre" /\ at' \in {"idle", "lift"}
      BY <2>2 DEF PreUntyped, PreVisit, SetPc, Return, Goto
    <3> QED
      BY <3>1 DEF PhasesLeft
  <2>3. CASE NotLifted \/ InvalidIL \/ Lifted
    <3>1. at = "lift" /\ at' \in {"idle", "step"}
      BY <2>3 DEF NotLifted, InvalidIL, Lifted, Return, Goto
    <3> QED
      BY <3>1 DEF PhasesLeft
  <2>4. CASE StepFailed \/ StepDone
    <3>1. at = "step" /\ at' \in {"idle", "post"}
      BY <2>4 DEF StepFailed, StepDone, Return, Goto
    <3> QED
      BY <3>1 DEF PhasesLeft
  <2>5. CASE PostUntyped \/ ComparePc
    <3>1. at = "post" /\ at' \in {"idle", "events"}
      BY <2>5 DEF PostUntyped, PostVisit, ComparePc, Return, Goto
    <3> QED
      BY <3>1 DEF PhasesLeft
  <2>6. CASE Finish
    <3>1. at = "events" /\ at' = "idle"
      BY <2>6 DEF Finish, Return, Goto
    <3> QED
      BY <3>1 DEF PhasesLeft
  <2>7. CASE PreReg \/ PreMem
    <3>1. /\ at = "pre" /\ at' = "pre" /\ i <= Len(frame.pre)
          /\ i' = i + 1 /\ frame' = frame
      BY <2>7 DEF PreReg, PreMem, PreVisit
    <3>2. LoopLeft = Len(frame.pre) + 1 - i /\ LoopLeft' = Len(frame.pre) + 1 - (i + 1)
      BY <3>1 DEF LoopLeft
    <3> QED
      BY <2>0, <3>1, <3>2 DEF PhasesLeft
  <2>8. CASE VarRead \/ VarWrite \/ MemRead \/ MemWrite
    <3>1. /\ at = "step" /\ at' = "step" /\ Len(events) < MaxEvents
          /\ \E e : events' = Append(events, e)
      BY <2>8 DEF VarRead, VarWrite, MemRead, MemWrite, VmGoesOn, Record
    <3>2. Len(events') = Len(events) + 1
      BY <1>1, <3>1 DEF TypeOK
    <3>3. LoopLeft = MaxEvents - Len(events) /\ LoopLeft' = MaxEvents - (Len(events) + 1)
      BY <3>1, <3>2 DEF LoopLeft
    <3> QED
      BY <2>0, <3>1, <3>3 DEF PhasesLeft
  <2>9. CASE PostUnknown \/ PostCustom \/ PostReg \/ PostMem
    <3>1. /\ at = "post" /\ at' = "post" /\ i <= Len(frame.post)
          /\ i' = i + 1 /\ frame' = frame
      BY <2>9 DEF PostUnknown, PostCustom, PostReg, PostMem, PostVisit
    <3>2. LoopLeft = Len(frame.post) + 1 - i /\ LoopLeft' = Len(frame.post) + 1 - (i + 1)
      BY <3>1 DEF LoopLeft
    <3> QED
      BY <2>0, <3>1, <3>2 DEF PhasesLeft
  <2>10. CASE CheckEvent
    <3>1. /\ at = "events" /\ at' = "events" /\ i <= Len(events)
          /\ i' = i + 1 /\ events' = events
      BY <2>10 DEF CheckEvent
    <3>2. LoopLeft = Len(events) + 1 - i /\ LoopLeft' = Len(events) + 1 - (i + 1)
      BY <3>1 DEF LoopLeft
    <3> QED
      BY <2>0, <3>1, <3>2 DEF PhasesLeft
  <2> QED
    BY <1>1, <2>1, <2>2, <2>3, <2>4, <2>5, <2>6, <2>7, <2>8, <2>9, <2>10 DEF Step
<1>2. TypeOK /\ TypeOK' /\ [Next]_vars
        => [Step => \/ PhasesLeft' < PhasesLeft
                    \/ /\ PhasesLeft' = PhasesLeft
                       /\ 0 <= LoopLeft' /\ LoopLeft' < LoopLeft]_vars
  BY <1>1
<1> QED
  BY <1>2, TypeCorrect, PTL DEF Spec
=============================================================================
