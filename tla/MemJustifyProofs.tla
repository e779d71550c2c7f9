--------------------------- MODULE MemJustifyProofs -------------------------
(***************************************************************************)
(* MemAccessJustifiedByOperands decides coverage, for every word size,     *)
(* operand list and access that does not reach the end of the address      *)
(* space, and implements the one-step specification JustifyOracle.         *)
(***************************************************************************)
EXTENDS MemJustify, TLAPS

\* A sum that stays below WordSize is not changed by ut64 arithmetic.
LEMMA ModSmall == \A x \in Nat : x < WordSize => x % WordSize = x
  BY WordSizeAssumption

\* Sizes are naturals, and an IL access has at least one byte.
LEMMA SizeTypes ==
  /\ \A o \in OperandType : MemOperandSizeBytes(o) \in Nat
  /\ \A n \in Nat \ {0} : AccessSize(n) \in Nat \ {0}
  BY DEF OperandType, MemOperandSizeBytes, OperandSizeBits, AccessSize

\* A byte is explained exactly when it lies in some memory operand.
LEMMA ExplainedIff ==
  ASSUME NEW b
  PROVE  Explained(b) <=>
           \E j \in DOMAIN operands :
             /\ operands[j].kind = "mem"
             /\ b \in Extent(operands[j].addr, MemOperandSizeBytes(operands[j]))
<1> DEFINE Rng(j) == [addr |-> operands[j].addr,
                      size |-> MemOperandSizeBytes(operands[j])]
<1>1. ASSUME NEW r \in Ranges, b \in Extent(r.addr, r.size)
      PROVE  \E j \in DOMAIN operands :
               /\ operands[j].kind = "mem"
               /\ b \in Extent(operands[j].addr, MemOperandSizeBytes(operands[j]))
  <2>1. PICK j \in DOMAIN operands : operands[j].kind = "mem" /\ r = Rng(j)
    BY <1>1 DEF Ranges, MemRanges
  <2> QED
    BY <1>1, <2>1
<1>2. ASSUME NEW j \in DOMAIN operands, operands[j].kind = "mem",
             b \in Extent(operands[j].addr, MemOperandSizeBytes(operands[j]))
      PROVE  Explained(b)
  <2>1. Rng(j) \in Ranges
    BY <1>2 DEF Ranges, MemRanges
  <2>2. b \in Extent(Rng(j).addr, Rng(j).size)
    BY <1>2
  <2> QED
    BY <2>1, <2>2 DEF Explained
<1> QED
  BY <1>1, <1>2 DEF Explained

\* The types of the locals are preserved by every branch.
LEMMA TypeInit == Init => TypeOK
<1> SUFFICES ASSUME Init
             PROVE  TypeOK
  OBVIOUS
<1>1. operands \in Seq(OperandType) /\ Len(operands) \in Nat
  BY InputAssumption DEF Init
<1>2. addr \in Word /\ size \in Nat \ {0}
  BY InputAssumption, SizeTypes DEF Init
<1>3. i \in 1 .. (Len(operands) + 1)
  BY <1>1 DEF Init
<1>4. improved \in BOOLEAN
  BY Zenon DEF Init
<1> QED
  BY <1>1, <1>2, <1>3, <1>4, Zenon DEF Init, TypeOK

LEMMA TypeStep == TypeOK /\ [Next]_vars => TypeOK'
<1> SUFFICES ASSUME TypeOK, [Next]_vars
             PROVE  TypeOK'
  OBVIOUS
<1> USE DEF TypeOK
<1>1. ASSUME Visit
      PROVE  operands[i] \in OperandType /\ i + 1 \in 1 .. (Len(operands) + 1)
  BY <1>1 DEF Visit
<1>2. \A x \in Int : x % WordSize \in Word /\ x % WordSize \in Nat
  BY WordSizeAssumption DEF Word
<1>3. ASSUME Visit, operands[i] \in OperandType
      PROVE  End \in Word /\ OpEnd(operands[i]) \in Word
  <2>1. addr + size \in Int
    BY DEF Word
  <2>2. operands[i].addr + MemOperandSizeBytes(operands[i]) \in Int
    BY <1>3, SizeTypes DEF OperandType, Word
  <2> QED
    BY <2>1, <2>2, <1>2 DEF End, OpEnd, Plus
<1>4. CASE SkipOperand
  BY <1>4, <1>1 DEF SkipOperand, NextOperand, Visit, inputs
<1>5. CASE Justify
  BY <1>5, <1>1 DEF Justify, VisitMem, Visit, inputs
<1>6. CASE ChopHead
  <2>1. operands[i] \in OperandType /\ End \in Word /\ OpEnd(operands[i]) \in Word
    BY <1>6, <1>1, <1>3 DEF ChopHead, VisitMem
  <2>2. End > OpEnd(operands[i])
    BY <1>6, <2>1 DEF ChopHead, FullyContained, HeadInside, Word
  <2>3. size' = End - OpEnd(operands[i])
    <3>1. End - OpEnd(operands[i]) \in Nat /\ End - OpEnd(operands[i]) < WordSize
      BY <2>1, <2>2, WordSizeAssumption DEF Word
    <3>2. (End - OpEnd(operands[i])) % WordSize = End - OpEnd(operands[i])
      BY <3>1, ModSmall
    <3> QED
      BY <1>6, <3>2 DEF ChopHead, Minus
  <2>4. size' \in Nat \ {0} /\ addr' \in Word
    BY <1>6, <2>1, <2>2, <2>3 DEF ChopHead, Word
  <2> QED
    BY <2>4, <1>6, <1>1 DEF ChopHead, VisitMem, NextOperand, Visit, inputs
<1>7. CASE ChopTail
  <2>1. operands[i] \in OperandType /\ End \in Word /\ OpEnd(operands[i]) \in Word
    BY <1>7, <1>1, <1>3 DEF ChopTail, VisitMem
  <2>2. addr < OpStart(operands[i])
    BY <1>7, <2>1 DEF ChopTail, FullyContained, HeadInside, TailInside, OpStart, OperandType, Word
  <2>3. OpEnd(operands[i]) > addr
    BY <1>7, <2>1, <2>2 DEF ChopTail, TailInside, OpStart, OperandType, Word
  <2>4. size' = OpEnd(operands[i]) - addr
    <3>1. OpEnd(operands[i]) - addr \in Nat /\ OpEnd(operands[i]) - addr < WordSize
      BY <2>1, <2>3, WordSizeAssumption DEF Word
    <3>2. (OpEnd(operands[i]) - addr) % WordSize = OpEnd(operands[i]) - addr
      BY <3>1, ModSmall
    <3> QED
      BY <1>7, <3>2 DEF ChopTail, Minus
  <2>5. size' \in Nat \ {0}
    BY <2>1, <2>3, <2>4 DEF Word
  <2> QED
    BY <2>5, <1>7, <1>1 DEF ChopTail, VisitMem, NextOperand, Visit, inputs
<1>8. CASE PassOver
  BY <1>8, <1>1 DEF PassOver, VisitMem, NextOperand, Visit, inputs
<1>9. CASE NextPass
  <2>1. 1 \in 1 .. (Len(operands) + 1)
    OBVIOUS
  <2> QED
    BY <2>1, <1>9 DEF NextPass, inputs
<1>10. CASE GiveUp
  BY <1>10 DEF GiveUp, inputs
<1>11. CASE UNCHANGED vars
  BY <1>11 DEF vars, inputs
<1> QED
  BY <1>4, <1>5, <1>6, <1>7, <1>8, <1>9, <1>10, <1>11 DEF Next

\* Type correctness of the loop.
THEOREM TypeCorrect == Spec => []TypeOK
  BY TypeInit, TypeStep, PTL DEF Spec

-----------------------------------------------------------------------------
(***************************************************************************)
(* The verdict: under Safe no sum of the code wraps.                       *)
(***************************************************************************)
\* Without wrapping, the ends that the code computes are the real ones.
LEMMA OpEndSafe ==
  ASSUME TypeOK, Safe, VisitMem
  PROVE  /\ i \in DOMAIN operands
         /\ operands[i].addr \in Nat
         /\ MemOperandSizeBytes(operands[i]) \in Nat
         /\ OpEnd(operands[i]) =
              operands[i].addr + MemOperandSizeBytes(operands[i])
<1> DEFINE o == operands[i]
<1> DEFINE r == [addr |-> o.addr, size |-> MemOperandSizeBytes(o)]
<1>1. i \in DOMAIN operands /\ o \in OperandType
  BY DEF TypeOK, VisitMem, Visit
<1>2. o.addr \in Nat /\ MemOperandSizeBytes(o) \in Nat
  BY <1>1, SizeTypes DEF OperandType, Word
<1>3. r \in Ranges
  BY <1>1 DEF VisitMem, Ranges, MemRanges
<1>4. r.addr + r.size < WordSize
  BY <1>3 DEF Safe, NoWrap
<1>5. o.addr + MemOperandSizeBytes(o) < WordSize
  BY <1>4
<1> QED
  BY <1>1, <1>2, <1>5, ModSmall DEF OpEnd, Plus

\* A byte inside the visited operand is explained, whatever its place.
LEMMA VisitedExplains ==
  ASSUME TypeOK, VisitMem, NEW b,
         b \in Extent(operands[i].addr, MemOperandSizeBytes(operands[i]))
  PROVE  Explained(b)
  BY ExplainedIff DEF TypeOK, VisitMem, Visit

\* The arguments never change, and with them what is explained.
LEMMA InputsFrozen ==
  ASSUME UNCHANGED inputs
  PROVE  /\ Access' = Access
         /\ Safe' <=> Safe
         /\ \A b : Explained(b)' <=> Explained(b)
  BY DEF inputs, Access, Safe, Explained, Ranges

LEMMA ChunkInit == Init => ChunkInv
<1> SUFFICES ASSUME Init, Safe
             PROVE  ChunkInBounds /\ AccessAccounted /\ ChunkAccounted
                      /\ FirstByteUnexplained /\ VerdictRight
  BY DEF ChunkInv
<1>1. ChunkInBounds
  BY SizeTypes, InputAssumption DEF Init, Safe, NoWrap, ChunkInBounds
<1>2. AccessAccounted /\ ChunkAccounted
  BY DEF Init, AccessAccounted, ChunkAccounted, Access
<1>3. FirstByteUnexplained
  BY DEF Init, FirstByteUnexplained
<1>4. VerdictRight
  BY DEF Init, VerdictRight
<1> QED
  BY <1>1, <1>2, <1>3, <1>4

\* One step per branch of the loop; the arguments stay, so Safe does too.
LEMMA ChunkStep == TypeOK /\ ChunkInv /\ [Next]_vars => ChunkInv'
<1> SUFFICES ASSUME TypeOK, ChunkInv, [Next]_vars, Safe'
             PROVE  /\ ChunkInBounds'
                    /\ AccessAccounted'
                    /\ ChunkAccounted'
                    /\ ~ improved' => FirstByteUnexplained'
                    /\ VerdictRight'
  BY Zenon DEF ChunkInv
<1>1. UNCHANGED inputs
  BY DEF Next, SkipOperand, Justify, ChopHead, ChopTail, PassOver, NextPass,
         GiveUp, VisitMem, Visit, vars
<1>2. Safe /\ Access' = Access /\ \A b : Explained(b)' <=> Explained(b)
  BY <1>1, InputsFrozen
<1>3. /\ ChunkInBounds
      /\ AccessAccounted
      /\ ChunkAccounted
      /\ ~ improved => FirstByteUnexplained
      /\ VerdictRight
  BY <1>2 DEF ChunkInv
<1>4. addr \in Nat /\ size \in Nat /\ i \in Nat /\ WordSize \in Nat
  BY WordSizeAssumption DEF TypeOK, Word
<1>5. End = addr + size
  BY <1>3, <1>4, ModSmall DEF ChunkInBounds, End, Plus
\* Branches that leave the chunk alone and move to the next operand.
<1>6. ASSUME Visit, NextOperand, UNCHANGED <<addr, size, improved>>,
             operands[i].kind = "mem" =>
               addr \notin Extent(operands[i].addr,
                                  MemOperandSizeBytes(operands[i]))
      PROVE  /\ ChunkInBounds' /\ AccessAccounted' /\ ChunkAccounted'
             /\ ~ improved' => FirstByteUnexplained'
             /\ VerdictRight'
  <2>1. ChunkInBounds' /\ AccessAccounted' /\ ChunkAccounted'
    BY <1>2, <1>3, <1>6
       DEF ChunkInBounds, AccessAccounted, ChunkAccounted
  <2>2. ~ improved' => FirstByteUnexplained'
    BY <1>1, <1>3, <1>4, <1>6 DEF NextOperand, FirstByteUnexplained, inputs
  <2>3. VerdictRight'
    BY <1>6 DEF Visit, NextOperand, VerdictRight
  <2> QED
    BY <2>1, <2>2, <2>3
<1>7. CASE SkipOperand
  BY <1>6, <1>7 DEF SkipOperand
<1>8. CASE PassOver
  <2>1. VisitMem /\ Visit
    BY <1>8 DEF PassOver, VisitMem
  <2>2. addr \notin Extent(operands[i].addr, MemOperandSizeBytes(operands[i]))
    BY <1>2, <1>4, <1>8, <2>1, OpEndSafe
       DEF PassOver, HeadInside, OpStart, Extent
  <2> QED
    BY <1>6, <1>8, <2>1, <2>2 DEF PassOver
<1>9. CASE Justify
  <2>1. VisitMem
    BY <1>9 DEF Justify
  <2>2. \A b \in Extent(addr, size) :
          b \in Extent(operands[i].addr, MemOperandSizeBytes(operands[i]))
    BY <1>2, <1>4, <1>5, <1>9, <2>1, OpEndSafe
       DEF Justify, FullyContained, OpStart, Extent
  <2>3. \A b \in Access : Explained(b)
    BY <1>3, <2>1, <2>2, VisitedExplains DEF AccessAccounted
  <2>4. VerdictRight'
    BY <1>2, <1>9, <2>3 DEF Justify, VerdictRight
  <2>5. ChunkInBounds' /\ AccessAccounted' /\ ChunkAccounted'
    BY <1>2, <1>3, <1>9
       DEF Justify, ChunkInBounds, AccessAccounted, ChunkAccounted
  <2>6. ~ improved' => FirstByteUnexplained'
    BY <1>1, <1>3, <1>9 DEF Justify, FirstByteUnexplained, inputs
  <2> QED
    BY <2>4, <2>5, <2>6
<1>10. CASE ChopHead
  <2> DEFINE start == operands[i].addr
             osize == MemOperandSizeBytes(operands[i])
  <2>1. VisitMem
    BY <1>10 DEF ChopHead
  <2>2. start \in Nat /\ osize \in Nat /\ OpEnd(operands[i]) = start + osize
    BY <1>2, <2>1, OpEndSafe
  <2>3. addr >= start /\ addr < start + osize /\ addr + size > start + osize
    BY <1>4, <1>5, <1>10, <2>2
       DEF ChopHead, FullyContained, HeadInside, OpStart
  <2> HIDE DEF start, osize
  <2>4. addr' = start + osize /\ size' = (addr + size) - (start + osize)
    <3>1. (addr + size) - (start + osize) \in Nat
            /\ (addr + size) - (start + osize) < WordSize
      BY <1>3, <1>4, <2>2, <2>3 DEF ChunkInBounds
    <3>2. size' = ((addr + size) - (start + osize)) % WordSize
      BY <1>5, <1>10, <2>2 DEF ChopHead, Minus
    <3> QED
      BY <1>10, <2>2, <3>1, <3>2, ModSmall DEF ChopHead
  <2>5. ChunkInBounds'
    BY <1>3, <1>4, <2>2, <2>3, <2>4 DEF ChunkInBounds
  <2>6. \A b \in Extent(addr, size) :
          b \in Extent(start, osize) \/ b \in Extent(addr, size)'
    BY <1>4, <2>2, <2>3, <2>4 DEF Extent
  <2>7. \A b \in Extent(addr, size)' : b \in Extent(addr, size)
    BY <1>4, <2>2, <2>3, <2>4 DEF Extent
  <2>8. \A b \in Extent(start, osize) : Explained(b)
    BY <2>1, VisitedExplains DEF start, osize
  <2>9. AccessAccounted' /\ ChunkAccounted'
    BY <1>2, <1>3, <2>6, <2>7, <2>8 DEF AccessAccounted, ChunkAccounted
  <2>10. improved' = TRUE /\ VerdictRight'
    BY <1>10 DEF ChopHead, NextOperand, VisitMem, Visit, VerdictRight
  <2> QED
    BY <2>5, <2>9, <2>10
<1>11. CASE ChopTail
  <2> DEFINE start == operands[i].addr
             osize == MemOperandSizeBytes(operands[i])
  <2>1. VisitMem
    BY <1>11 DEF ChopTail
  <2>2. start \in Nat /\ osize \in Nat /\ OpEnd(operands[i]) = start + osize
    BY <1>2, <2>1, OpEndSafe
  <2>3. addr < start /\ addr + size >= start /\ addr + size < start + osize
    BY <1>3, <1>4, <1>5, <1>11, <2>2
       DEF ChopTail, HeadInside, TailInside, OpStart, ChunkInBounds
  <2>4. start + osize < WordSize
    <3>1. OpEnd(operands[i]) < WordSize
      BY <2>2, WordSizeAssumption DEF OpEnd, Plus, start, osize
    <3> QED
      BY <2>2, <3>1
  <2> HIDE DEF start, osize
  <2>5. addr' = addr /\ size' = (start + osize) - addr
    <3>1. (start + osize) - addr \in Nat /\ (start + osize) - addr < WordSize
      BY <1>4, <2>2, <2>3, <2>4
    <3>2. size' = ((start + osize) - addr) % WordSize
      BY <1>11, <2>2 DEF ChopTail, Minus
    <3> QED
      BY <1>11, <3>1, <3>2, ModSmall DEF ChopTail
  <2>6. ChunkInBounds'
    BY <1>4, <2>2, <2>3, <2>4, <2>5 DEF ChunkInBounds
  <2>7. \A b \in Extent(addr, size) : b \in Extent(addr, size)'
    BY <1>4, <2>2, <2>3, <2>5 DEF Extent
  <2>8. \A b \in Extent(addr, size)' :
          b \in Extent(start, osize) \/ b \in Extent(addr, size)
    BY <1>4, <2>2, <2>3, <2>5 DEF Extent
  <2>9. \A b \in Extent(start, osize) : Explained(b)
    BY <2>1, VisitedExplains DEF start, osize
  <2>10. AccessAccounted' /\ ChunkAccounted'
    BY <1>2, <1>3, <2>7, <2>8, <2>9 DEF AccessAccounted, ChunkAccounted
  <2>11. improved' = TRUE /\ VerdictRight'
    BY <1>11 DEF ChopTail, NextOperand, VisitMem, Visit, VerdictRight
  <2> QED
    BY <2>6, <2>10, <2>11
<1>12. CASE NextPass
  <2>1. ChunkInBounds' /\ AccessAccounted' /\ ChunkAccounted'
    BY <1>2, <1>3, <1>12
       DEF NextPass, ChunkInBounds, AccessAccounted, ChunkAccounted
  <2>2. FirstByteUnexplained' /\ VerdictRight'
    BY <1>12 DEF NextPass, FirstByteUnexplained, VerdictRight
  <2> QED
    BY <2>1, <2>2
<1>13. CASE GiveUp
  <2>1. ChunkInBounds' /\ AccessAccounted' /\ ChunkAccounted'
    BY <1>2, <1>3, <1>13
       DEF GiveUp, ChunkInBounds, AccessAccounted, ChunkAccounted
  <2>2. FirstByteUnexplained /\ FirstByteUnexplained'
    BY <1>1, <1>3, <1>13 DEF GiveUp, FirstByteUnexplained, inputs, TypeOK
  <2>3. ~ Explained(addr)
    <3>1. DOMAIN operands = 1 .. Len(operands) /\ i - 1 = Len(operands)
      BY <1>13 DEF GiveUp, TypeOK
    <3> QED
      BY <2>2, <3>1, ExplainedIff DEF FirstByteUnexplained
  <2>4. addr \in Extent(addr, size)
    BY <1>3, <1>4 DEF ChunkInBounds, Extent
  <2>5. addr \in Access
    BY <1>3, <2>3, <2>4 DEF ChunkAccounted
  <2>6. VerdictRight'
    BY <1>2, <1>13, <2>3, <2>5 DEF GiveUp, VerdictRight
  <2> QED
    BY <2>1, <2>2, <2>6
<1>14. CASE UNCHANGED vars
  BY <1>1, <1>2, <1>3, <1>14
     DEF vars, ChunkInBounds, AccessAccounted, ChunkAccounted,
         FirstByteUnexplained, VerdictRight, inputs
<1> QED
  BY <1>7, <1>8, <1>9, <1>10, <1>11, <1>12, <1>13, <1>14 DEF Next

\* The chunk invariant, and with it the verdict, for all constants.
THEOREM ChunkCorrect == Spec => []ChunkInv
<1>1. Init => TypeOK /\ ChunkInv
  BY TypeInit, ChunkInit
<1>2. TypeOK /\ ChunkInv /\ [Next]_vars => (TypeOK /\ ChunkInv)'
  BY TypeStep, ChunkStep
<1> QED
  BY <1>1, <1>2, PTL DEF Spec

\* The doc comment holds for accesses and operands that stay away from the end of
\* the address space: a justified access overlaps some operand.
THEOREM OverlapUnlessWrapped == Spec => [](Safe => JustifiedOnlyByOverlap)
<1>1. TypeOK /\ ChunkInv => (Safe => JustifiedOnlyByOverlap)
  <2> SUFFICES ASSUME TypeOK, ChunkInv, Safe, at = "justified"
               PROVE  Overlapped(address, AccessSize(val), Ranges)
    BY DEF JustifiedOnlyByOverlap
  <2>1. \A b \in Access : Explained(b)
    BY DEF ChunkInv, VerdictRight
  <2>2. address \in Nat /\ AccessSize(val) \in Nat \ {0}
    BY InputAssumption DEF TypeOK, Word, AccessSize
  <2>3. address \in Extent(address, AccessSize(val))
    BY <2>2 DEF Extent
  <2> QED
    BY <2>1, <2>3 DEF Access, Explained, Overlapped
<1> QED
  BY <1>1, TypeCorrect, ChunkCorrect, PTL

\* Returning is the one step of the specification, the rest stutters: the
\* returned value is coverage, for all operand lists without wrap-around.
THEOREM JustifyRefines == Spec => ImplementsOracle
<1>1. Init => Oracle!Init
  BY DEF Init, Oracle!Init
<1>2. TypeOK /\ ChunkInv /\ TypeOK' /\ ChunkInv' /\ [Next]_vars
        => [Oracle!Next]_Oracle!vars
  <2> SUFFICES ASSUME TypeOK, ChunkInv', [Next]_vars
               PROVE  [Oracle!Next]_Oracle!vars
    OBVIOUS
  <2>1. UNCHANGED inputs
    BY DEF Next, SkipOperand, Justify, ChopHead, ChopTail, PassOver, NextPass,
           GiveUp, VisitMem, Visit, vars
  <2>2. Safe => VerdictRight'
    BY <2>1, InputsFrozen DEF ChunkInv
  <2>3. Access' = Access /\ \A b : Explained(b)' <=> Explained(b)
    BY <2>1, InputsFrozen
  <2>4. CASE Justify \/ GiveUp
    <3>1. at = "scan" /\ at' \in {"justified", "unjustified"}
      BY <2>4 DEF Justify, GiveUp, VisitMem, Visit
    <3>2. Safe => (at' = "justified" <=> \A b \in Access : Explained(b))
      BY <2>2, <2>3, <3>1 DEF VerdictRight
    <3>3. Oracle!AccessSize(val) = AccessSize(val) /\ Oracle!Ranges = Ranges
      BY DEF Oracle!AccessSize, AccessSize, Oracle!Ranges, Ranges,
             Oracle!MemRanges, MemRanges, Oracle!MemOperandSizeBytes,
             MemOperandSizeBytes, Oracle!OperandSizeBits, OperandSizeBits
    <3>4. /\ Oracle!NoWrap(address, AccessSize(val), Ranges, WordSize) <=> Safe
          /\ Oracle!Covered(address, AccessSize(val), Ranges) <=>
               \A b \in Access : Explained(b)
      BY DEF Oracle!NoWrap, NoWrap, Safe, Oracle!Covered, Oracle!Extent,
             Extent, Access, Explained
    <3>5. Oracle!Decide
      BY <2>1, <3>1, <3>2, <3>3, <3>4 DEF Oracle!Decide, Oracle!inputs, inputs
    <3> QED
      BY <3>5 DEF Oracle!Next
  <2>5. CASE ~ (Justify \/ GiveUp)
    <3>1. UNCHANGED at
      BY <2>5 DEF Next, SkipOperand, ChopHead, ChopTail, PassOver, NextPass,
                  NextOperand, vars
    <3> QED
      BY <2>1, <3>1 DEF Oracle!vars, Oracle!inputs, inputs
  <2> QED
    BY <2>4, <2>5
<1>3. Spec => [](TypeOK /\ ChunkInv)
  BY TypeCorrect, ChunkCorrect, PTL
<1> QED
  BY <1>1, <1>2, <1>3, PTL DEF Spec, ImplementsOracle, Oracle!Spec

-----------------------------------------------------------------------------
(***************************************************************************)
(* Termination: the lexicographic measure <<Left, StepsLeft>> of natural   *)
(* numbers falls with every step that does not return, for accesses and    *)
(* operands that wrap around as well.                                      *)
(***************************************************************************)
\* ut64 subtraction undoes ut64 addition.
LEMMA ModBack ==
  \A x, y \in Word : Plus(x, Minus(y, x)) = y
<1> SUFFICES ASSUME NEW x \in Word, NEW y \in Word
             PROVE  Plus(x, Minus(y, x)) = y
  OBVIOUS
<1>1. WordSize \in Nat \ {0} /\ x \in Nat /\ y \in Nat
        /\ x < WordSize /\ y < WordSize
  BY WordSizeAssumption DEF Word
<1>2. CASE y >= x
  <2>1. Minus(y, x) = y - x
    BY <1>1, <1>2, ModSmall DEF Minus
  <2> QED
    BY <1>1, <1>2, <2>1, ModSmall DEF Plus
<1>3. CASE y < x
  <2>1. Minus(y, x) = (y - x) + WordSize
    BY <1>1, <1>3 DEF Minus
  <2>2. x + Minus(y, x) = y + WordSize
    BY <1>1, <2>1
  <2>3. (y + WordSize) % WordSize = y
    BY <1>1
  <2> QED
    BY <2>2, <2>3 DEF Plus
<1> QED
  BY <1>1, <1>2, <1>3

\* The two parts of the measure are natural numbers.
LEMMA MeasureTypes ==
  ASSUME TypeOK
  PROVE  Left \in Nat /\ StepsLeft \in Nat /\ addr \in Word /\ End \in Word
<1>1. addr \in Word /\ size \in Nat /\ Len(operands) \in Nat
        /\ i \in 1 .. (Len(operands) + 1)
  BY DEF TypeOK
<1>2. End \in Word
  BY <1>1, WordSizeAssumption DEF End, Plus, Word
<1>3. Left \in Nat
  BY <1>1, <1>2, WordSizeAssumption DEF Left, Word
<1>4. StepsLeft \in Nat
  <2>1. CASE improved
    BY <1>1, <2>1 DEF StepsLeft
  <2>2. CASE ~ improved
    BY <1>1, <2>2 DEF StepsLeft
  <2> QED
    BY <2>1, <2>2
<1> QED
  BY <1>1, <1>2, <1>3, <1>4

\* Every step of the loop lowers it: chopping moves one end of the chunk up,
\* the other branches use up the operands of the pass.
LEMMA ProgressStep ==
  ASSUME TypeOK, TypeOK', Next, at' = "scan"
  PROVE  Left' < Left \/ (Left' = Left /\ StepsLeft' < StepsLeft)
<1>1. /\ Len(operands) \in Nat
      /\ i \in 1 .. (Len(operands) + 1)
      /\ WordSize \in Nat
  BY WordSizeAssumption DEF TypeOK
<1>2. addr \in Word /\ End \in Word /\ addr' \in Word /\ End' \in Word
  <2>1. addr \in Word /\ size \in Nat /\ addr' \in Word /\ size' \in Nat
    BY DEF TypeOK
  <2>2. \A x \in Word, y \in Nat : Plus(x, y) \in Word
    BY WordSizeAssumption DEF Plus, Word
  <2>3. End' = Plus(addr', size')
    BY DEF End
  <2> QED
    BY <2>1, <2>2, <2>3 DEF End
<1>3. UNCHANGED operands
  BY DEF Next, SkipOperand, Justify, ChopHead, ChopTail, PassOver, NextPass,
         GiveUp, VisitMem, Visit, inputs
\* Moving on in a pass without chopping.
<1>4. ASSUME NextOperand, UNCHANGED <<addr, size, improved>>
      PROVE  Left' = Left /\ StepsLeft' < StepsLeft
  <2>1. Left' = Left
    BY <1>4 DEF Left, End
  <2>2. i' = i + 1 /\ Len(operands') = Len(operands)
    BY <1>3, <1>4 DEF NextOperand
  <2>3. CASE improved
    <3>1. /\ StepsLeft = (Len(operands) + 2) + (Len(operands) + 1 - i)
          /\ StepsLeft' = (Len(operands) + 2) + (Len(operands) + 1 - (i + 1))
      BY <1>4, <2>2, <2>3 DEF StepsLeft
    <3> QED
      BY <1>1, <2>1, <3>1
  <2>4. CASE ~ improved
    <3>1. /\ StepsLeft = 0 + (Len(operands) + 1 - i)
          /\ StepsLeft' = 0 + (Len(operands) + 1 - (i + 1))
      BY <1>4, <2>2, <2>4 DEF StepsLeft
    <3> QED
      BY <1>1, <2>1, <3>1
  <2> QED
    BY <2>3, <2>4
<1>5. ASSUME VisitMem
      PROVE  OpEnd(operands[i]) \in Word
  <2>1. operands[i] \in OperandType
    BY <1>5 DEF VisitMem, Visit, TypeOK
  <2>2. operands[i].addr + MemOperandSizeBytes(operands[i]) \in Int
    BY <2>1, SizeTypes DEF OperandType, Word
  <2> QED
    BY <2>2, WordSizeAssumption DEF OpEnd, Plus, Word
<1>6. CASE SkipOperand
  BY <1>4, <1>6 DEF SkipOperand
<1>7. CASE PassOver
  BY <1>4, <1>7 DEF PassOver
<1>8. CASE ChopHead
  <2> DEFINE end == OpEnd(operands[i])
  <2>1. end \in Word /\ addr < end /\ addr' = end /\ size' = Minus(End, end)
    BY <1>5, <1>8 DEF ChopHead, HeadInside
  <2> HIDE DEF end
  <2>2. End' = End
    <3>1. End' = Plus(end, Minus(End, end))
      BY <2>1 DEF End
    <3> QED
      BY <1>2, <2>1, <3>1, ModBack
  <2> QED
    BY <1>1, <1>2, <2>1, <2>2 DEF Left, Word
<1>9. CASE ChopTail
  <2> DEFINE end == OpEnd(operands[i])
  <2>1. end \in Word /\ End < end /\ addr' = addr /\ size' = Minus(end, addr)
    BY <1>5, <1>9 DEF ChopTail, TailInside
  <2> HIDE DEF end
  <2>2. End' = end
    <3>1. End' = Plus(addr, Minus(end, addr))
      BY <2>1 DEF End
    <3> QED
      BY <1>2, <2>1, <3>1, ModBack
  <2> QED
    BY <1>1, <1>2, <2>1, <2>2 DEF Left, Word
<1>10. CASE NextPass
  <2>1. Left' = Left
    BY <1>10 DEF NextPass, Left, End
  <2>2. StepsLeft = (Len(operands) + 2) + (Len(operands) + 1 - i)
          /\ StepsLeft' = 0 + (Len(operands) + 1 - 1)
    BY <1>3, <1>10 DEF NextPass, StepsLeft
  <2> QED
    BY <1>1, <2>1, <2>2
<1>11. ~ Justify /\ ~ GiveUp
  BY DEF Justify, GiveUp
<1> QED
  BY <1>6, <1>7, <1>8, <1>9, <1>10, <1>11 DEF Next

\* The loop ends, for all constants: no step but a return leaves the measure.
THEOREM LoopProgress == Spec => Progress
<1>1. TypeOK /\ TypeOK' /\ [Next]_vars
        => [at' = "scan" => \/ Left' < Left
                            \/ Left' = Left /\ StepsLeft' < StepsLeft]_vars
  BY ProgressStep
<1> QED
  BY <1>1, TypeCorrect, PTL DEF Spec, Progress
=============================================================================
