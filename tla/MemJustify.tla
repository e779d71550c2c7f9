------------------------------ MODULE MemJustify ----------------------------
(***************************************************************************)
(* MemAccessJustifiedByOperands (rzemu.cpp): decides whether a memory      *)
(* access of the IL VM is explained by the memory operands of the frame.   *)
(* The code keeps the part of the access that is not explained yet, the    *)
(* chunk [addr, addr + size), and walks the operand list again and again,  *)
(* chopping pieces off the chunk, until an operand contains the chunk or a *)
(* whole pass chops nothing.                                               *)
(*                                                                         *)
(* One action per branch of the loop body; the control label `at` holds    *)
(* the returned boolean once the function has returned.  All sums and      *)
(* differences are ut64, hence modulo WordSize.                            *)
(***************************************************************************)
EXTENDS MemCover

CONSTANTS
  WordSize,     \* 2^64 in the program
  Addresses,    \* addresses an IL event may access
  AccessBits,   \* lengths in bits of the value an IL event may access
  OperandLists  \* operand lists a frame may carry

Word == 0 .. (WordSize - 1)

OperandType ==
  [kind : {"reg", "mem"}, addr : Word, bytes : Nat, bit_length : Int]

ASSUME WordSizeAssumption == WordSize \in Nat \ {0}
ASSUME InputAssumption ==
  /\ Addresses \subseteq Word
  /\ AccessBits \subseteq Nat \ {0}   \* an IL value has at least one bit
  /\ OperandLists \subseteq Seq(OperandType)

VARIABLES
  operands, address, val,  \* the arguments
  addr, size,              \* the chunk left to justify
  i, improved,             \* position in the pass; whether it chopped
  at                       \* "scan", or the value returned

inputs == <<operands, address, val>>
vars == <<inputs, addr, size, i, improved, at>>

Plus(x, y) == (x + y) % WordSize
Minus(x, y) == (x - y) % WordSize

End == Plus(addr, size)
OpStart(o) == o.addr
OpEnd(o) == Plus(o.addr, MemOperandSizeBytes(o))

\* Mutant: an operand that ends where the chunk does is not enough.
EndStrictlyContained(o) == addr >= OpStart(o) /\ End < OpEnd(o)
\* Mutant: does not look at where the chunk begins.
EndContained(o) == End <= OpEnd(o)
FullyContained(o) == addr >= OpStart(o) /\ End <= OpEnd(o)
HeadInside(o) == addr >= OpStart(o) /\ addr < OpEnd(o)
\* Mutant: takes any operand that ends behind the chunk.
EndsBefore(o) == End < OpEnd(o)
\* Mutant: goes on when the chunk ends where the operand does.
TailTouches(o) == End >= OpStart(o) /\ End <= OpEnd(o)
TailInside(o) == End >= OpStart(o) /\ End < OpEnd(o)

Init ==
  /\ operands \in OperandLists
  /\ address \in Addresses
  /\ val \in AccessBits
  /\ addr = address
  /\ size = AccessSize(val)
  /\ i = 1
  /\ improved = FALSE
  /\ at = "scan"

Visit == at = "scan" /\ i <= Len(operands) /\ UNCHANGED inputs
VisitMem == Visit /\ operands[i].kind = "mem"
NextOperand == i' = i + 1 /\ UNCHANGED at

SkipOperand ==
  /\ Visit
  /\ operands[i].kind # "mem"
  /\ NextOperand
  /\ UNCHANGED <<addr, size, improved>>

Justify ==
  /\ VisitMem
  /\ FullyContained(operands[i])
  /\ at' = "justified"
  /\ UNCHANGED <<addr, size, i, improved>>

\* The chunk begins inside the operand: its head is justified.
ChopHead ==
  /\ VisitMem
  /\ ~ FullyContained(operands[i])
  /\ HeadInside(operands[i])
  /\ size' = Minus(End, OpEnd(operands[i]))
  /\ addr' = OpEnd(operands[i])
  /\ improved' = TRUE
  /\ NextOperand

\* The chunk ends inside (or right before) the operand.  The code moves the
\* end of the chunk to the end of the operand.
ChopTail ==
  /\ VisitMem
  /\ ~ FullyContained(operands[i])
  /\ ~ HeadInside(operands[i])
  /\ TailInside(operands[i])
  /\ size' = Minus(OpEnd(operands[i]), addr)
  /\ improved' = TRUE
  /\ NextOperand
  /\ UNCHANGED addr

PassOver ==
  /\ VisitMem
  /\ ~ FullyContained(operands[i])
  /\ ~ HeadInside(operands[i])
  /\ ~ TailInside(operands[i])
  /\ NextOperand
  /\ UNCHANGED <<addr, size, improved>>

\* Mutant: a pass starts with the progress of the one before.
NextPassStaysImproved ==
  /\ at = "scan"
  /\ i > Len(operands)
  /\ improved
  /\ i' = 1
  /\ UNCHANGED <<inputs, addr, size, improved, at>>

\* while (improved): one more pass, which starts with improved = false.
NextPass ==
  /\ at = "scan"
  /\ i > Len(operands)
  /\ improved
  /\ i' = 1
  /\ improved' = FALSE
  /\ UNCHANGED <<inputs, addr, size, at>>

GiveUp ==
  /\ at = "scan"
  /\ i > Len(operands)
  /\ ~ improved
  /\ at' = "unjustified"
  /\ UNCHANGED <<inputs, addr, size, i, improved>>

Next ==
  \/ SkipOperand
  \/ Justify
  \/ ChopHead
  \/ ChopTail
  \/ PassOver
  \/ NextPass
  \/ GiveUp

Spec == Init /\ [][Next]_vars
FairSpec == Spec /\ WF_vars(Next)

-----------------------------------------------------------------------------
Access == Extent(address, AccessSize(val))
Ranges == MemRanges(operands)
Explained(b) == \E r \in Ranges : b \in Extent(r.addr, r.size)

\* Types of the locals of MemAccessJustifiedByOperands.  The chunk is never
\* empty, also when sums wrap: a branch that would leave nothing of it is only
\* reached by chunks that no operand contains.
TypeOK ==
  /\ operands \in Seq(OperandType)
  /\ address \in Addresses
  /\ val \in AccessBits
  /\ addr \in Word
  /\ size \in Nat \ {0}
  /\ i \in 1 .. (Len(operands) + 1)
  /\ improved \in BOOLEAN
  /\ at \in {"scan", "justified", "unjustified"}

\* Neither the access nor an operand reaches the end of the address space.
Safe == NoWrap(address, AccessSize(val), Ranges, WordSize)

ChunkInBounds == size >= 1 /\ addr + size < WordSize
AccessAccounted == \A b \in Access : b \in Extent(addr, size) \/ Explained(b)
ChunkAccounted == \A b \in Extent(addr, size) : b \in Access \/ Explained(b)
FirstByteUnexplained ==
  \A j \in 1 .. (i - 1) :
    operands[j].kind = "mem" =>
      addr \notin Extent(operands[j].addr, MemOperandSizeBytes(operands[j]))
VerdictRight ==
  /\ at = "justified" => \A b \in Access : Explained(b)
  /\ at = "unjustified" => \E b \in Access : ~ Explained(b)

\* The inductive invariant behind the verdict, for accesses and operands that
\* do not wrap: the chunk is the access up to explained bytes, whatever the
\* two chopping branches did to it, and a pass that has chopped nothing has
\* met no operand that explains the first byte of the chunk.
ChunkInv ==
  Safe =>
    /\ ChunkInBounds
    /\ AccessAccounted
    /\ ChunkAccounted
    /\ ~ improved => FirstByteUnexplained
    /\ VerdictRight

\* The loop decides coverage: for every operand list and every order of the
\* operands the returned value is the one of the one-step specification, even
\* though the tail branch lengthens the chunk instead of cutting it.
Oracle == INSTANCE JustifyOracle
            WITH verdict <- IF at = "scan" THEN "pending" ELSE at
ImplementsOracle == Oracle!Spec

\* do/while(improved) always ends, also for operands that wrap around the end
\* of the address space: a pass may only ask for another one after progress.
Terminates == <>(at # "scan")

\* What is left of the address space behind the two ends of the chunk, and the
\* operands left to visit before the loop must chop or give up.
Left == (WordSize - addr) + (WordSize - End)
StepsLeft ==
  (IF improved THEN Len(operands) + 2 ELSE 0) + (Len(operands) + 1 - i)

\* Why do/while(improved) ends, whether or not sums wrap: a step that does not
\* return moves one end of the chunk up and leaves the other, or it leaves both
\* and comes nearer to the end of a pass that chops nothing.
Progress ==
  [][at' = "scan" => \/ Left' < Left
                     \/ Left' = Left /\ StepsLeft' < StepsLeft]_vars

\* The doc comment: true only if some operand overlaps the accessed memory.
JustifiedOnlyByOverlap ==
  at = "justified" => Overlapped(address, AccessSize(val), Ranges)
=============================================================================
