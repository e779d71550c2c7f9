---------------------------- MODULE JustifyOracle ---------------------------
(***************************************************************************)
(* What MemAccessJustifiedByOperands promises its caller, in one step: an  *)
(* access is justified exactly when every byte of it belongs to some       *)
(* memory operand of the frame.  Nothing is promised when the access or an *)
(* operand touches the last byte of the address space, where the 64-bit    *)
(* sums of the code wrap to 0.                                             *)
(***************************************************************************)
EXTENDS MemCover

CONSTANTS WordSize, Addresses, AccessBits, OperandLists

VARIABLES operands, address, val, verdict

inputs == <<operands, address, val>>
vars == <<inputs, verdict>>

Ranges == MemRanges(operands)

Init ==
  /\ operands \in OperandLists
  /\ address \in Addresses
  /\ val \in AccessBits
  /\ verdict = "pending"

Decide ==
  /\ verdict = "pending"
  /\ verdict' \in {"justified", "unjustified"}
  /\ NoWrap(address, AccessSize(val), Ranges, WordSize) =>
       (verdict' = "justified" <=> Covered(address, AccessSize(val), Ranges))
  /\ UNCHANGED inputs

Next == Decide

Spec == Init /\ [][Next]_vars
=============================================================================
