---------------------------- MODULE SetMemProofs ----------------------------
(***************************************************************************)
(* What option -n leaves in memory, for every trace.                       *)
(***************************************************************************)
EXTENDS SetMem, TLAPS

LEMMA TraceFacts ==
  ASSUME TypeOK
  PROVE  /\ Len(trace) \in Nat /\ cursor \in Nat /\ Seen \in 0 .. Len(trace)
         /\ DOMAIN trace = 1 .. Len(trace)
<1>1. trace \in Seq(Range(trace))
  BY TraceAssumption DEF TypeOK
<1> QED
  BY <1>1 DEF TypeOK, Seen

\* The three branches of the loop body treat the frame at the cursor alike:
\* they move past it and remember its address if it is one of the program's.
LEMMA LoadSteps ==
  ASSUME TypeOK, SkipNonStd \/ SkipWritten \/ WriteFrame
  PROVE  /\ at = "load" /\ at' = "load" /\ trace' = trace
         /\ cursor' = cursor + 1 /\ cursor < Len(trace)
         /\ Seen = cursor /\ Seen' = cursor + 1
         /\ written' = written \cup
              (IF trace[cursor + 1].std THEN {trace[cursor + 1].addr} ELSE {})
BY DEF SkipNonStd, SkipWritten, WriteFrame, GetFrame, Frame, Seen

LEMMA TypeStep == TypeOK /\ [Next]_vars => TypeOK'
<1> SUFFICES ASSUME TypeOK, [Next]_vars
             PROVE  TypeOK'
  OBVIOUS
<1>1. Len(trace) \in Nat /\ cursor \in Nat
  BY TraceFacts
<1>2. CASE Rewind
  BY <1>1, <1>2 DEF Rewind, TypeOK, Seen
<1>3. CASE SkipNonStd \/ SkipWritten \/ WriteFrame
  <2>1. /\ at' = "load" /\ trace' = trace /\ Seen = cursor /\ Seen' = cursor + 1
        /\ cursor' = cursor + 1 /\ cursor < Len(trace)
    BY <1>3, LoadSteps
  <2>2. written' = {trace[k].addr : k \in {j \in 1 .. (cursor + 1) : trace[j].std}}
    <3>1. written = {trace[k].addr : k \in {j \in 1 .. cursor : trace[j].std}}
      BY <2>1 DEF TypeOK
    <3>2. written' = written \cup
            (IF trace[cursor + 1].std THEN {trace[cursor + 1].addr} ELSE {})
      BY <1>3, LoadSteps
    <3>3. 1 .. (cursor + 1) = (1 .. cursor) \cup {cursor + 1}
      BY <1>1
    <3> QED
      BY <3>1, <3>2, <3>3
  <2>3. DOMAIN mem' = Addr
    BY <1>3 DEF SkipNonStd, SkipWritten, WriteFrame, Write, TypeOK
  <2> QED
    BY <1>1, <2>1, <2>2, <2>3 DEF TypeOK
<1>4. CASE Finish
  BY <1>1, <1>4 DEF Finish, TypeOK, Seen
<1>5. CASE UNCHANGED vars
  BY <1>5 DEF vars, TypeOK, Seen
<1> QED
  BY <1>2, <1>3, <1>4, <1>5 DEF Next

\* The addresses remembered are those of the frames seen, whatever branch of
\* the loop body each of them took.
THEOREM TypeCorrect == Spec => []TypeOK
<1>1. Init => TypeOK
  <2> SUFFICES ASSUME Init
               PROVE  TypeOK
    OBVIOUS
  <2>1. Len(trace) \in Nat
    BY TraceAssumption DEF Init
  <2> QED
    BY <2>1 DEF Init, TypeOK, Seen
<1> QED
  BY <1>1, TypeStep, PTL DEF Spec

-----------------------------------------------------------------------------
\* The code writes a frame exactly if it is the first one at its address.
LEMMA FirstIffUnwritten ==
  ASSUME TypeOK, at = "load", cursor < Len(trace)
  PROVE  IsFirst(cursor + 1) <=>
           trace[cursor + 1].std /\ trace[cursor + 1].addr \notin written
<1>1. cursor \in Nat /\ (cursor + 1) - 1 = cursor /\ Seen = cursor
  BY TraceFacts DEF Seen
<1>2. written = {trace[k].addr : k \in {j \in 1 .. cursor : trace[j].std}}
  BY <1>1 DEF TypeOK
<1> QED
  BY <1>1, <1>2 DEF IsFirst

LEMMA LoadedStep ==
  TypeOK /\ LoadedInv /\ [Next]_vars => LoadedInv'
<1> SUFFICES ASSUME TypeOK, LoadedInv, [Next]_vars, NEW b \in Addr
             PROVE  LoadedInv!(b)'
  BY DEF LoadedInv
<1> DEFINE byte(k) == trace[k].code[b - trace[k].addr + 1]
           writes(k) == IsFirst(k) /\ Covers(k, b)
           loaded(m, n) ==
             \/ m = Blank /\ \A k \in 1 .. n : ~ writes(k)
             \/ \E k \in 1 .. n :
                  /\ writes(k)
                  /\ \A j \in (k + 1) .. n : ~ writes(j)
                  /\ m = byte(k)
<1>1. loaded(mem[b], Seen)
  BY DEF LoadedInv
<1>2. ASSUME trace' = trace, loaded(mem'[b], Seen')
      PROVE  LoadedInv!(b)'
  BY <1>2 DEF IsFirst, Covers
<1>3. Len(trace) \in Nat /\ cursor \in Nat /\ Seen \in Nat
  BY TraceFacts
<1>4. CASE Rewind
  <2>1. Seen' = 0 /\ mem'[b] = Blank /\ trace' = trace
    BY <1>4 DEF Rewind, Seen, TypeOK
  <2> QED
    BY <1>2, <2>1
<1>5. CASE SkipNonStd \/ SkipWritten \/ WriteFrame
  <2> DEFINE n == cursor + 1
  <2>1. /\ at = "load" /\ trace' = trace /\ cursor < Len(trace)
        /\ Seen = cursor /\ Seen' = n
    BY <1>5, LoadSteps
  <2>2. 1 .. n = (1 .. cursor) \cup {n} /\ n \in Nat
    BY <1>3
  <2>3. CASE writes(n)
    <3>1. WriteFrame
      BY <1>5, <2>1, <2>3, FirstIffUnwritten DEF SkipNonStd, SkipWritten, Frame
    <3>2. mem'[b] = byte(n)
      BY <2>3, <3>1 DEF WriteFrame, Write, Frame, Covers
    <3>3. (n + 1) .. n = {}
      BY <2>2
    <3>4. loaded(mem'[b], n)
      BY <2>2, <2>3, <3>2, <3>3
    <3> QED
      BY <1>2, <2>1, <3>4
  <2>4. CASE ~ writes(n)
    <3>1. mem'[b] = mem[b]
      <4>1. CASE SkipNonStd \/ SkipWritten
        BY <4>1 DEF SkipNonStd, SkipWritten
      <4>2. CASE WriteFrame
        <5>1. IsFirst(n)
          BY <2>1, <4>2, FirstIffUnwritten DEF WriteFrame, Frame
        <5> QED
          BY <2>4, <4>2, <5>1 DEF WriteFrame, Write, Frame, Covers
      <4> QED
        BY <1>5, <4>1, <4>2
    <3>2. \A k \in 1 .. cursor : (k + 1) .. n = ((k + 1) .. cursor) \cup {n}
      BY <1>3
    <3>3. loaded(mem'[b], n)
      <4> HIDE DEF writes, byte
      <4> QED
        BY <1>1, <2>1, <2>2, <2>4, <3>1, <3>2
    <3> QED
      BY <1>2, <2>1, <3>3
  <2> QED
    BY <2>3, <2>4
<1>6. CASE Finish \/ UNCHANGED vars
  <2>1. Seen' = Seen /\ mem' = mem /\ trace' = trace
    BY <1>6 DEF Finish, vars, Seen
  <2> QED
    BY <1>1, <1>2, <2>1
<1> QED
  BY <1>4, <1>5, <1>6 DEF Next

\* A byte of memory belongs to the last frame covering it among those that are
\* the first at their address, for every trace and after every frame.
THEOREM LoadedCorrect == Spec => []LoadedInv
<1>1. Init => LoadedInv
  BY DEF Init, LoadedInv, Seen
<1> QED
  BY <1>1, LoadedStep, TypeCorrect, PTL DEF Spec

-----------------------------------------------------------------------------
\* Every frame seen has been written, or the first one at its address has.
FirstInv ==
  \A k \in 1 .. Seen : trace[k].std =>
    \E j \in 1 .. Seen : IsFirst(j) /\ trace[j].addr = trace[k].addr

LEMMA FirstStep == TypeOK /\ FirstInv /\ [Next]_vars => FirstInv'
<1> SUFFICES ASSUME TypeOK, FirstInv, [Next]_vars
             PROVE  FirstInv'
  OBVIOUS
<1>1. Len(trace) \in Nat /\ cursor \in Nat /\ Seen \in Nat
  BY TraceFacts
<1>2. CASE Rewind
  BY <1>2 DEF Rewind, Seen, TypeOK, FirstInv
<1>3. CASE SkipNonStd \/ SkipWritten \/ WriteFrame
  <2> DEFINE n == cursor + 1
             addrOfFirst(k, s) ==
               \E j \in 1 .. s : IsFirst(j) /\ trace[j].addr = trace[k].addr
  <2>1. /\ at = "load" /\ trace' = trace /\ cursor < Len(trace)
        /\ Seen = cursor /\ Seen' = n
    BY <1>3, LoadSteps
  <2>2. 1 .. n = (1 .. cursor) \cup {n}
    BY <1>1
  <2>3. \A k \in 1 .. cursor : trace[k].std => addrOfFirst(k, cursor)
    BY <2>1 DEF FirstInv
  <2>4. trace[n].std => addrOfFirst(n, n)
    <3> SUFFICES ASSUME trace[n].std, ~ IsFirst(n)
                 PROVE  addrOfFirst(n, n)
      BY <2>2
    <3>1. PICK k \in 1 .. cursor : trace[k].std /\ trace[k].addr = trace[n].addr
      BY <1>1 DEF IsFirst
    <3> QED
      BY <2>2, <2>3, <3>1
  <2>5. \A k \in 1 .. n : trace[k].std => addrOfFirst(k, n)
    BY <2>2, <2>3, <2>4
  <2> QED
    BY <2>1, <2>5 DEF FirstInv, IsFirst
<1>4. CASE Finish \/ UNCHANGED vars
  <2>1. Seen' = Seen /\ trace' = trace
    BY <1>4 DEF Finish, vars, Seen
  <2> QED
    BY <2>1 DEF FirstInv, IsFirst
<1> QED
  BY <1>2, <1>3, <1>4 DEF Next

LEMMA LoadedImpliesConsistent ==
  TypeOK /\ LoadedInv /\ FirstInv => ConsistentCodeLoaded
<1> SUFFICES ASSUME TypeOK, LoadedInv, FirstInv, at = "done",
                    Consistent, SameLength,
                    NEW k \in DOMAIN trace, trace[k].std,
                    NEW b \in Addr, Covers(k, b)
             PROVE  mem[b] = trace[k].code[b - trace[k].addr + 1]
  BY DEF ConsistentCodeLoaded, Holds
<1>1. Seen = Len(trace) /\ DOMAIN trace = 1 .. Seen
  BY TraceFacts DEF Seen
<1>2. PICK j \in 1 .. Seen : IsFirst(j) /\ trace[j].addr = trace[k].addr
  BY <1>1 DEF FirstInv
<1>3. Covers(j, b)
  BY <1>1, <1>2 DEF IsFirst, SameLength, Covers
<1>4. PICK w \in 1 .. Seen :
        /\ IsFirst(w) /\ Covers(w, b)
        /\ mem[b] = trace[w].code[b - trace[w].addr + 1]
  BY <1>2, <1>3 DEF LoadedInv
<1> QED
  BY <1>1, <1>4 DEF Consistent, IsFirst

\* A program that never changes its code is completely in memory when SetMem
\* returns, however its instructions overlap and repeat.
THEOREM ConsistentCorrect == Spec => []ConsistentCodeLoaded
<1>1. Init => FirstInv
  BY DEF Init, FirstInv, Seen
<1> QED
  BY <1>1, FirstStep, LoadedImpliesConsistent, TypeCorrect, LoadedCorrect, PTL
  DEF Spec

-----------------------------------------------------------------------------
\* What SetMem has still to do: the rewinds and the frames ahead of the reader.
StepsLeft ==
  CASE at = "start" -> Len(trace) + 2
    [] at = "load"  -> Len(trace) + 1 - cursor
    [] OTHER        -> 0

\* Preloading ends for every trace: each step moves the reader on by a frame, or
\* is one of the two rewinds around the pass.
THEOREM LoadProgress ==
  Spec => [][0 <= StepsLeft' /\ StepsLeft' < StepsLeft]_vars
<1>1. ASSUME TypeOK, Next
      PROVE  0 <= StepsLeft' /\ StepsLeft' < StepsLeft
  <2>1. Len(trace) \in Nat /\ cursor \in 0 .. Len(trace)
    BY <1>1, TraceFacts DEF TypeOK
  <2>2. CASE Rewind
    <3>1. /\ at = "start" /\ at' \in {"aborted", "load"}
          /\ UNCHANGED <<trace, cursor>>
      BY <2>2 DEF Rewind
    <3>2. cursor = 0
      BY <1>1, <3>1 DEF TypeOK
    <3> QED
      BY <2>1, <3>1, <3>2 DEF StepsLeft
  <2>3. CASE SkipNonStd \/ SkipWritten \/ WriteFrame
    <3>1. /\ at = "load" /\ at' = "load" /\ cursor < Len(trace)
          /\ cursor' = cursor + 1 /\ UNCHANGED trace
      BY <2>3 DEF SkipNonStd, SkipWritten, WriteFrame, GetFrame
    <3> QED
      BY <2>1, <3>1 DEF StepsLeft
  <2>4. CASE Finish
    <3>1. at = "load" /\ at' = "done" /\ cursor = Len(trace)
      BY <2>4 DEF Finish
    <3> QED
      BY <2>1, <3>1 DEF StepsLeft
  <2> QED
    BY <1>1, <2>2, <2>3, <2>4 DEF Next
<1>2. TypeOK /\ [Next]_vars => [0 <= StepsLeft' /\ StepsLeft' < StepsLeft]_vars
  BY <1>1
<1> QED
  BY <1>2, TypeCorrect, PTL DEF Spec
=============================================================================
