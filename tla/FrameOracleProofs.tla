-------------------------- MODULE FrameOracleProofs -------------------------
(***************************************************************************)
(* RunFrame implements FrameOracle, for every register profile, adapter,   *)
(* set of frames and behaviour of the IL VM that the assumptions admit.    *)
(***************************************************************************)
EXTENDS FrameCheckProofs

\* The specification uses the vocabulary of FrameBase through its instance.
LEMMA SameVocabulary ==
  /\ Oracle!Addr = Addr /\ Oracle!Val = Val /\ Oracle!Cells = Cells
  /\ Oracle!Events = Events
  /\ \A o : /\ Oracle!IsPlain(o) <=> IsPlain(o)
            /\ Oracle!IsCustom(o) <=> IsCustom(o)
            /\ Oracle!IsMem(o) <=> IsMem(o)
            /\ Oracle!Untyped(o) <=> Untyped(o)
            /\ Oracle!IsMappedReg(o) <=> IsMappedReg(o)
            /\ Oracle!RegOf(o) = RegOf(o)
<1>1. Oracle!Addr = Addr /\ Oracle!Val = Val
  BY DEF Addr, Oracle!Addr, Val, Oracle!Val
<1>2. Oracle!Cells = Cells
  BY DEF Cells, Oracle!Cells, RegCells, Oracle!RegCells
<1>3. Oracle!Events = Events
  BY DEF Events, Oracle!Events
<1> QED
  BY <1>1, <1>2, <1>3
     DEF IsPlain, Oracle!IsPlain, IsCustom, Oracle!IsCustom, IsMem, Oracle!IsMem,
         Untyped, Oracle!Untyped, IsMappedReg, Oracle!IsMappedReg, RegOf,
         Oracle!RegOf, IsReg, Oracle!IsReg, Unmapped, Oracle!Unmapped

LEMMA OracleInit == Init => Oracle!Init
<1> SUFFICES ASSUME Init
             PROVE  Oracle!Init
  OBVIOUS
<1>1. Phase = "idle" /\ ~ Visible
  BY DEF Init, Phase, Visible
<1> QED
  BY <1>1 DEF Init, Oracle!Init, Oracle!Hidden, NoCounts, NoPc, Oracle!NoPc

-----------------------------------------------------------------------------
\* Lists of writes.

\* The last of some positions up to n is n if n is among them.
LEMMA LastIsEnd ==
  ASSUME NEW n \in Nat, NEW js \in SUBSET (1 .. n), n \in js
  PROVE  Oracle!LastOf(js) = n
<1>1. \E j \in js : \A k \in js : k <= j
  <2>1. \A k \in js : k <= n
    OBVIOUS
  <2> QED
    BY <2>1
<1>2. /\ Oracle!LastOf(js) \in js
      /\ \A k \in js : k <= Oracle!LastOf(js)
  BY <1>1, Zenon DEF Oracle!LastOf
<1> DEFINE last == Oracle!LastOf(js)
<1>3. last \in 1 .. n /\ n <= last
  BY <1>2
<1> HIDE DEF last
<1>4. last = n
  BY <1>3
<1> QED
  BY <1>4 DEF last

\* What writes w leave in x, which held `old`: a set of pairs.
Overwritten(writes, x, old) ==
  IF \E w \in writes : w[1] = x
  THEN (CHOOSE w \in writes : w[1] = x)[2] ELSE old

\* What the operands in js leave in cell c or at address b.
RegLeft(f, js, c) ==
  IF js = {} THEN 0
  ELSE (CHOOSE w \in Oracle!ArenaWrites(f.pre[Oracle!LastOf(js)]) : w[1] = c)[2]
MemLeft(f, js, b) ==
  IF js = {}
  THEN IF b \in Extent(f.addr, Len(f.code)) THEN f.code[b - f.addr + 1] ELSE Blank
  ELSE (CHOOSE w \in Oracle!MemWrites(f.pre[Oracle!LastOf(js)]) : w[1] = b)[2]
\* The operands up to n that write to c or b.
RegWriters(f, n, c) ==
  {j \in 1 .. n : \E w \in Oracle!ArenaWrites(f.pre[j]) : w[1] = c}
MemWriters(f, n, b) ==
  {j \in 1 .. n : \E w \in Oracle!MemWrites(f.pre[j]) : w[1] = b}
\* What the pre-operand loop has made when it is past operand n.
RegAfter(f, n, c) == RegLeft(f, RegWriters(f, n, c), c)
MemAfter(f, n, b) == MemLeft(f, MemWriters(f, n, b), b)

\* Operand n + 1 overwrites what the first n left.
LEMMA RegAfterNext ==
  ASSUME NEW f, NEW n \in Nat, NEW c
  PROVE  RegAfter(f, n + 1, c)
           = Overwritten(Oracle!ArenaWrites(f.pre[n + 1]), c, RegAfter(f, n, c))
<1> DEFINE hit == \E w \in Oracle!ArenaWrites(f.pre[n + 1]) : w[1] = c
<1>1. CASE hit
  <2> DEFINE js == RegWriters(f, n + 1, c)
  <2>1. n + 1 \in js /\ js \in SUBSET (1 .. n + 1)
    BY <1>1 DEF RegWriters
  <2>2. Oracle!LastOf(js) = n + 1 /\ js # {}
    <3> HIDE DEF js
    <3> QED
      BY <2>1, LastIsEnd
  <2>3. RegAfter(f, n + 1, c)
          = (CHOOSE w \in Oracle!ArenaWrites(f.pre[Oracle!LastOf(js)]) : w[1] = c)[2]
    <3> HIDE DEF js
    <3>1. RegAfter(f, n + 1, c) = RegLeft(f, js, c)
      BY DEF RegAfter, js
    <3> QED
      BY <2>2, <3>1 DEF RegLeft
  <2> HIDE DEF js
  <2> QED
    BY <1>1, <2>2, <2>3 DEF Overwritten
<1>2. CASE ~ hit
  <2>1. RegWriters(f, n + 1, c) = RegWriters(f, n, c)
    BY <1>2 DEF RegWriters
  <2>2. RegAfter(f, n + 1, c) = RegAfter(f, n, c)
    BY <2>1 DEF RegAfter
  <2> QED
    BY <1>2, <2>2 DEF Overwritten
<1> QED
  BY <1>1, <1>2

LEMMA MemAfterNext ==
  ASSUME NEW f, NEW n \in Nat, NEW b
  PROVE  MemAfter(f, n + 1, b)
           = Overwritten(Oracle!MemWrites(f.pre[n + 1]), b, MemAfter(f, n, b))
<1> DEFINE hit == \E w \in Oracle!MemWrites(f.pre[n + 1]) : w[1] = b
<1>1. CASE hit
  <2> DEFINE js == MemWriters(f, n + 1, b)
  <2>1. n + 1 \in js /\ js \in SUBSET (1 .. n + 1)
    BY <1>1 DEF MemWriters
  <2>2. Oracle!LastOf(js) = n + 1 /\ js # {}
    <3> HIDE DEF js
    <3> QED
      BY <2>1, LastIsEnd
  <2>3. MemAfter(f, n + 1, b)
          = (CHOOSE w \in Oracle!MemWrites(f.pre[Oracle!LastOf(js)]) : w[1] = b)[2]
    <3> HIDE DEF js
    <3>1. MemAfter(f, n + 1, b) = MemLeft(f, js, b)
      BY DEF MemAfter, js
    <3> QED
      BY <2>2, <3>1 DEF MemLeft
  <2> HIDE DEF js
  <2> QED
    BY <1>1, <2>2, <2>3 DEF Overwritten
<1>2. CASE ~ hit
  <2>1. MemWriters(f, n + 1, b) = MemWriters(f, n, b)
    BY <1>2 DEF MemWriters
  <2>2. MemAfter(f, n + 1, b) = MemAfter(f, n, b)
    BY <2>1 DEF MemAfter
  <2> QED
    BY <1>2, <2>2 DEF Overwritten
<1> QED
  BY <1>1, <1>2

\* rz_reg_set_bv writes the cells of the registers whose value fits.
LEMMA WriteRegsOverwrites ==
  ASSUME NEW a, NEW c \in Cells, NEW parts,
         \A p \in parts : p.reg \in DOMAIN Regs /\ p.value \in Seq(Val),
         \A p, q \in parts : p # q => RegCells(p.reg) \cap RegCells(q.reg) = {}
  PROVE  WriteRegs(a, parts)[c]
           = Overwritten(UNION {Oracle!RegWrite(p.reg, p.value) : p \in parts}, c, a[c])
<1> DEFINE writes == UNION {Oracle!RegWrite(p.reg, p.value) : p \in parts}
           fitting == {p \in parts : c \in RegCells(p.reg)
                                       /\ Len(p.value) = Regs[p.reg].size}
           at1(p) == p.value[c[2] - Regs[p.reg].offset + 1]
<1>1. WriteRegs(a, parts)[c]
        = IF fitting = {} THEN a[c] ELSE at1(CHOOSE p \in fitting : TRUE)
  BY DEF WriteRegs
<1>2. ASSUME NEW w \in writes, w[1] = c
      PROVE  \E p \in fitting : w[2] = at1(p)
  <2>1. PICK p \in parts : w \in Oracle!RegWrite(p.reg, p.value)
    BY <1>2
  <2>2. /\ Len(p.value) = Regs[p.reg].size
        /\ w \in {<<Oracle!CellOfReg(p.reg, k), p.value[k]>> : k \in DOMAIN p.value}
    BY <2>1 DEF Oracle!RegWrite
  <2>3. PICK k \in DOMAIN p.value : w = <<Oracle!CellOfReg(p.reg, k), p.value[k]>>
    BY <2>2
  <2>4. /\ Regs[p.reg].offset \in Nat /\ Regs[p.reg].size \in Nat
        /\ k \in 1 .. Regs[p.reg].size
    BY <2>2, ProfileAssumption
  <2>5. c = <<Regs[p.reg].type, Regs[p.reg].offset + k - 1>> /\ w[2] = p.value[k]
    BY <1>2, <2>3 DEF Oracle!CellOfReg
  <2>6. c = <<Regs[p.reg].type, Regs[p.reg].offset + (k - 1)>>
    BY <2>4, <2>5
  <2>7. c \in RegCells(p.reg)
    BY <2>4, <2>6 DEF RegCells
  <2>8. c[2] - Regs[p.reg].offset + 1 = k
    BY <2>4, <2>5
  <2> QED
    BY <2>2, <2>5, <2>7, <2>8
<1>3. ASSUME NEW p \in fitting
      PROVE  \E w \in writes : w[1] = c
  <2>1. p \in parts /\ c \in RegCells(p.reg) /\ Len(p.value) = Regs[p.reg].size
    OBVIOUS
  <2>2. PICK k \in 0 .. (Regs[p.reg].size - 1) :
          c = <<Regs[p.reg].type, Regs[p.reg].offset + k>>
    BY <2>1 DEF RegCells
  <2>3. /\ Regs[p.reg].offset \in Nat /\ Regs[p.reg].size \in Nat
        /\ p.value \in Seq(Val)
    BY <2>1, ProfileAssumption
  <2>4. k + 1 \in DOMAIN p.value /\ Regs[p.reg].offset + (k + 1) - 1 = Regs[p.reg].offset + k
    BY <2>1, <2>2, <2>3
  <2>5. c = Oracle!CellOfReg(p.reg, k + 1)
    BY <2>2, <2>4 DEF Oracle!CellOfReg
  <2>6. <<c, p.value[k + 1]>> \in Oracle!RegWrite(p.reg, p.value)
    BY <2>1, <2>4, <2>5 DEF Oracle!RegWrite
  <2>7. <<c, p.value[k + 1]>> \in writes
    BY <2>1, <2>6
  <2>8. <<c, p.value[k + 1]>>[1] = c
    OBVIOUS
  <2> QED
    BY <2>7, <2>8
<1>4. \A p, q \in fitting : p = q
  OBVIOUS
<1> SUFFICES WriteRegs(a, parts)[c] = Overwritten(writes, c, a[c])
  OBVIOUS
<1> HIDE DEF writes, fitting, at1
<1>5. CASE fitting = {}
  <2>1. ~ \E w \in writes : w[1] = c
    BY <1>2, <1>5
  <2>2. Overwritten(writes, c, a[c]) = a[c]
    BY <2>1 DEF Overwritten
  <2>3. WriteRegs(a, parts)[c] = a[c]
    BY <1>1, <1>5
  <2> QED
    BY <2>2, <2>3
<1>6. CASE fitting # {}
  <2> DEFINE w == CHOOSE v \in writes : v[1] = c
             p == CHOOSE q \in fitting : TRUE
  <2>1. \E v \in writes : v[1] = c
    BY <1>3, <1>6
  <2>2. w \in writes /\ w[1] = c
    BY <2>1
  <2>3. p \in fitting
    BY <1>6
  <2>4. PICK q \in fitting : w[2] = at1(q)
    BY <1>2, <2>2
  <2>5. q = p
    BY <1>4, <2>3, <2>4
  <2>6. Overwritten(writes, c, a[c]) = w[2]
    BY <2>1 DEF Overwritten
  <2>7. WriteRegs(a, parts)[c] = at1(p)
    BY <1>1, <1>6
  <2>8. at1(p) = w[2]
    BY <2>4, <2>5
  <2> QED
    BY <2>6, <2>7, <2>8
<1> QED
  BY <1>5, <1>6

\* rz_io_write_at writes the bytes of the value.
LEMMA WriteMemOverwrites ==
  ASSUME NEW m, NEW b \in Addr, NEW o, IsMem(o), o.addr \in Addr, o.value \in Seq(Val)
  PROVE  WriteMem(m, o.addr, o.value)[b] = Overwritten(Oracle!MemWrites(o), b, m[b])
<1> DEFINE writes == Oracle!MemWrites(o)
<1>0. /\ o.addr \in Nat /\ b \in Nat /\ Len(o.value) \in Nat
      /\ DOMAIN o.value = 1 .. Len(o.value)
  <2>1. o.addr \in Nat /\ b \in Nat
    BY ValFacts
  <2> DEFINE v == o.value
  <2>2. v \in Seq(Val)
    OBVIOUS
  <2> HIDE DEF v
  <2>3. Len(v) \in Nat /\ DOMAIN v = 1 .. Len(v)
    BY <2>2
  <2> QED
    BY <2>1, <2>3 DEF v
<1>1. writes = {<<o.addr + k - 1, o.value[k]>> : k \in DOMAIN o.value}
  BY SameVocabulary DEF Oracle!MemWrites
<1>2. ASSUME NEW w \in writes, w[1] = b
      PROVE  b \in Extent(o.addr, Len(o.value)) /\ w[2] = o.value[b - o.addr + 1]
  <2>1. PICK k \in 1 .. Len(o.value) : w = <<o.addr + k - 1, o.value[k]>>
    BY <1>0, <1>1
  <2>2. b = o.addr + k - 1 /\ w[2] = o.value[k]
    BY <1>2, <2>1
  <2>3. k = b - o.addr + 1 /\ b \in Extent(o.addr, Len(o.value))
    BY <1>0, <2>2 DEF Extent
  <2> QED
    BY <2>2, <2>3
<1>3. ASSUME b \in Extent(o.addr, Len(o.value))
      PROVE  \E w \in writes : w[1] = b
  <2>1. b - o.addr + 1 \in 1 .. Len(o.value) /\ o.addr + (b - o.addr + 1) - 1 = b
    BY <1>0, <1>3 DEF Extent
  <2>2. <<b, o.value[b - o.addr + 1]>> \in writes
    BY <1>0, <1>1, <2>1
  <2>3. <<b, o.value[b - o.addr + 1]>>[1] = b
    OBVIOUS
  <2> QED
    BY <2>2, <2>3
<1>4. WriteMem(m, o.addr, o.value)[b]
        = IF b \in Extent(o.addr, Len(o.value)) THEN o.value[b - o.addr + 1] ELSE m[b]
  BY DEF WriteMem
<1> HIDE DEF writes
<1>5. WriteMem(m, o.addr, o.value)[b] = Overwritten(writes, b, m[b])
  <2>1. CASE \E w \in writes : w[1] = b
    <3> DEFINE w == CHOOSE v \in writes : v[1] = b
    <3>1. w \in writes /\ w[1] = b
      BY <2>1
    <3> QED
      BY <1>2, <1>4, <2>1, <3>1 DEF Overwritten
  <2>2. CASE ~ \E w \in writes : w[1] = b
    BY <1>3, <1>4, <2>2 DEF Overwritten
  <2> QED
    BY <2>1, <2>2
<1> QED
  BY <1>5 DEF writes

-----------------------------------------------------------------------------
\* A pre-operand writes to the arena, or to memory, what the specification says.
LEMMA PreRegWrites ==
  ASSUME TypeOK, PreReg, NEW c \in Cells
  PROVE  arena'[c] = Overwritten(Oracle!ArenaWrites(PreOperand), c, arena[c])
<1> DEFINE o == PreOperand
           value == AdjustRegContentsFromTrace(o.name, o.value, NullOp)
           part == [reg |-> RegOf(o), value |-> value]
<1>0. /\ o \in Range(frame.pre) /\ frame \in Frames
      /\ IsCustom(o) => \A s \in SubRegs(o.name, o.value) :
                           s.reg \in DOMAIN Regs /\ s.value \in Seq(Val)
      /\ IsPlain(o) => value \in Seq(Val)
  <2>1. frame \in Frames /\ frame.pre \in Seq(OperandType) /\ i \in 1 .. Len(frame.pre)
    BY FrameTypes DEF TypeOK, PreReg, PreVisit
  <2>2. o \in Range(frame.pre)
    BY <2>1, OperandTypes DEF PreOperand
  <2> QED
    BY <2>1, <2>2, AdapterAssumption
<1>1. CASE IsCustom(o)
  <2>1. arena' = WriteRegs(arena, SubRegs(o.name, o.value))
    BY <1>1 DEF PreReg
  <2>2. Oracle!ArenaWrites(o)
          = UNION {Oracle!RegWrite(s.reg, s.value) : s \in SubRegs(o.name, o.value)}
    BY <1>1, SameVocabulary DEF Oracle!ArenaWrites
  <2>3. \A s, t \in SubRegs(o.name, o.value) :
          s # t => RegCells(s.reg) \cap RegCells(t.reg) = {}
    BY <1>0, <1>1, SubRegAssumption
  <2> QED
    BY <1>0, <1>1, <2>1, <2>2, <2>3, WriteRegsOverwrites
<1>2. CASE IsPlain(o)
  <2>1. ~ IsCustom(o) /\ RegOf(o) \in DOMAIN Regs
    BY <1>2 DEF IsPlain
  <2>2. arena' = WriteRegs(arena, {part})
    BY <1>2, <2>1 DEF PreReg
  <2>3. Oracle!ArenaWrites(o) = Oracle!RegWrite(RegOf(o), value)
    BY <1>2, <2>1, SameVocabulary DEF Oracle!ArenaWrites, Oracle!NullOp, NullOp
  <2>4. part.reg = RegOf(o) /\ part.value = value
    OBVIOUS
  <2>5. UNION {Oracle!RegWrite(p.reg, p.value) : p \in {part}}
          = Oracle!RegWrite(RegOf(o), value)
    <3> HIDE DEF part, value
    <3> QED
      BY <2>4
  <2>6. /\ \A p \in {part} : p.reg \in DOMAIN Regs /\ p.value \in Seq(Val)
        /\ \A p, q \in {part} : p # q => RegCells(p.reg) \cap RegCells(q.reg) = {}
    <3> HIDE DEF part, value
    <3> QED
      BY <1>0, <1>2, <2>1, <2>4
  <2>7. WriteRegs(arena, {part})[c]
          = Overwritten(UNION {Oracle!RegWrite(p.reg, p.value) : p \in {part}}, c, arena[c])
    BY <2>6, WriteRegsOverwrites
  <2> QED
    BY <2>2, <2>3, <2>5, <2>7
<1>3. CASE ~ IsCustom(o) /\ ~ IsPlain(o)
  <2>1. arena' = arena
    BY <1>3 DEF PreReg
  <2>2. Oracle!ArenaWrites(o) = {}
    BY <1>3, SameVocabulary DEF Oracle!ArenaWrites
  <2> QED
    BY <2>1, <2>2 DEF Overwritten
<1> QED
  BY <1>1, <1>2, <1>3

LEMMA PreMemWrites ==
  ASSUME TypeOK, PreMem, NEW b \in Addr
  PROVE  mem'[b] = Overwritten(Oracle!MemWrites(PreOperand), b, mem[b])
<1>1. /\ frame.pre \in Seq(OperandType) /\ i \in 1 .. Len(frame.pre)
  BY FrameTypes DEF TypeOK, PreMem, PreVisit
<1>2. /\ IsMem(PreOperand) /\ PreOperand.addr \in Addr
      /\ PreOperand.value \in Seq(Val)
      /\ mem' = WriteMem(mem, PreOperand.addr, PreOperand.value)
  BY <1>1, OperandTypes DEF PreMem, PreOperand
<1> QED
  BY <1>2, WriteMemOverwrites

\* Operands of the other kind change nothing.
LEMMA OtherKindWritesNothing ==
  ASSUME NEW o, NEW x, NEW old
  PROVE  /\ IsMem(o) => Overwritten(Oracle!ArenaWrites(o), x, old) = old
         /\ IsReg(o) => Overwritten(Oracle!MemWrites(o), x, old) = old
<1>1. IsMem(o) => Oracle!ArenaWrites(o) = {}
  BY SameVocabulary DEF Oracle!ArenaWrites, IsMem, IsReg, IsCustom, IsPlain, IsMappedReg
<1>2. IsReg(o) => Oracle!MemWrites(o) = {}
  BY SameVocabulary DEF Oracle!MemWrites, IsMem, IsReg
<1> QED
  BY <1>1, <1>2 DEF Overwritten

\* Where the loop over the pre-operands stands: nothing was refused so far, and
\* registers and memory are what the operands behind it say.
PreInv ==
  at = "pre" =>
    /\ frame.std /\ frame.code # <<>> /\ frame.code \notin SkippedCode
    /\ i <= Len(frame.pre) + 1
    /\ \A j \in 1 .. (i - 1) : ~ Untyped(frame.pre[j])
    /\ \A c \in Cells : arena[c] = RegAfter(frame, i - 1, c)
    /\ CacheReset => \A b \in Addr : mem[b] = MemAfter(frame, i - 1, b)

LEMMA PreStep == TypeOK /\ PreInv /\ [Next]_vars => PreInv'
<1> SUFFICES ASSUME TypeOK, PreInv, [Next]_vars
             PROVE  PreInv'
  OBVIOUS
<1> USE DEF call, machine, vm, locals, outcome
<1>0. /\ frame \in Frames /\ i \in Nat \ {0}
      /\ frame.addr \in Addr /\ frame.code \in Seq(Val)
      /\ frame.pre \in Seq(OperandType) /\ Len(frame.pre) \in Nat
  BY FrameTypes DEF TypeOK
<1>1. CASE SetUp
  <2>1. /\ frame' = frame /\ i' = 1 /\ i' - 1 = 0 /\ arena' = ZeroArena
        /\ frame.std /\ frame.code # <<>> /\ frame.code \notin SkippedCode
        /\ CacheReset => mem' = WriteMem(BlankMem, frame.addr, frame.code)
    BY <1>1 DEF SetUp, Goto
  <2>2. \A c \in Cells : arena'[c] = RegAfter(frame, 0, c)
    <3>1. \A c : RegWriters(frame, 0, c) = {}
      BY DEF RegWriters
    <3> QED
      BY <2>1, <3>1 DEF ZeroArena, RegAfter, RegLeft
  <2>3. CacheReset => \A b \in Addr : mem'[b] = MemAfter(frame, 0, b)
    <3>1. \A b : MemWriters(frame, 0, b) = {}
      BY DEF MemWriters
    <3> QED
      BY <2>1, <3>1 DEF WriteMem, BlankMem, MemAfter, MemLeft
  <2> QED
    BY <1>0, <2>1, <2>2, <2>3 DEF PreInv
<1>2. CASE PreReg \/ PreMem
  <2> DEFINE n == i - 1
  <2>1. /\ at = "pre" /\ i \in 1 .. Len(frame.pre) /\ i' = i + 1 /\ frame' = frame
        /\ n \in Nat /\ n + 1 = i /\ i' - 1 = n + 1
        /\ ~ Untyped(frame.pre[i]) /\ PreOperand = frame.pre[n + 1]
    BY <1>0, <1>2 DEF PreReg, PreMem, PreVisit, PreOperand, Untyped
  <2>2. /\ frame.std /\ frame.code # <<>> /\ frame.code \notin SkippedCode
        /\ \A j \in 1 .. n : ~ Untyped(frame.pre[j])
        /\ \A c \in Cells : arena[c] = RegAfter(frame, n, c)
        /\ CacheReset => \A b \in Addr : mem[b] = MemAfter(frame, n, b)
    BY <2>1 DEF PreInv
  <2> HIDE DEF n
  <2>3. \A c \in Cells :
          arena'[c] = Overwritten(Oracle!ArenaWrites(PreOperand), c, arena[c])
    <3>1. CASE PreReg
      BY <3>1, PreRegWrites
    <3>2. CASE PreMem
      BY <3>2, OtherKindWritesNothing DEF PreMem
    <3> QED
      BY <1>2, <3>1, <3>2
  <2>4. \A b \in Addr :
          mem'[b] = Overwritten(Oracle!MemWrites(PreOperand), b, mem[b])
    <3>1. CASE PreReg
      BY <3>1, OtherKindWritesNothing DEF PreReg
    <3>2. CASE PreMem
      BY <3>2, PreMemWrites
    <3> QED
      BY <1>2, <3>1, <3>2
  <2>5. \A c \in Cells : arena'[c] = RegAfter(frame, n + 1, c)
    BY <2>1, <2>2, <2>3, RegAfterNext
  <2>6. CacheReset => \A b \in Addr : mem'[b] = MemAfter(frame, n + 1, b)
    BY <2>1, <2>2, <2>4, MemAfterNext
  <2>7. \A j \in 1 .. n + 1 : ~ Untyped(frame.pre[j])
    BY <2>1, <2>2
  <2>8. i' <= Len(frame.pre) + 1
    BY <1>0, <2>1
  <2> QED
    BY <2>1, <2>2, <2>5, <2>6, <2>7, <2>8 DEF PreInv
<1>3. CASE UNCHANGED vars
  BY <1>3 DEF vars, PreInv
<1>4. CASE Call \/ NonStd \/ NoCode \/ Skip \/ PreUntyped \/ SetPc
            \/ NotLifted \/ InvalidIL \/ Lifted \/ StepFailed \/ StepDone
            \/ PostUntyped \/ ComparePc \/ Finish
  <2>1. at' # "pre"
    BY <1>4 DEF Call, NonStd, NoCode, Skip, PreUntyped, SetPc, NotLifted,
                InvalidIL, Lifted, StepFailed, StepDone, PostUntyped, ComparePc,
                Finish, Return, Goto
  <2> QED
    BY <2>1 DEF PreInv
<1>5. CASE VarRead \/ VarWrite \/ MemRead \/ MemWrite \/ PostUnknown
            \/ PostCustom \/ PostReg \/ PostMem \/ CheckEvent
  <2>1. at' # "pre"
    BY <1>5 DEF VarRead, VarWrite, MemRead, MemWrite, VmGoesOn, PostUnknown,
                PostCustom, PostReg, PostMem, PostVisit, CheckEvent
  <2> QED
    BY <2>1 DEF PreInv
<1> QED
  BY <1>1, <1>2, <1>3, <1>4, <1>5 DEF Next, Step

\* At the end of the loop the pre-state is that of the specification.
LEMMA PreComplete ==
  ASSUME TypeOK, PreInv, SetPc
  PROVE  /\ Oracle!Refusal(frame) = "none"
         /\ arena' = Oracle!PreArena(frame)
         /\ CacheReset => mem' = Oracle!PreMem(frame)
<1> DEFINE n == Len(frame.pre)
           part == [reg |-> PcReg, value |-> PcContents(frame.addr)]
<1>1. /\ frame.addr \in Addr /\ frame.pre \in Seq(OperandType)
      /\ n \in Nat /\ DOMAIN frame.pre = 1 .. n
  BY FrameTypes DEF TypeOK
<1>2. /\ frame.std /\ frame.code # <<>> /\ frame.code \notin SkippedCode
      /\ \A j \in 1 .. n : ~ Untyped(frame.pre[j])
      /\ \A c \in Cells : arena[c] = RegAfter(frame, n, c)
      /\ CacheReset => \A b \in Addr : mem[b] = MemAfter(frame, n, b)
  <2>1. i - 1 = n
    BY <1>1 DEF TypeOK, SetPc, PreInv
  <2> QED
    BY <2>1 DEF SetPc, PreInv
<1>3. Oracle!Refusal(frame) = "none"
  BY <1>1, <1>2, SameVocabulary DEF Oracle!Refusal
<1>4. arena' = WriteRegs(arena, {part}) /\ mem' = mem
  BY DEF SetPc, machine
<1>5. ASSUME NEW c \in Cells
      PROVE  arena'[c] = IF c \in RegCells(PcReg)
                         THEN PcContents(frame.addr)[c[2] - Regs[PcReg].offset + 1]
                         ELSE arena[c]
  <2>1. Len(PcContents(frame.addr)) = Regs[PcReg].size
    BY ProfileAssumption DEF PcContents
  <2>2. part.reg = PcReg /\ part.value = PcContents(frame.addr)
    OBVIOUS
  <2> HIDE DEF part
  <2>3. CASE c \in RegCells(PcReg)
    <3>1. {p \in {part} : c \in RegCells(p.reg) /\ Len(p.value) = Regs[p.reg].size} = {part}
      BY <2>1, <2>2, <2>3
    <3>2. (CHOOSE p \in {part} : TRUE) = part
      OBVIOUS
    <3>3. arena'[c] = part.value[c[2] - Regs[part.reg].offset + 1]
      BY <1>4, <3>1, <3>2 DEF WriteRegs
    <3> QED
      BY <2>2, <2>3, <3>3
  <2>4. CASE c \notin RegCells(PcReg)
    <3>1. {p \in {part} : c \in RegCells(p.reg) /\ Len(p.value) = Regs[p.reg].size} = {}
      BY <2>2, <2>4
    <3> QED
      BY <1>4, <2>4, <3>1 DEF WriteRegs
  <2> QED
    BY <2>3, <2>4
<1> DEFINE regWriters(c) ==
             {j \in DOMAIN frame.pre : \E w \in Oracle!ArenaWrites(frame.pre[j]) : w[1] = c}
           memWriters(b) ==
             {j \in DOMAIN frame.pre : \E w \in Oracle!MemWrites(frame.pre[j]) : w[1] = b}
<1>6. Oracle!PreArena(frame)
        = [c \in Oracle!Cells |->
             IF c \in Oracle!RegCells(PcReg)
             THEN Oracle!PcContents(frame.addr)[c[2] - Regs[PcReg].offset + 1]
             ELSE RegLeft(frame, regWriters(c), c)]
  BY DEF Oracle!PreArena, Oracle!Written, RegLeft
<1>7. Oracle!PreArena(frame)
        = [c \in Cells |-> IF c \in RegCells(PcReg)
                            THEN PcContents(frame.addr)[c[2] - Regs[PcReg].offset + 1]
                            ELSE RegAfter(frame, n, c)]
  <2>1. \A c : regWriters(c) = RegWriters(frame, n, c)
    BY <1>1 DEF RegWriters
  <2>2. Oracle!RegCells(PcReg) = RegCells(PcReg)
    BY DEF Oracle!RegCells, RegCells
  <2>3. Oracle!PcContents(frame.addr) = PcContents(frame.addr)
    BY DEF Oracle!PcContents, PcContents
  <2> HIDE DEF regWriters
  <2> QED
    BY <1>6, <2>1, <2>2, <2>3, SameVocabulary DEF RegAfter
<1>8. arena' = Oracle!PreArena(frame)
  <2>1. arena' \in [Cells -> Val]
    BY <1>1, <1>4, ValFacts, WritePcType DEF TypeOK
  <2> QED
    BY <1>2, <1>5, <1>7, <2>1
<1>9. ASSUME CacheReset
      PROVE  mem' = Oracle!PreMem(frame)
  <2>1. Oracle!PreMem(frame) = [b \in Oracle!Addr |-> MemLeft(frame, memWriters(b), b)]
    <3>1. \A js, x, y : (IF js # {} THEN x ELSE y) = (IF js = {} THEN y ELSE x)
      OBVIOUS
    <3> QED
      BY <3>1 DEF Oracle!PreMem, Oracle!Written, MemLeft, Oracle!Extent, Extent
  <2>2. Oracle!PreMem(frame) = [b \in Addr |-> MemAfter(frame, n, b)]
    <3>1. \A b : memWriters(b) = MemWriters(frame, n, b)
      BY <1>1 DEF MemWriters
    <3> HIDE DEF memWriters
    <3> QED
      BY <2>1, <3>1, SameVocabulary DEF MemAfter
  <2>3. mem = [b \in Addr |-> mem[b]]
    BY DEF TypeOK
  <2> QED
    BY <1>2, <1>4, <1>9, <2>2, <2>3
<1> QED
  BY <1>3, <1>8, <1>9

-----------------------------------------------------------------------------
\* The comparison.

\* RunFrame counts operand j as a mismatch.
Bad(f, a, m, j) ==
  LET o == f.post[j] IN
  \/ /\ IsPlain(o) /\ Oracle!IsLast(f.post, j) /\ ~ IgnorePostMismatchReg(RegOf(o))
     /\ AdjustRegContentsFromTrace(o.name, o.value, f.code)
          # AdjustRegContentsFromRizin(o.name, ReadReg(a, RegOf(o)))
  \/ /\ IsCustom(o)
     /\ \E s \in SubRegs(o.name, o.value) :
          /\ SubRegContents(s.reg, ReadReg(a, s.reg)) # s.value
          /\ ~ IgnorePostMismatchReg(s.reg)
  \/ /\ IsMem(o) /\ ~ IgnoreCompareMemMismatch
     /\ ReadMem(m, o.addr, Len(o.value)) # o.value
\* The PC that is expected behind post-operand n.
PcNamed(f, n) ==
  {j \in 1 .. n : IsPlain(f.post[j]) /\ RegOf(f.post[j]) = PcReg}
PcFrom(f, np, js) ==
  IF js # {}
  THEN LET o == f.post[Oracle!LastOf(js)]
       IN  AdjustRegContentsFromTrace(o.name, o.value, f.code)[1]
  ELSE IF np # NoPc THEN np ELSE (f.addr + Len(f.code)) % MemSize
PcUpTo(f, np, n) == PcFrom(f, np, PcNamed(f, n))

LEMMA PcUpToNext ==
  ASSUME NEW f, NEW np, NEW n \in Nat
  PROVE  LET o == f.post[n + 1] IN
         PcUpTo(f, np, n + 1)
           = IF IsPlain(o) /\ RegOf(o) = PcReg
             THEN AdjustRegContentsFromTrace(o.name, o.value, f.code)[1]
             ELSE PcUpTo(f, np, n)
<1> DEFINE o == f.post[n + 1]
           js == PcNamed(f, n + 1)
<1>1. CASE IsPlain(o) /\ RegOf(o) = PcReg
  <2>1. n + 1 \in js /\ js \in SUBSET (1 .. n + 1)
    BY <1>1 DEF PcNamed
  <2> HIDE DEF js
  <2>2. Oracle!LastOf(js) = n + 1 /\ js # {}
    BY <2>1, LastIsEnd
  <2>3. PcUpTo(f, np, n + 1) = PcFrom(f, np, js)
    BY DEF PcUpTo, js
  <2> QED
    BY <1>1, <2>2, <2>3 DEF PcFrom
<1>2. CASE ~ (IsPlain(o) /\ RegOf(o) = PcReg)
  <2>1. js = PcNamed(f, n)
    BY <1>2 DEF PcNamed
  <2> QED
    BY <1>2, <2>1 DEF PcUpTo
<1> QED
  BY <1>1, <1>2

\* The countdown tells the last operand of a register.
LEMMA StrictAtLast ==
  ASSUME TypeOK, CountdownInv, PostVisit, IsPlain(PostOperand),
         RegOf(PostOperand) \in DOMAIN postCount
  PROVE  (postCount[RegOf(PostOperand)] <= 1) <=> Oracle!IsLast(frame.post, i)
<1> DEFINE r == RegOf(PostOperand)
           left == Cardinality(LeftFrom(i + 1, r))
<1>1. /\ frame \in Frames /\ frame.post \in Seq(OperandType) /\ Len(frame.post) \in Nat
      /\ i \in 1 .. Len(frame.post) /\ PostOperand = frame.post[i]
      /\ i \in Nat /\ i + 1 \in Nat
  BY FrameTypes DEF TypeOK, PostVisit, PostOperand
<1>2. /\ LeftFrom(i, r) # {} /\ Cardinality(LeftFrom(i, r)) = left + 1
  BY <1>1, LeftOneLess
<1>3. postCount[r] = Cardinality(LeftFrom(i, r))
  BY <1>2, CountdownIff DEF PostVisit
<1>4. left \in Nat /\ (left = 0 <=> LeftFrom(i + 1, r) = {})
  BY <1>1, LeftFinite, FS_EmptySet
<1>5. (postCount[r] <= 1) <=> (LeftFrom(i + 1, r) = {})
  <2> HIDE DEF left, r
  <2> QED
    BY <1>2, <1>3, <1>4
<1>6. ASSUME NEW k \in i + 1 .. Len(frame.post),
             IsMappedReg(frame.post[k]), RegOf(frame.post[k]) = r
      PROVE  IsPlain(frame.post[k])
  <2>1. frame.post[k] \in Range(frame.post) /\ frame.post[i] \in Range(frame.post)
    BY <1>1, OperandTypes
  <2>2. IsCustom(frame.post[k]) <=> IsCustom(frame.post[i])
    BY <1>1, <1>6, <2>1, CustomAssumption DEF IsPlain
  <2> QED
    BY <1>1, <1>6, <2>2 DEF IsPlain
<1>7. LeftFrom(i + 1, r) = {} <=> Oracle!IsLast(frame.post, i)
  BY <1>1, <1>6, SameVocabulary DEF LeftFrom, Oracle!IsLast, IsPlain
<1> QED
  BY <1>5, <1>7

\* Names of IL variables and of the trace overlap if their bits do.
LEMMA OverlapIsSharedCell ==
  ASSUME NEW o, NEW var \in Bound
  PROVE  TraceRegOverlapsILVar(o, var)
           <=> /\ RegOf(o) # Unmapped /\ RegOf(o) \in DOMAIN Regs
               /\ RegCells(RegOf(o)) \cap RegCells(var) # {}
<1> DEFINE rn == RegOf(o)
<1> SUFFICES ASSUME rn \in DOMAIN Regs, rn # Unmapped
             PROVE  TraceRegOverlapsILVar(o, var)
                      <=> RegCells(rn) \cap RegCells(var) # {}
  BY DEF TraceRegOverlapsILVar
<1> HIDE DEF rn
<1>1. /\ var \in DOMAIN Regs
      /\ Regs[rn].offset \in Nat /\ Regs[rn].size \in Nat \ {0}
      /\ Regs[var].offset \in Nat /\ Regs[var].size \in Nat \ {0}
  BY ProfileAssumption
<1> DEFINE apart == \/ Regs[var].offset >= Regs[rn].offset + Regs[rn].size
                    \/ Regs[var].offset + Regs[var].size <= Regs[rn].offset
<1>2. TraceRegOverlapsILVar(o, var)
        <=> rn = var \/ (Regs[rn].type = Regs[var].type /\ ~ apart)
  BY <1>1 DEF TraceRegOverlapsILVar, rn
<1>3. ASSUME Regs[rn].type = Regs[var].type, ~ apart
      PROVE  RegCells(rn) \cap RegCells(var) # {}
  <2> DEFINE first == IF Regs[rn].offset <= Regs[var].offset
                      THEN Regs[var].offset ELSE Regs[rn].offset
             c == <<Regs[rn].type, first>>
  <2>1. /\ first - Regs[rn].offset \in 0 .. (Regs[rn].size - 1)
        /\ first - Regs[var].offset \in 0 .. (Regs[var].size - 1)
        /\ Regs[rn].offset + (first - Regs[rn].offset) = first
        /\ Regs[var].offset + (first - Regs[var].offset) = first
    BY <1>1, <1>3
  <2> HIDE DEF first
  <2>2. c \in RegCells(rn) /\ c \in RegCells(var)
    BY <1>3, <2>1 DEF RegCells
  <2> QED
    BY <2>2
<1>4. ASSUME NEW c \in RegCells(rn), c \in RegCells(var)
      PROVE  Regs[rn].type = Regs[var].type /\ ~ apart
  <2>1. PICK k \in 0 .. (Regs[rn].size - 1) :
          c = <<Regs[rn].type, Regs[rn].offset + k>>
    BY DEF RegCells
  <2>2. PICK l \in 0 .. (Regs[var].size - 1) :
          c = <<Regs[var].type, Regs[var].offset + l>>
    BY <1>4 DEF RegCells
  <2>3. /\ Regs[rn].type = Regs[var].type
        /\ Regs[rn].offset + k = Regs[var].offset + l
    BY <2>1, <2>2
  <2> QED
    BY <1>1, <2>3
<1>5. ASSUME rn = var
      PROVE  Regs[rn].type = Regs[var].type /\ ~ apart
  BY <1>1, <1>5
<1> HIDE DEF apart
<1> QED
  BY <1>2, <1>3, <1>4, <1>5

\* Where the comparison stands.
PcHolds ==
  LET e == PcUpTo(frame, nextPc, Len(frame.post))
  IN  vmPc = e \/ RegPc(arena) = e \/ IgnorePCMismatch(RegPc(arena), e)
BadUpTo(n) == \E j \in 1 .. n : Bad(frame, arena, mem, j)
UnjustifiedUpTo(n) == \E k \in 1 .. n : ~ Justified(events[k])
CompareInv ==
  /\ at \notin {"post", "events"} => ~ mismatch
  /\ at = "post" =>
       /\ i <= Len(frame.post) + 1
       /\ \A j \in 1 .. (i - 1) : ~ Untyped(frame.post[j])
       /\ \A j \in 1 .. Len(frame.post) :
            IsPlain(frame.post[j]) => RegOf(frame.post[j]) \in DOMAIN postCount
       /\ mismatch <=> BadUpTo(i - 1)
       /\ pcExpect = PcUpTo(frame, nextPc, i - 1)
  /\ at = "events" =>
       /\ i <= Len(events) + 1
       /\ \A j \in 1 .. Len(frame.post) : ~ Untyped(frame.post[j])
       /\ mismatch <=> \/ BadUpTo(Len(frame.post))
                       \/ ~ PcHolds
                       \/ UnjustifiedUpTo(i - 1)

\* One operand: its mismatch is added, and the PC it names is expected.
LEMMA OperandCompared ==
  ASSUME TypeOK, CountdownInv, CompareInv,
         PostUnknown \/ PostCustom \/ PostReg \/ PostMem
  PROVE  /\ mismatch' <=> mismatch \/ Bad(frame, arena, mem, i)
         /\ pcExpect' = PcUpTo(frame, nextPc, i)
         /\ DOMAIN postCount' = DOMAIN postCount
         /\ ~ Untyped(frame.post[i])
<1> USE DEF call, machine, vm, locals, outcome
<1> DEFINE o == frame.post[i]
           n == i - 1
           np == nextPc
<1>1. /\ PostVisit /\ PostOperand = o /\ i \in 1 .. Len(frame.post)
      /\ n \in Nat /\ n + 1 = i /\ mismatch \in BOOLEAN
  <2>1. PostVisit
    BY Zenon DEF PostUnknown, PostCustom, PostReg, PostMem
  <2>2. i \in Nat \ {0} /\ mismatch \in BOOLEAN /\ Len(frame.post) \in Nat
    BY FrameTypes DEF TypeOK
  <2> QED
    BY <2>1, <2>2 DEF PostVisit, PostOperand
<1>2. PcUpTo(frame, np, i) =
        IF IsPlain(o) /\ RegOf(o) = PcReg
        THEN AdjustRegContentsFromTrace(o.name, o.value, frame.code)[1] ELSE pcExpect
  <2>1. pcExpect = PcUpTo(frame, np, n)
    BY <1>1 DEF CompareInv, PostVisit
  <2>2. o = frame.post[n + 1]
    BY <1>1
  <2> HIDE DEF n, o, np
  <2>3. PcUpTo(frame, np, n + 1) =
          IF IsPlain(o) /\ RegOf(o) = PcReg
          THEN AdjustRegContentsFromTrace(o.name, o.value, frame.code)[1]
          ELSE PcUpTo(frame, np, n)
    BY <1>1, <2>2, PcUpToNext
  <2> QED
    BY <1>1, <2>1, <2>3
<1>3. CASE PostUnknown
  BY <1>1, <1>2, <1>3 DEF PostUnknown, Bad, IsCustom, IsMem, IsReg, Untyped, IsPlain
<1>4. CASE PostCustom
  <2>1. IsCustom(o) /\ ~ IsPlain(o) /\ ~ IsMem(o) /\ ~ Untyped(o)
    BY <1>1, <1>4 DEF PostCustom, IsCustom, IsMappedReg, IsPlain, IsMem, IsReg, Untyped
  <2> DEFINE found == \E s \in SubRegs(o.name, o.value) :
                /\ SubRegContents(s.reg, ReadReg(arena, s.reg)) # s.value
                /\ ~ IgnorePostMismatchReg(s.reg)
  <2>2. Bad(frame, arena, mem, i) <=> found
    BY <2>1 DEF Bad
  <2>3. mismatch' = (mismatch \/ found)
    BY <1>1, <1>4 DEF PostCustom, Mismatched
  <2>4. pcExpect' = pcExpect /\ postCount' = postCount
    BY <1>4 DEF PostCustom
  <2> HIDE DEF found
  <2> QED
    BY <1>2, <2>1, <2>2, <2>3, <2>4
<1>5. CASE PostReg
  <2> DEFINE rn == RegOf(o)
             tbv == AdjustRegContentsFromTrace(o.name, o.value, frame.code)
             rbv == AdjustRegContentsFromRizin(o.name, ReadReg(arena, rn))
             found == /\ tbv # rbv
                      /\ postCount[rn] <= 1
                      /\ ~ IgnorePostMismatchReg(rn)
  <2>1. IsPlain(o) /\ ~ IsCustom(o) /\ ~ IsMem(o) /\ ~ Untyped(o)
    BY <1>1, <1>5 DEF PostReg, IsMappedReg, IsPlain, IsMem, IsReg, Untyped
  <2>2. rn \in DOMAIN postCount
    BY <1>1, <2>1 DEF CompareInv, PostVisit
  <2>3. (postCount[rn] <= 1) <=> Oracle!IsLast(frame.post, i)
    BY <1>1, <2>1, <2>2, StrictAtLast
  <2>4. Bad(frame, arena, mem, i) <=> found
    BY <2>1, <2>3 DEF Bad
  <2>5. /\ mismatch' = (mismatch \/ found)
        /\ pcExpect' = IF rn = PcReg THEN tbv[1] ELSE pcExpect
        /\ postCount' = IF found THEN postCount ELSE [postCount EXCEPT ![rn] = @ - 1]
    BY <1>1, <1>5 DEF PostReg, Mismatched
  <2> HIDE DEF found
  <2>6. DOMAIN postCount' = DOMAIN postCount
    BY <2>5
  <2>7. pcExpect' = PcUpTo(frame, np, i)
    BY <1>2, <2>1, <2>5
  <2> QED
    BY <2>1, <2>4, <2>5, <2>6, <2>7
<1>6. CASE PostMem
  <2>1. IsMem(o) /\ ~ IsPlain(o) /\ ~ IsCustom(o) /\ ~ Untyped(o)
    BY <1>1, <1>6 DEF PostMem, IsCustom, IsMappedReg, IsPlain, IsMem, IsReg, Untyped
  <2> DEFINE found == /\ ~ IgnoreCompareMemMismatch
                      /\ ReadMem(mem, o.addr, Len(o.value)) # o.value
  <2>2. Bad(frame, arena, mem, i) <=> found
    BY <2>1 DEF Bad
  <2>3. mismatch' = (mismatch \/ found)
    BY <1>1, <1>6 DEF PostMem, Mismatched
  <2>4. pcExpect' = pcExpect /\ postCount' = postCount
    BY <1>6 DEF PostMem
  <2> HIDE DEF found
  <2> QED
    BY <1>2, <2>1, <2>2, <2>3, <2>4
<1> QED
  BY <1>3, <1>4, <1>5, <1>6

LEMMA CompareStep ==
  TypeOK /\ TypeOK' /\ CountdownInv /\ CompareInv /\ [Next]_vars => CompareInv'
<1> SUFFICES ASSUME TypeOK, TypeOK', CountdownInv, CompareInv, [Next]_vars
             PROVE  CompareInv'
  OBVIOUS
<1> USE DEF call, machine, vm, locals, outcome
<1>0. /\ frame.post \in Seq(OperandType) /\ Len(frame.post) \in Nat
      /\ DOMAIN frame.post = 1 .. Len(frame.post)
      /\ i \in Nat \ {0} /\ mismatch \in BOOLEAN /\ Len(events) \in Nat
  BY FrameTypes DEF TypeOK
<1>1. CASE StepDone
  <2>1. /\ at = "step" /\ at' = "post" /\ i' = 1 /\ i' - 1 = 0
        /\ frame' = frame /\ nextPc' = nextPc /\ mismatch' = mismatch
        /\ postCount' = PostOpMap
        /\ pcExpect' = IF nextPc # NoPc THEN nextPc ELSE FallThrough(frame)
    BY <1>1 DEF StepDone, Goto
  <2>2. ~ mismatch' /\ ~ BadUpTo(0)'
    BY <2>1 DEF CompareInv, BadUpTo
  <2>3. \A j \in 1 .. Len(frame.post) :
          IsPlain(frame.post[j]) => RegOf(frame.post[j]) \in DOMAIN PostOpMap
    <3>1. \A j \in 1 .. Len(frame.post) : frame.post[j] \in Range(frame.post)
      BY <1>0, OperandTypes
    <3> QED
      BY <3>1 DEF PostOpMap, IsPlain
  <2>4. PcNamed(frame, 0) = {}
    BY DEF PcNamed
  <2>5. pcExpect' = PcUpTo(frame, nextPc, 0)
    BY <2>1, <2>4 DEF PcUpTo, PcFrom, FallThrough
  <2>6. BadUpTo(i - 1)' <=> BadUpTo(0)'
    BY <2>1 DEF BadUpTo
  <2> QED
    BY <1>0, <2>1, <2>2, <2>3, <2>5, <2>6 DEF CompareInv
<1>2. CASE PostUnknown \/ PostCustom \/ PostReg \/ PostMem
  <2>1. /\ mismatch' <=> mismatch \/ Bad(frame, arena, mem, i)
        /\ pcExpect' = PcUpTo(frame, nextPc, i)
        /\ DOMAIN postCount' = DOMAIN postCount
        /\ ~ Untyped(frame.post[i])
    BY <1>2, OperandCompared
  <2>2. /\ at = "post" /\ at' = "post" /\ i \in 1 .. Len(frame.post)
        /\ i' = i + 1 /\ i' - 1 = i
        /\ UNCHANGED <<frame, nextPc, arena, mem>>
    <3>1. /\ PostVisit /\ i' = i + 1 /\ at' = at
          /\ UNCHANGED <<frame, nextPc, arena, mem>>
      BY <1>2, Zenon DEF PostUnknown, PostCustom, PostReg, PostMem
    <3> QED
      BY <1>0, <3>1 DEF PostVisit
  <2>3. BadUpTo(i) <=> BadUpTo(i - 1) \/ Bad(frame, arena, mem, i)
    <3>1. 1 .. i = (1 .. (i - 1)) \cup {i}
      BY <1>0
    <3> QED
      BY <3>1 DEF BadUpTo
  <2>4. BadUpTo(i - 1)' <=> BadUpTo(i)
    BY <2>2 DEF BadUpTo
  <2>5. mismatch' <=> BadUpTo(i)
    BY <2>1, <2>2, <2>3 DEF CompareInv
  <2>6. \A j \in 1 .. i : ~ Untyped(frame.post[j])
    BY <2>1, <2>2 DEF CompareInv
  <2> QED
    BY <1>0, <2>1, <2>2, <2>4, <2>5, <2>6 DEF CompareInv
<1>3. CASE ComparePc
  <2>1. /\ at = "post" /\ at' = "events" /\ i' = 1 /\ i' - 1 = 0
        /\ i - 1 = Len(frame.post)
        /\ UNCHANGED <<frame, nextPc, arena, mem, events, vmPc>>
    BY <1>0, <1>3 DEF ComparePc, Goto, CompareInv
  <2>2. pcExpect = PcUpTo(frame, nextPc, Len(frame.post)) /\ (mismatch <=> BadUpTo(Len(frame.post)))
    BY <2>1 DEF CompareInv
  <2>3. mismatch' <=> mismatch \/ ~ PcHolds
    BY <1>0, <1>3, <2>2 DEF ComparePc, Mismatched, PcHolds
  <2>4. (PcHolds' <=> PcHolds) /\ (BadUpTo(Len(frame.post))' <=> BadUpTo(Len(frame.post)))
    BY <2>1 DEF PcHolds, BadUpTo, PcUpTo, PcFrom, PcNamed, Bad, RegPc
  <2>5. ~ UnjustifiedUpTo(i - 1)'
    BY <2>1 DEF UnjustifiedUpTo
  <2>6. \A j \in 1 .. Len(frame.post) : ~ Untyped(frame.post[j])
    BY <2>1 DEF CompareInv
  <2> QED
    BY <1>0, <2>1, <2>2, <2>3, <2>4, <2>5, <2>6 DEF CompareInv
<1>4. CASE CheckEvent
  <2>1. /\ at = "events" /\ at' = "events" /\ i \in 1 .. Len(events)
        /\ i' = i + 1 /\ i' - 1 = i
        /\ UNCHANGED <<frame, nextPc, arena, mem, events, vmPc>>
        /\ mismatch' = (mismatch \/ ~ Justified(events[i]))
    BY <1>0, <1>4 DEF CheckEvent, Mismatched
  <2>2. UnjustifiedUpTo(i) <=> UnjustifiedUpTo(i - 1) \/ ~ Justified(events[i])
    <3>1. 1 .. i = (1 .. (i - 1)) \cup {i}
      BY <1>0
    <3> QED
      BY <3>1 DEF UnjustifiedUpTo
  <2>3. /\ UnjustifiedUpTo(i - 1)' <=> UnjustifiedUpTo(i)
        /\ PcHolds' <=> PcHolds
        /\ BadUpTo(Len(frame.post))' <=> BadUpTo(Len(frame.post))
    BY <2>1 DEF UnjustifiedUpTo, Justified, InOperands, PcHolds, BadUpTo, PcUpTo,
                PcFrom, PcNamed, Bad, RegPc
  <2>4. mismatch' <=> mismatch \/ ~ Justified(events[i])
    BY <1>0, <2>1
  <2> QED
    BY <1>0, <2>1, <2>2, <2>3, <2>4 DEF CompareInv
<1>5. CASE UNCHANGED vars
  BY <1>5 DEF vars, CompareInv, UnjustifiedUpTo, Justified, InOperands, PcHolds,
              BadUpTo, PcUpTo, PcFrom, PcNamed, Bad, RegPc
<1>6. CASE NonStd \/ NoCode \/ Skip \/ PreUntyped \/ NotLifted \/ InvalidIL
            \/ StepFailed \/ PostUntyped \/ Finish
  <2>1. at' = "idle" /\ mismatch' = FALSE
    BY <1>6 DEF NonStd, NoCode, Skip, PreUntyped, NotLifted, InvalidIL, StepFailed,
                PostUntyped, Finish, Return, Goto
  <2> QED
    BY <2>1 DEF CompareInv
<1>7. CASE Call \/ SetUp \/ PreReg \/ PreMem \/ SetPc \/ Lifted \/ VarRead
            \/ VarWrite \/ MemRead \/ MemWrite
  <2>1. /\ at \notin {"post", "events"} /\ at' \notin {"post", "events"}
        /\ mismatch' = mismatch
    BY <1>7 DEF Call, SetUp, PreReg, PreMem, PreVisit, SetPc, Lifted, VarRead,
                VarWrite, MemRead, MemWrite, VmGoesOn, Goto
  <2> QED
    BY <2>1 DEF CompareInv
<1> QED
  BY <1>1, <1>2, <1>3, <1>4, <1>5, <1>6, <1>7 DEF Next, Step

-----------------------------------------------------------------------------
\* The verdict.

\* rz_io_read_at_mapped gives the bytes from the address on.
LEMMA ReadMemAgrees ==
  ASSUME NEW m, NEW a \in Addr, NEW v \in Seq(Val), a + Len(v) < MemSize
  PROVE  ReadMem(m, a, Len(v)) = v <=> \A k \in 1 .. Len(v) : m[a + k - 1] = v[k]
<1> DEFINE n == Len(v)
<1>1. a \in Nat /\ n \in Nat /\ MemSize \in Nat \ {0}
  BY ValFacts
<1>2. ASSUME NEW k \in 1 .. n
      PROVE  (a + k - 1) % MemSize = a + k - 1
  BY <1>1
<1>3. ReadMem(m, a, n) = [k \in 1 .. n |-> m[a + k - 1]]
  BY <1>2 DEF ReadMem
<1>4. v = [k \in 1 .. n |-> v[k]]
  OBVIOUS
<1> HIDE DEF n
<1>5. [k \in 1 .. n |-> m[a + k - 1]] = [k \in 1 .. n |-> v[k]]
        <=> \A k \in 1 .. n : m[a + k - 1] = v[k]
  OBVIOUS
<1> QED
  BY <1>3, <1>4, <1>5 DEF n

LEMMA OperandsAgree ==
  ASSUME TypeOK
  PROVE  Oracle!RegsAgree(frame, arena) /\ Oracle!MemAgrees(frame, mem)
           <=> ~ BadUpTo(Len(frame.post))
<1> DEFINE f == frame
<1>1. /\ f \in Frames /\ f.post \in Seq(OperandType) /\ Len(f.post) \in Nat
      /\ DOMAIN f.post = 1 .. Len(f.post)
  BY FrameTypes DEF TypeOK
<1>2. \A r : Oracle!ReadReg(arena, r) = ReadReg(arena, r)
  BY DEF Oracle!ReadReg, ReadReg, Oracle!CellOfReg, CellOfReg
<1>3. ASSUME NEW j \in 1 .. Len(f.post), IsMem(f.post[j])
      PROVE  ReadMem(mem, f.post[j].addr, Len(f.post[j].value)) = f.post[j].value
               <=> \A k \in DOMAIN f.post[j].value :
                     mem[f.post[j].addr + k - 1] = f.post[j].value[k]
  <2> DEFINE a == f.post[j].addr
             v == f.post[j].value
  <2>1. f.post[j] \in Range(f.post) /\ a \in Addr /\ v \in Seq(Val)
    BY <1>1, OperandTypes
  <2>2. a + Len(v) < MemSize
    BY <1>1, <1>3, <2>1, FrameAssumption
  <2> HIDE DEF a, v
  <2>3. DOMAIN v = 1 .. Len(v)
    BY <2>1 DEF v
  <2>4. ReadMem(mem, a, Len(v)) = v <=> \A k \in 1 .. Len(v) : mem[a + k - 1] = v[k]
    BY <2>1, <2>2, ReadMemAgrees
  <2> QED
    BY <2>3, <2>4 DEF a, v
<1> DEFINE regOk(j) ==
             LET o == f.post[j] IN
             /\ IsPlain(o) /\ Oracle!IsLast(f.post, j) /\ ~ IgnorePostMismatchReg(RegOf(o)) =>
                  AdjustRegContentsFromTrace(o.name, o.value, f.code)
                    = AdjustRegContentsFromRizin(o.name, ReadReg(arena, RegOf(o)))
             /\ IsCustom(o) =>
                  \A s \in SubRegs(o.name, o.value) :
                    \/ IgnorePostMismatchReg(s.reg)
                    \/ SubRegContents(s.reg, ReadReg(arena, s.reg)) = s.value
           memOk(j) ==
             LET o == f.post[j] IN
             IsMem(o) => \/ IgnoreCompareMemMismatch
                         \/ ReadMem(mem, o.addr, Len(o.value)) = o.value
<1>4. Oracle!RegsAgree(f, arena) <=> \A j \in 1 .. Len(f.post) : regOk(j)
  BY <1>1, <1>2, SameVocabulary DEF Oracle!RegsAgree
<1>5. Oracle!MemAgrees(f, mem) <=> \A j \in 1 .. Len(f.post) : memOk(j)
  BY <1>1, <1>3, SameVocabulary DEF Oracle!MemAgrees
<1>6. \A j \in 1 .. Len(f.post) : Bad(f, arena, mem, j) <=> ~ (regOk(j) /\ memOk(j))
  BY DEF Bad
<1> HIDE DEF regOk, memOk
<1> QED
  BY <1>4, <1>5, <1>6 DEF BadUpTo

LEMMA PcAgreesHere ==
  ASSUME TypeOK
  PROVE  Oracle!PcAgrees(frame, nextPc, arena, vmPc) <=> PcHolds
<1>1. DOMAIN frame.post = 1 .. Len(frame.post)
  BY FrameTypes DEF TypeOK
<1>2. Oracle!PcExpected(frame, nextPc) = PcUpTo(frame, nextPc, Len(frame.post))
  BY <1>1, SameVocabulary DEF Oracle!PcExpected, PcUpTo, PcFrom, PcNamed, NoPc, Oracle!NoPc
<1>3. Oracle!RegPc(arena) = RegPc(arena)
  BY DEF Oracle!RegPc, RegPc, Oracle!CellOfReg, CellOfReg
<1> QED
  BY <1>2, <1>3 DEF Oracle!PcAgrees, PcHolds

LEMMA EventExplained ==
  ASSUME TypeOK, NEW e \in Events
  PROVE  Justified(e) <=>
           \/ AssumeEventIsJustified(e)
           \/ e.kind = "read" /\ (Oracle!Touches(frame.pre, e.var)
                                    \/ Oracle!Touches(frame.post, e.var))
           \/ e.kind = "write" /\ AllowNoOperandSameValueAssignment /\ e.same
           \/ e.kind = "write" /\ Oracle!Touches(frame.post, e.var)
           \/ e.kind = "load" /\ Oracle!Covered(e.addr, e.size, Oracle!Described(frame.pre))
           \/ e.kind = "store" /\ Oracle!Covered(e.addr, e.size, Oracle!Described(frame.post))
<1>1. \/ e.kind \in {"read", "write"} /\ e.var \in Bound
      \/ e.kind \in {"load", "store"}
  BY DEF Events
<1>2. ASSUME NEW ops \in Seq(OperandType), NEW var \in Bound
      PROVE  InOperands(ops, var) <=> Oracle!Touches(ops, var)
  <2>1. DOMAIN ops = 1 .. Len(ops) /\ Range(ops) = {ops[j] : j \in DOMAIN ops}
    BY DEF Range
  <2>2. \A o : (IsReg(o) /\ TraceRegOverlapsILVar(o, var)
                  <=> /\ IsMappedReg(o) /\ RegOf(o) \in DOMAIN Regs
                      /\ RegCells(RegOf(o)) \cap RegCells(var) # {})
    BY OverlapIsSharedCell DEF IsMappedReg
  <2>3. \A r : Oracle!RegCells(r) = RegCells(r)
    BY DEF Oracle!RegCells, RegCells
  <2> QED
    BY <2>1, <2>2, <2>3, SameVocabulary DEF InOperands, Oracle!Touches
<1>3. frame.pre \in Seq(OperandType) /\ frame.post \in Seq(OperandType)
  BY FrameTypes DEF TypeOK
<1>4. \A ops : Oracle!Described(ops) = Described(ops)
  BY SameVocabulary DEF Oracle!Described, Described
<1>5. \A a, n, ops : Oracle!Covered(a, n, ops) <=> Covered(a, n, ops)
  BY DEF Oracle!Covered, Covered, Oracle!Extent, Extent
<1>6. CASE e.kind = "read" /\ e.var \in Bound
  BY <1>2, <1>3, <1>6 DEF Justified
<1>7. CASE e.kind = "write" /\ e.var \in Bound
  BY <1>2, <1>3, <1>7 DEF Justified
<1>8. CASE e.kind = "load"
  BY <1>4, <1>5, <1>8 DEF Justified
<1>9. CASE e.kind = "store"
  BY <1>4, <1>5, <1>9 DEF Justified
<1> QED
  BY <1>1, <1>6, <1>7, <1>8, <1>9

\* RunFrame's result is the verdict of the specification.
LEMMA VerdictReached ==
  ASSUME TypeOK, CompareInv, at = "events", i > Len(events)
  PROVE  Oracle!Verdict(frame, nextPc, arena, mem, events, vmPc)
           = IF mismatch THEN "PostStateMismatch" ELSE "Success"
<1>1. /\ i - 1 = Len(events) /\ events \in Seq(Events) /\ DOMAIN events = 1 .. Len(events)
      /\ DOMAIN frame.post = 1 .. Len(frame.post) /\ mismatch \in BOOLEAN
  BY FrameTypes DEF TypeOK, CompareInv
<1>2. /\ \A j \in 1 .. Len(frame.post) : ~ Untyped(frame.post[j])
      /\ mismatch <=> \/ BadUpTo(Len(frame.post)) \/ ~ PcHolds
                      \/ UnjustifiedUpTo(Len(events))
  BY <1>1 DEF CompareInv
<1>3. Oracle!EventsExplained(frame, events) <=> ~ UnjustifiedUpTo(Len(events))
  <2>1. \A n \in 1 .. Len(events) : events[n] \in Events
    BY <1>1
  <2> QED
    BY <1>1, <2>1, EventExplained DEF Oracle!EventsExplained, UnjustifiedUpTo
<1>4. ~ mismatch <=> /\ Oracle!RegsAgree(frame, arena) /\ Oracle!MemAgrees(frame, mem)
                     /\ Oracle!PcAgrees(frame, nextPc, arena, vmPc)
                     /\ Oracle!EventsExplained(frame, events)
  BY <1>2, <1>3, OperandsAgree, PcAgreesHere, Zenon
<1> QED
  BY <1>1, <1>2, <1>4, SameVocabulary DEF Oracle!Verdict

-----------------------------------------------------------------------------
\* Every step of RunFrame is one of the specification, or none.

\* Nothing of the emulator is visible while RunFrame is not between the
\* pre-state and the return.
LEMMA ReturnHides ==
  ASSUME NEW r, Return(r), UNCHANGED call
  PROVE  Oracle!Return(r)
<1>1. at' = "idle"
  BY DEF Return, Goto
<1>2. Phase' = "idle" /\ ~ Visible'
  BY <1>1 DEF Phase, Visible
<1> QED
  BY <1>2 DEF Return, Oracle!Return, Oracle!Hidden, NoCounts, call, Oracle!call

\* Both before and after the step nothing is visible, and the caller sees no
\* change either.
LEMMA HiddenStep ==
  ASSUME at \in {"begin", "pre"}, at' \in {"begin", "pre"},
         UNCHANGED <<call, events, vmPc, result>>
  PROVE  UNCHANGED Oracle!vars
<1>1. Phase' = Phase /\ ~ Visible /\ ~ Visible'
  BY DEF Phase, Visible
<1> QED
  BY <1>1 DEF Oracle!vars, Oracle!call, call

\* The comparison changes nothing that is visible.
LEMMA ComparisonStep ==
  ASSUME at \in {"post", "events"}, at' \in {"post", "events"},
         UNCHANGED <<call, arena, mem, events, vmPc, result>>
  PROVE  UNCHANGED Oracle!vars
<1>1. Phase' = Phase /\ Visible /\ Visible'
  BY DEF Phase, Visible
<1> QED
  BY <1>1 DEF Oracle!vars, Oracle!call, call

LEMMA OracleStep ==
  TypeOK /\ TypeOK' /\ PreInv /\ CompareInv /\ [Next]_vars
    => [Oracle!Next]_(Oracle!vars)
<1> SUFFICES ASSUME TypeOK, TypeOK', PreInv, CompareInv, [Next]_vars
             PROVE  Oracle!Next \/ UNCHANGED Oracle!vars
  OBVIOUS
<1> USE DEF call, machine, vm, locals, outcome
<1>0. /\ arena' \in [Oracle!Cells -> Oracle!Val] /\ mem' \in [Oracle!Addr -> Oracle!Val]
      /\ DOMAIN frame.pre = 1 .. Len(frame.pre) /\ Len(frame.pre) \in Nat
      /\ DOMAIN frame.post = 1 .. Len(frame.post) /\ Len(frame.post) \in Nat
      /\ i \in Nat \ {0} /\ events \in Seq(Events) /\ vmPc' \in Oracle!Addr
  BY FrameTypes, SameVocabulary DEF TypeOK
<1>1. CASE Call
  <2>1. Phase = "idle" /\ Phase' = "called" /\ ~ Visible /\ ~ Visible'
    BY <1>1 DEF Call, Goto, Phase, Visible
  <2> QED
    BY <1>1, <2>1 DEF Call, Oracle!Call, Oracle!Next
<1>2. CASE NonStd \/ NoCode \/ Skip
  <2>1. at = "begin" /\ Phase = "called" /\ Oracle!Refusal(frame) # "none"
        /\ Return(Oracle!Refusal(frame)) /\ UNCHANGED call
    <3>1. CASE NonStd
      BY <3>1 DEF NonStd, Phase, Oracle!Refusal
    <3>2. CASE NoCode
      BY <3>2 DEF NoCode, Phase, Oracle!Refusal
    <3>3. CASE Skip
      BY <3>3 DEF Skip, Phase, Oracle!Refusal
    <3> QED
      BY <1>2, <3>1, <3>2, <3>3
  <2> QED
    BY <2>1, ReturnHides DEF Oracle!Refuse, Oracle!Next
<1>3. CASE PreUntyped
  <2>1. /\ at = "pre" /\ Phase = "called" /\ Return("Unimplemented") /\ UNCHANGED call
        /\ i \in 1 .. Len(frame.pre) /\ Untyped(frame.pre[i])
    BY <1>0, <1>3 DEF PreUntyped, PreVisit, PreOperand, Phase
  <2>2. Oracle!Refusal(frame) = "Unimplemented"
    BY <1>0, <2>1, SameVocabulary DEF PreInv, Oracle!Refusal
  <2> QED
    BY <2>1, <2>2, ReturnHides DEF Oracle!Refuse, Oracle!Next
<1>4. CASE SetUp \/ PreReg \/ PreMem
  <2>1. /\ at \in {"begin", "pre"} /\ at' \in {"begin", "pre"}
        /\ UNCHANGED <<call, events, vmPc, result>>
    BY <1>4 DEF SetUp, PreReg, PreMem, PreVisit, Goto
  <2> QED
    BY <2>1, HiddenStep
<1>5. CASE SetPc
  <2>1. /\ at = "pre" /\ at' = "lift"
        /\ UNCHANGED <<call, events, vmPc, result>>
    BY <1>5 DEF SetPc, Goto
  <2>2. Phase = "called" /\ Phase' = "loaded" /\ Visible'
    BY <2>1 DEF Phase, Visible
  <2>3. /\ Oracle!Refusal(frame) = "none"
        /\ arena' = Oracle!PreArena(frame)
        /\ CacheReset => mem' = Oracle!PreMem(frame)
    BY <1>5, PreComplete
  <2> QED
    BY <1>0, <2>1, <2>2, <2>3 DEF Oracle!Load, Oracle!call, Oracle!Next
<1>6. CASE NotLifted \/ InvalidIL
  <2>1. /\ Phase = "loaded" /\ UNCHANGED call
        /\ \E r \in {"InvalidOp", "Unimplemented"} : Return(r)
    BY <1>6 DEF NotLifted, InvalidIL, Phase
  <2> QED
    BY <2>1, ReturnHides DEF Oracle!Reject, Oracle!Next
<1>7. CASE Lifted
  <2>1. Phase = "loaded" /\ Phase' = "running" /\ Visible /\ Visible'
    BY <1>7 DEF Lifted, Goto, Phase, Visible
  <2> QED
    BY <1>7, <2>1 DEF Lifted, Oracle!Start, Oracle!call, Oracle!Next
<1>8. CASE VarRead \/ VarWrite \/ MemRead \/ MemWrite
  <2>1. /\ at = "step" /\ at' = "step" /\ UNCHANGED <<call, vmPc, result>>
        /\ \E e : events' = Append(events, e)
    BY <1>8 DEF VarRead, VarWrite, MemRead, MemWrite, VmGoesOn, Record
  <2>2. PICK e : events' = Append(events, e)
    BY <2>1
  <2>3. e \in Oracle!Events
    <3>1. events' \in Seq(Events) /\ Len(events') = Len(events) + 1
          /\ events'[Len(events) + 1] = e
      BY <1>0, <2>2 DEF TypeOK
    <3> QED
      BY <1>0, <3>1, SameVocabulary
  <2>4. Phase = "running" /\ Phase' = "running" /\ Visible'
    BY <2>1 DEF Phase, Visible
  <2> QED
    BY <1>0, <2>1, <2>2, <2>3, <2>4 DEF Oracle!Perform, Oracle!call, Oracle!Next
<1>9. CASE StepFailed
  <2>1. /\ Phase = "running" /\ UNCHANGED call
        /\ \E r \in {"VMRuntimeError", "InvalidOp", "Unimplemented", "InvalidIL"} : Return(r)
    BY <1>9 DEF StepFailed, Phase
  <2> QED
    BY <2>1, ReturnHides DEF Oracle!Crash, Oracle!Next
<1>10. CASE StepDone
  <2>1. /\ at = "step" /\ at' = "post" /\ UNCHANGED <<call, mem, events, result>>
    BY <1>10 DEF StepDone, Goto
  <2>2. Phase = "running" /\ Phase' = "halted" /\ Visible /\ Visible'
    BY <2>1 DEF Phase, Visible
  <2> QED
    BY <1>0, <2>1, <2>2 DEF Oracle!Halt, Oracle!call, Oracle!Next
<1>11. CASE PostUnknown \/ PostCustom \/ PostReg \/ PostMem \/ ComparePc \/ CheckEvent
  <2>1. /\ at \in {"post", "events"} /\ at' \in {"post", "events"}
        /\ UNCHANGED <<call, arena, mem, events, vmPc, result>>
    BY <1>11, Zenon DEF PostUnknown, PostCustom, PostReg, PostMem, PostVisit, ComparePc,
                        CheckEvent, Goto
  <2> QED
    BY <2>1, ComparisonStep
<1>12. CASE PostUntyped
  <2>1. /\ at = "post" /\ Return("Unimplemented") /\ UNCHANGED call
        /\ i \in 1 .. Len(frame.post) /\ Untyped(frame.post[i])
    BY <1>0, <1>12 DEF PostUntyped, PostVisit, PostOperand
  <2>2. Phase = "halted" /\ Visible
    BY <2>1 DEF Phase, Visible
  <2>3. Oracle!Verdict(frame, nextPc, arena, mem, events, vmPc) = "Unimplemented"
    BY <1>0, <2>1, SameVocabulary DEF Oracle!Verdict
  <2> QED
    BY <2>1, <2>2, <2>3, ReturnHides DEF Oracle!Judge, Oracle!Next
<1>13. CASE Finish
  <2>1. /\ at = "events" /\ i > Len(events) /\ UNCHANGED call
        /\ Return(IF mismatch THEN "PostStateMismatch" ELSE "Success")
    BY <1>13 DEF Finish
  <2>2. Phase = "halted" /\ Visible
    BY <2>1 DEF Phase, Visible
  <2>3. Oracle!Verdict(frame, nextPc, arena, mem, events, vmPc)
          = IF mismatch THEN "PostStateMismatch" ELSE "Success"
    BY <2>1, VerdictReached
  <2> QED
    BY <2>1, <2>2, <2>3, ReturnHides DEF Oracle!Judge, Oracle!Next
<1>14. CASE UNCHANGED vars
  BY <1>14 DEF vars, Oracle!vars, Oracle!call, Phase, Visible
<1> QED
  BY <1>1, <1>2, <1>3, <1>4, <1>5, <1>6, <1>7, <1>8, <1>9, <1>10, <1>11, <1>12,
     <1>13, <1>14 DEF Next, Step

\* For every profile, adapter, frame and run of the IL VM that the assumptions
\* admit, RunFrame computes the verdict of the one-step specification.  Registers
\* before the step come from the frame alone, so does memory unless -n keeps it,
\* and the result is the same function of frame, next address, memory and run of
\* the VM whatever the loops went through.  Where that function drops a mismatch,
\* at a post-operand without type, RunFrame does too (MismatchReportedIfTyped).
THEOREM OracleRefined == Spec => ImplementsOracle
<1>1. Init => PreInv /\ CompareInv
  BY DEF Init, PreInv, CompareInv
<1>2. Init => CountdownInv
  BY DEF Init, CountdownInv
<1> QED
  BY <1>1, <1>2, OracleInit, TypeInit, TypeStep, CountdownStep, PreStep, CompareStep,
     OracleStep, PTL DEF Spec, ImplementsOracle, Oracle!Spec

-----------------------------------------------------------------------------
\* What is in the registers before the step.
LoadedHere == at = "lift" => frame \in Frames /\ arena = Oracle!PreArena(frame)

LEMMA LoadedAtLift == Spec => []LoadedHere
<1>1. Init => PreInv /\ LoadedHere
  BY DEF Init, PreInv, LoadedHere
<1>2. TypeOK /\ PreInv /\ LoadedHere /\ [Next]_vars => LoadedHere'
  <2> SUFFICES ASSUME TypeOK, PreInv, LoadedHere, [Next]_vars
               PROVE  LoadedHere'
    OBVIOUS
  <2> USE DEF call, machine, vm, locals, outcome
  <2>1. CASE SetPc
    <3>1. arena' = Oracle!PreArena(frame) /\ frame' = frame /\ frame \in Frames
      BY <2>1, PreComplete DEF SetPc, TypeOK
    <3> QED
      BY <3>1 DEF LoadedHere
  <2>2. CASE UNCHANGED vars
    BY <2>2 DEF vars, LoadedHere
  <2>3. CASE Call \/ NonStd \/ NoCode \/ Skip \/ SetUp \/ PreReg \/ PreMem \/ PreUntyped
              \/ NotLifted \/ InvalidIL \/ Lifted \/ StepFailed \/ StepDone
              \/ PostUntyped \/ ComparePc \/ Finish
    <3>1. at' # "lift"
      BY <2>3 DEF Call, NonStd, NoCode, Skip, SetUp, PreReg, PreMem, PreVisit, PreUntyped,
                  NotLifted, InvalidIL, Lifted, StepFailed, StepDone, PostUntyped,
                  ComparePc, Finish, Return, Goto
    <3> QED
      BY <3>1 DEF LoadedHere
  <2>4. CASE VarRead \/ VarWrite \/ MemRead \/ MemWrite \/ PostUnknown
              \/ PostCustom \/ PostReg \/ PostMem \/ CheckEvent
    <3>1. at' # "lift"
      BY <2>4 DEF VarRead, VarWrite, MemRead, MemWrite, VmGoesOn, PostUnknown,
                  PostCustom, PostReg, PostMem, PostVisit, CheckEvent
    <3> QED
      BY <3>1 DEF LoadedHere
  <2> QED
    BY <2>1, <2>2, <2>3, <2>4 DEF Next, Step
<1> QED
  BY <1>1, <1>2, TypeInit, TypeStep, PreStep, PTL DEF Spec

\* A register that operand j fills, and no later one touches, holds what the
\* operand says, unless it shares cells with the PC.
LEMMA RegisterLoaded ==
  ASSUME NEW f \in Frames, NEW j \in DOMAIN f.pre, NEW r \in DOMAIN Regs,
         NEW v \in Seq(Val), Len(v) = Regs[r].size,
         Oracle!RegWrite(r, v) \subseteq Oracle!ArenaWrites(f.pre[j]),
         \A w \in Oracle!ArenaWrites(f.pre[j]) :
           w[1] \in RegCells(r) => w \in Oracle!RegWrite(r, v),
         \A k \in (j + 1) .. Len(f.pre) :
           \A w \in Oracle!ArenaWrites(f.pre[k]) : w[1] \notin RegCells(r),
         \/ RegCells(r) \cap RegCells(PcReg) = {}
         \/ r = PcReg /\ v = PcContents(f.addr)
  PROVE  ReadReg(Oracle!PreArena(f), r) = v
<1>1. /\ Regs[r].offset \in Nat /\ Regs[r].size \in Nat \ {0}
      /\ DOMAIN v = 1 .. Regs[r].size
      /\ f.pre \in Seq(OperandType) /\ DOMAIN f.pre = 1 .. Len(f.pre) /\ Len(f.pre) \in Nat
      /\ j \in Nat /\ j \in 1 .. Len(f.pre)
  BY FrameTypes, ProfileAssumption
<1>2. ASSUME NEW k \in 1 .. Regs[r].size
      PROVE  Oracle!PreArena(f)[CellOfReg(r, k)] = v[k]
  <2> DEFINE c == CellOfReg(r, k)
             js == {n \in DOMAIN f.pre : \E w \in Oracle!ArenaWrites(f.pre[n]) : w[1] = c}
  <2>1. c = <<Regs[r].type, Regs[r].offset + (k - 1)>> /\ c[2] - Regs[r].offset + 1 = k
    BY <1>1 DEF CellOfReg
  <2>2. c \in RegCells(r) /\ c \in Cells
    <3>1. k - 1 \in 0 .. (Regs[r].size - 1)
      BY <1>1
    <3> QED
      BY <2>1, <3>1 DEF RegCells, Cells
  <2>3. Oracle!PreArena(f)[c]
          = IF c \in RegCells(PcReg) THEN PcContents(f.addr)[c[2] - Regs[PcReg].offset + 1]
            ELSE IF js = {} THEN 0
            ELSE Oracle!Written(Oracle!ArenaWrites(f.pre[Oracle!LastOf(js)]), c)
    <3>1. Oracle!RegCells(PcReg) = RegCells(PcReg)
      BY DEF Oracle!RegCells, RegCells
    <3>2. Oracle!PcContents(f.addr) = PcContents(f.addr)
      BY DEF Oracle!PcContents, PcContents
    <3> HIDE DEF c
    <3> QED
      BY <2>2, <3>1, <3>2, SameVocabulary DEF Oracle!PreArena
  <2>4. CASE c \in RegCells(PcReg)
    <3>1. r = PcReg /\ v = PcContents(f.addr)
      BY <2>2, <2>4
    <3> QED
      BY <2>1, <2>3, <2>4, <3>1
  <2>5. CASE c \notin RegCells(PcReg)
    <3>1. <<c, v[k]>> \in Oracle!ArenaWrites(f.pre[j])
      <4>1. Oracle!CellOfReg(r, k) = c
        BY DEF Oracle!CellOfReg, CellOfReg
      <4>2. <<Oracle!CellOfReg(r, k), v[k]>> \in Oracle!RegWrite(r, v)
        BY <1>1 DEF Oracle!RegWrite
      <4> QED
        BY <4>1, <4>2
    <3>2. j \in js
      <4>1. <<c, v[k]>>[1] = c
        OBVIOUS
      <4> QED
        BY <1>1, <3>1, <4>1
    <3>3. \A n \in js : n <= j
      <4> SUFFICES ASSUME NEW n \in 1 .. Len(f.pre), n > j
                   PROVE  n \notin js
        BY <1>1
      <4>1. n \in (j + 1) .. Len(f.pre)
        BY <1>1
      <4> QED
        BY <2>2, <4>1
    <3>4. js \in SUBSET (1 .. j)
      BY <1>1, <3>3
    <3>5. Oracle!LastOf(js) = j /\ js # {}
      <4> HIDE DEF js
      <4> QED
        BY <1>1, <3>2, <3>4, LastIsEnd
    <3> DEFINE w == CHOOSE x \in Oracle!ArenaWrites(f.pre[j]) : x[1] = c
    <3>6. w \in Oracle!ArenaWrites(f.pre[j]) /\ w[1] = c
      <4>1. <<c, v[k]>>[1] = c
        OBVIOUS
      <4> QED
        BY <3>1, <4>1
    <3>7. w[2] = v[k]
      <4> HIDE DEF w
      <4>1. w \in Oracle!RegWrite(r, v)
        BY <2>2, <3>6
      <4>2. PICK n \in DOMAIN v : w = <<Oracle!CellOfReg(r, n), v[n]>>
        BY <4>1 DEF Oracle!RegWrite
      <4>3. n \in 1 .. Regs[r].size /\ c = <<Regs[r].type, Regs[r].offset + n - 1>>
        BY <1>1, <3>6, <4>2 DEF Oracle!CellOfReg
      <4>4. n = k
        BY <1>1, <2>1, <4>3
      <4> QED
        BY <4>2, <4>4
    <3>8. Oracle!PreArena(f)[c] = w[2]
      <4> HIDE DEF js, c
      <4> QED
        BY <2>3, <2>5, <3>5 DEF Oracle!Written
    <3> QED
      BY <3>7, <3>8
  <2> QED
    BY <2>4, <2>5
<1>3. v = [k \in 1 .. Regs[r].size |-> v[k]]
  BY <1>1
<1>4. ReadReg(Oracle!PreArena(f), r) = [k \in 1 .. Regs[r].size |-> v[k]]
  BY <1>2 DEF ReadReg
<1> QED
  BY <1>3, <1>4

\* The cells that a pre-operand fills, and that they are the ones it writes.
FilledBy(o) ==
  IF IsCustom(o) THEN UNION {RegCells(s.reg) : s \in SubRegs(o.name, o.value)}
  ELSE IF IsPlain(o) THEN RegCells(RegOf(o))
  ELSE {}

LEMMA RegWriteCells ==
  ASSUME NEW r \in DOMAIN Regs, NEW v \in Seq(Val), NEW w \in Oracle!RegWrite(r, v)
  PROVE  w[1] \in RegCells(r)
<1>1. /\ Regs[r].offset \in Nat /\ Regs[r].size \in Nat
      /\ DOMAIN v = 1 .. Len(v)
  BY ProfileAssumption
<1>2. Len(v) = Regs[r].size
  BY DEF Oracle!RegWrite
<1>3. PICK k \in DOMAIN v : w = <<Oracle!CellOfReg(r, k), v[k]>>
  BY <1>2 DEF Oracle!RegWrite
<1>4. k - 1 \in 0 .. (Regs[r].size - 1) /\ Regs[r].offset + (k - 1) = Regs[r].offset + k - 1
  BY <1>1, <1>2, <1>3
<1>5. w[1] = <<Regs[r].type, Regs[r].offset + (k - 1)>>
  BY <1>3, <1>4 DEF Oracle!CellOfReg
<1> QED
  BY <1>4, <1>5 DEF RegCells

LEMMA PreOperandFacts ==
  ASSUME NEW f \in Frames, NEW j \in DOMAIN f.pre
  PROVE  LET o == f.pre[j]
             v == AdjustRegContentsFromTrace(o.name, o.value, NullOp)
         IN  /\ IsCustom(o) =>
                  /\ \A s \in SubRegs(o.name, o.value) :
                       s.reg \in DOMAIN Regs /\ s.value \in Seq(Val)
                  /\ \A s, u \in SubRegs(o.name, o.value) :
                       s # u => RegCells(s.reg) \cap RegCells(u.reg) = {}
                  /\ Oracle!ArenaWrites(o)
                       = UNION {Oracle!RegWrite(s.reg, s.value) :
                                  s \in SubRegs(o.name, o.value)}
             /\ IsPlain(o) =>
                  /\ RegOf(o) \in DOMAIN Regs /\ v \in Seq(Val) /\ ~ IsCustom(o)
                  /\ Oracle!ArenaWrites(o) = Oracle!RegWrite(RegOf(o), v)
             /\ ~ IsCustom(o) /\ ~ IsPlain(o) => Oracle!ArenaWrites(o) = {}
<1> DEFINE o == f.pre[j]
           v == AdjustRegContentsFromTrace(o.name, o.value, NullOp)
<1>1. o \in Range(f.pre)
  BY FrameTypes, OperandTypes
<1>2. IsCustom(o) => \A s \in SubRegs(o.name, o.value) :
                       s.reg \in DOMAIN Regs /\ s.value \in Seq(Val)
  BY <1>1, AdapterAssumption
<1>3. IsCustom(o) => \A s, u \in SubRegs(o.name, o.value) :
                       s # u => RegCells(s.reg) \cap RegCells(u.reg) = {}
  BY <1>1, SubRegAssumption
<1>4. IsPlain(o) => RegOf(o) \in DOMAIN Regs /\ v \in Seq(Val) /\ ~ IsCustom(o)
  BY <1>1, AdapterAssumption DEF IsPlain
<1>5. IsCustom(o) =>
        Oracle!ArenaWrites(o)
          = UNION {Oracle!RegWrite(s.reg, s.value) : s \in SubRegs(o.name, o.value)}
  BY SameVocabulary DEF Oracle!ArenaWrites
<1>6. IsPlain(o) => Oracle!ArenaWrites(o) = Oracle!RegWrite(RegOf(o), v)
  BY <1>4, SameVocabulary DEF Oracle!ArenaWrites, Oracle!NullOp, NullOp
<1>7. ~ IsCustom(o) /\ ~ IsPlain(o) => Oracle!ArenaWrites(o) = {}
  BY SameVocabulary DEF Oracle!ArenaWrites
<1> QED
  BY <1>2, <1>3, <1>4, <1>5, <1>6, <1>7

LEMMA WritesFilled ==
  ASSUME NEW f \in Frames, NEW j \in DOMAIN f.pre,
         NEW w \in Oracle!ArenaWrites(f.pre[j])
  PROVE  w[1] \in FilledBy(f.pre[j])
<1> DEFINE o == f.pre[j]
           v == AdjustRegContentsFromTrace(o.name, o.value, NullOp)
<1>1. CASE IsCustom(o)
  <2>0. Oracle!ArenaWrites(o)
          = UNION {Oracle!RegWrite(s.reg, s.value) : s \in SubRegs(o.name, o.value)}
    BY <1>1, PreOperandFacts
  <2>1. PICK s \in SubRegs(o.name, o.value) : w \in Oracle!RegWrite(s.reg, s.value)
    BY <2>0
  <2>2. w[1] \in RegCells(s.reg)
    BY <1>1, <2>1, PreOperandFacts, RegWriteCells
  <2> QED
    BY <1>1, <2>2 DEF FilledBy
<1>2. CASE IsPlain(o)
  <2>1. RegOf(o) \in DOMAIN Regs /\ v \in Seq(Val) /\ w \in Oracle!RegWrite(RegOf(o), v)
    BY <1>2, PreOperandFacts
  <2>2. w[1] \in RegCells(RegOf(o))
    BY <2>1, RegWriteCells
  <2> QED
    BY <1>2, <2>2, PreOperandFacts DEF FilledBy
<1> QED
  BY <1>1, <1>2, PreOperandFacts

\* A pre-operand that no later one overlaps is in the registers before the step,
\* as the adapter converts it.
LEMMA OperandLoaded ==
  ASSUME NEW f \in Frames, NEW j \in DOMAIN f.pre,
         \A k \in (j + 1) .. Len(f.pre) : FilledBy(f.pre[j]) \cap FilledBy(f.pre[k]) = {}
  PROVE  LET o == f.pre[j]
             v == AdjustRegContentsFromTrace(o.name, o.value, NullOp)
         IN  /\ IsCustom(o) /\ FilledBy(o) \cap RegCells(PcReg) = {} =>
                  \A s \in SubRegs(o.name, o.value) :
                    Len(s.value) = Regs[s.reg].size =>
                      ReadReg(Oracle!PreArena(f), s.reg) = s.value
             /\ /\ IsPlain(o) /\ Len(v) = Regs[RegOf(o)].size
                /\ \/ FilledBy(o) \cap RegCells(PcReg) = {}
                   \/ RegOf(o) = PcReg /\ v = PcContents(f.addr)
                => ReadReg(Oracle!PreArena(f), RegOf(o)) = v
<1> DEFINE o == f.pre[j]
           v == AdjustRegContentsFromTrace(o.name, o.value, NullOp)
<1>0. /\ DOMAIN f.pre = 1 .. Len(f.pre) /\ Len(f.pre) \in Nat /\ j \in 1 .. Len(f.pre)
  BY FrameTypes
<1>1. \A k \in (j + 1) .. Len(f.pre) : \A w \in Oracle!ArenaWrites(f.pre[k]) :
        w[1] \notin FilledBy(o)
  <2> SUFFICES ASSUME NEW k \in (j + 1) .. Len(f.pre), NEW w \in Oracle!ArenaWrites(f.pre[k])
               PROVE  w[1] \notin FilledBy(o)
    OBVIOUS
  <2>1. k \in DOMAIN f.pre
    BY <1>0
  <2> QED
    BY <2>1, WritesFilled
<1>2. ASSUME IsCustom(o), FilledBy(o) \cap RegCells(PcReg) = {},
             NEW s \in SubRegs(o.name, o.value), Len(s.value) = Regs[s.reg].size
      PROVE  ReadReg(Oracle!PreArena(f), s.reg) = s.value
  <2>1. RegCells(s.reg) \subseteq FilledBy(o)
    BY <1>2 DEF FilledBy
  <2>2. s.reg \in DOMAIN Regs /\ s.value \in Seq(Val)
    BY <1>2, PreOperandFacts
  <2>0. Oracle!ArenaWrites(o)
          = UNION {Oracle!RegWrite(u.reg, u.value) : u \in SubRegs(o.name, o.value)}
    BY <1>2, PreOperandFacts
  <2>3. Oracle!RegWrite(s.reg, s.value) \subseteq Oracle!ArenaWrites(o)
    BY <2>0
  <2>4. ASSUME NEW w \in Oracle!ArenaWrites(o), w[1] \in RegCells(s.reg)
        PROVE  w \in Oracle!RegWrite(s.reg, s.value)
    <3>1. PICK u \in SubRegs(o.name, o.value) : w \in Oracle!RegWrite(u.reg, u.value)
      BY <2>0, <2>4
    <3>2. w[1] \in RegCells(u.reg)
      BY <1>2, <3>1, PreOperandFacts, RegWriteCells
    <3>3. u = s
      BY <1>2, <2>4, <3>2, PreOperandFacts
    <3> QED
      BY <3>1, <3>3
  <2>5. \A k \in (j + 1) .. Len(f.pre) : \A w \in Oracle!ArenaWrites(f.pre[k]) :
          w[1] \notin RegCells(s.reg)
    BY <1>1, <2>1
  <2>6. RegCells(s.reg) \cap RegCells(PcReg) = {}
    BY <1>2, <2>1
  <2> QED
    BY <1>2, <2>2, <2>3, <2>4, <2>5, <2>6, RegisterLoaded
<1>3. ASSUME IsPlain(o), Len(v) = Regs[RegOf(o)].size,
             \/ FilledBy(o) \cap RegCells(PcReg) = {}
             \/ RegOf(o) = PcReg /\ v = PcContents(f.addr)
      PROVE  ReadReg(Oracle!PreArena(f), RegOf(o)) = v
  <2>1. /\ RegOf(o) \in DOMAIN Regs /\ v \in Seq(Val) /\ ~ IsCustom(o)
        /\ Oracle!ArenaWrites(o) = Oracle!RegWrite(RegOf(o), v)
    BY <1>3, PreOperandFacts
  <2>2. FilledBy(o) = RegCells(RegOf(o))
    BY <1>3, <2>1 DEF FilledBy
  <2>3. \A k \in (j + 1) .. Len(f.pre) : \A w \in Oracle!ArenaWrites(f.pre[k]) :
          w[1] \notin RegCells(RegOf(o))
    BY <1>1, <2>2
  <2> HIDE DEF v
  <2> QED
    BY <1>3, <2>1, <2>2, <2>3, RegisterLoaded
<1> QED
  BY <1>2, <1>3
=============================================================================
