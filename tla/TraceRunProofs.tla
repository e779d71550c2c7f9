--------------------------- MODULE TraceRunProofs ---------------------------
(***************************************************************************)
(* What the theorems about main and about SetMem say of the composed       *)
(* program, for every trace, window, set of options and behaviour of the   *)
(* IL VM: main's loop is TestLoop's and loading is SetMem's, so the report *)
(* is right, and the code that is executed is the code of the frame.       *)
(***************************************************************************)
EXTENDS TraceRun, TLAPS

\* Where the parts are when: SetMem runs before main, RunFrame within main's
\* call, and the id is handed out when the instruction is lifted.
ControlInv ==
  /\ loadAt # "done" => mainAt = "start"
  /\ at # "idle" => mainAt = "run"
  /\ at \in {"idle", "begin", "pre", "lift", "step", "post", "events"}
  /\ at \in {"idle", "begin", "pre", "lift"} => testedInsnId = seenInsnId
  /\ at \in {"step", "post", "events"} => testedInsnId \in InsnIds

\* What a step of RunFrame does to the variables that main can see: it returns
\* one of main's results, with an id if the instruction was lifted, or it
\* hands nothing out except, at the lifting, the id.
EarlyResults == {"Skipped", "InvalidOp", "Unimplemented"}
LEMMA StepSeen ==
  ASSUME ControlInv, Emulator!Step, at # "idle"
  PROVE  /\ UNCHANGED <<frame, nextPc>>
         /\ at' = "idle" =>
              /\ result' \in Main!Returned
              /\ \/ result' \in EarlyResults /\ testedInsnId' = seenInsnId
                 \/ result' # "Skipped" /\ testedInsnId' \in InsnIds
         /\ at' # "idle" =>
              /\ at' \in {"pre", "lift", "step", "post", "events"}
              /\ at' \in {"pre", "lift"} => testedInsnId' = seenInsnId
              /\ at' \in {"step", "post", "events"} => testedInsnId' \in InsnIds
<1> USE DEF Emulator!call, Emulator!machine, Emulator!vm, Emulator!locals,
            Emulator!outcome, ControlInv, EarlyResults, Main!Returned
<1>1. CASE Emulator!NonStd \/ Emulator!NoCode \/ Emulator!Skip \/ Emulator!PreUntyped
            \/ Emulator!NotLifted
  BY <1>1 DEF Emulator!NonStd, Emulator!NoCode, Emulator!Skip, Emulator!PreUntyped,
              Emulator!PreVisit, Emulator!NotLifted, Emulator!Return, Emulator!Goto
<1>2. CASE Emulator!InvalidIL \/ Emulator!StepFailed \/ Emulator!PostUntyped
            \/ Emulator!Finish
  BY <1>2 DEF Emulator!InvalidIL, Emulator!StepFailed, Emulator!PostUntyped,
              Emulator!PostVisit, Emulator!Finish, Emulator!Return, Emulator!Goto
<1>3. CASE Emulator!SetUp \/ Emulator!PreReg \/ Emulator!PreMem \/ Emulator!SetPc
            \/ Emulator!Lifted
  BY <1>3 DEF Emulator!SetUp, Emulator!PreReg, Emulator!PreMem, Emulator!PreVisit,
              Emulator!SetPc, Emulator!Lifted, Emulator!Goto
<1>4. CASE Emulator!VarRead \/ Emulator!VarWrite \/ Emulator!MemRead
            \/ Emulator!MemWrite \/ Emulator!StepDone
  BY <1>4 DEF Emulator!VarRead, Emulator!VarWrite, Emulator!MemRead, Emulator!MemWrite,
              Emulator!VmGoesOn, Emulator!StepDone, Emulator!Goto
<1>5. CASE Emulator!PostUnknown \/ Emulator!PostCustom \/ Emulator!PostReg
            \/ Emulator!PostMem \/ Emulator!ComparePc \/ Emulator!CheckEvent
  <2>1. /\ at \in {"post", "events"} /\ at' \in {"post", "events"}
        /\ UNCHANGED <<frame, nextPc, testedInsnId>>
    BY <1>5, Zenon DEF Emulator!PostUnknown, Emulator!PostCustom, Emulator!PostReg,
         Emulator!PostMem, Emulator!PostVisit, Emulator!ComparePc, Emulator!CheckEvent,
         Emulator!Goto
  <2> QED
    BY <2>1
<1> QED
  BY <1>1, <1>2, <1>3, <1>4, <1>5 DEF Emulator!Step

\* SetMem moves through its own states and changes nothing of main's.
LEMMA LoadSeen ==
  ASSUME Load
  PROVE  /\ loadAt # "done" /\ trace' = trace
         /\ loadAt' = "done" => cursor' = 0
  BY DEF Load, Loader!Next, Loader!Rewind, Loader!SkipNonStd, Loader!SkipWritten,
         Loader!WriteFrame, Loader!GetFrame, Loader!Finish

LEMMA ControlStep == ControlInv /\ [Next]_vars => ControlInv'
<1> SUFFICES ASSUME ControlInv, [Next]_vars
             PROVE  ControlInv'
  OBVIOUS
<1> USE DEF mainVars, loaderVars, emulatorVars, history
<1>1. CASE Load
  BY <1>1, LoadSeen DEF Load, ControlInv
<1>2. CASE MainStep
  <2>1. mainAt # "run" /\ loadAt = "done" /\ UNCHANGED <<loadAt, at, testedInsnId, seenInsnId>>
    BY <1>2 DEF MainStep, Main!Seek, Main!Fetch, Main!Account, Main!Accounts, Main!Leave,
                Main!returned
  <2> QED
    BY <2>1 DEF ControlInv
<1>3. CASE CallRunFrame
  BY <1>3 DEF CallRunFrame, Emulator!Call, Emulator!Goto, Emulator!outcome, ControlInv
<1>4. CASE RunFrameStep
  <2>1. UNCHANGED loadAt /\ mainAt = "run" /\ at # "idle"
    BY <1>4 DEF RunFrameStep
  <2>2. loadAt = "done"
    BY <2>1 DEF ControlInv
  <2>3. CASE at' = "idle"
    BY <1>4, <2>1, <2>2, <2>3 DEF RunFrameStep, ControlInv
  <2>4. CASE at' # "idle"
    BY <1>4, <2>1, <2>2, <2>4, StepSeen DEF RunFrameStep, ControlInv
  <2> QED
    BY <2>3, <2>4
<1>5. CASE Interrupt
  BY <1>5 DEF Interrupt, Main!Interrupt, Main!returned, ControlInv
<1>6. CASE UNCHANGED vars
  BY <1>6 DEF vars, ControlInv
<1> QED
  BY <1>1, <1>2, <1>3, <1>4, <1>5, <1>6 DEF Next, ProgramStep

-----------------------------------------------------------------------------
\* main's loop.
LEMMA LoopInit == Init => ControlInv /\ Loop!Init
<1> SUFFICES ASSUME Init
             PROVE  ControlInv /\ Loop!Init
  OBVIOUS
<1>1. ControlInv
  BY DEF Init, Main!Init, Emulator!Init, ControlInv
<1>2. Loop!Init
  BY DEF Init, Main!Init, Loop!Init, Loop!None, Main!None, Loop!NoPc, Main!NoPc,
         Loop!FrameCheckResult, Main!FrameCheckResult, Loop!Returned, Main!Returned
<1> QED
  BY <1>1, <1>2

LEMMA LoopStep == ControlInv /\ [Next]_vars => [Loop!Next]_(Loop!vars)
<1> SUFFICES ASSUME ControlInv, [Next]_vars
             PROVE  Loop!Next \/ UNCHANGED Loop!vars
  OBVIOUS
<1> USE DEF mainVars, loaderVars, emulatorVars, history
<1> USE DEF Loop!inputs, Loop!window, Loop!frameVars, Loop!report, Loop!returned,
            Main!inputs, Main!window, Main!frameVars, Main!report, Main!returned
<1>1. CASE Load
  BY <1>1, LoadSeen DEF Load, Loop!vars
<1>2. CASE MainStep
  <2>1. loadAt = "done" /\ loadAt' = "done" /\ seenInsnId' = seenInsnId
        /\ (Main!Seek \/ Main!Fetch \/ Main!Account \/ Main!Leave)
    BY <1>2 DEF MainStep
  <2>2. CASE Main!Seek
    BY <2>1, <2>2 DEF Main!Seek, Loop!Seek, Loop!Next, Loop!MainStep
  <2>3. CASE Main!Fetch
    BY <2>1, <2>3 DEF Main!Fetch, Loop!Fetch, Main!Continue, Loop!Continue,
         Main!None, Loop!None, Main!NoPc, Loop!NoPc, Loop!Next, Loop!MainStep
  <2>4. CASE Main!Account
    <3>1. testedInsnId = seenInsnId
      BY <2>4 DEF Main!Account, Main!Accounts, ControlInv
    <3> QED
      BY <2>1, <2>4, <3>1 DEF Main!Account, Main!Accounts, Loop!Account, Loop!Accounts,
         Main!StopsAt, Loop!StopsAt, Loop!Next, Loop!MainStep
  <2>5. CASE Main!Leave
    BY <2>1, <2>5 DEF Main!Leave, Loop!Leave, Main!Continue, Loop!Continue,
         Main!None, Loop!None, Loop!Next, Loop!MainStep
  <2> QED
    BY <2>1, <2>2, <2>3, <2>4, <2>5
<1>3. CASE CallRunFrame
  BY <1>3 DEF CallRunFrame, Loop!vars
<1>4. CASE RunFrameStep
  <2>1. /\ mainAt = "run" /\ at # "idle" /\ Emulator!Step /\ loadAt' = loadAt
        /\ UNCHANGED <<trace, from, limit, flags, cursor, cur, nxt, nextPc, index, offset,
                       count, total, stats, covered, interrupted, log>>
    BY <1>4, StepSeen DEF RunFrameStep
  <2>2. CASE at' = "idle"
    <3>1. /\ mainAt' = "account" /\ seenInsnId' = testedInsnId' /\ res' = result'
      BY <1>4, <2>2 DEF RunFrameStep
    <3>2. /\ result' \in Main!Returned
          /\ \/ result' \in EarlyResults /\ testedInsnId' = seenInsnId
             \/ result' # "Skipped" /\ testedInsnId' \in InsnIds
      BY <2>1, <2>2, StepSeen
    <3> QED
      BY <2>1, <3>1, <3>2 DEF Loop!RunFrame, Loop!NeverLifted, Loop!MaybeLifted,
         EarlyResults, Loop!Returned, Main!Returned, Loop!Next, Loop!MainStep
  <2>3. CASE at' # "idle"
    <3>1. UNCHANGED <<mainAt, res, seenInsnId>>
      BY <1>4, <2>3 DEF RunFrameStep
    <3> QED
      BY <2>1, <3>1 DEF Loop!vars
  <2> QED
    BY <2>2, <2>3
<1>5. CASE Interrupt
  BY <1>5 DEF Interrupt, Main!Interrupt, Loop!Interrupt, Loop!Next
<1>6. CASE UNCHANGED vars
  BY <1>6 DEF vars, Loop!vars
<1> QED
  BY <1>1, <1>2, <1>3, <1>4, <1>5, <1>6 DEF Next, ProgramStep

\* The composed program goes through the loop of main as TestLoop describes it,
\* whatever RunFrame does with the id and SetMem with the reader.
THEOREM LoopImplemented == Spec => ImplementsLoop
<1> QED
  BY LoopInit, ControlStep, LoopStep, PTL DEF Spec, ImplementsLoop, Loop!Spec

\* What is proved of TestLoop holds of main's variables here.
MainProofs == INSTANCE TestLoopProofs
                WITH at <- mainAt,
                     cursor <- IF loadAt = "done" THEN cursor ELSE 0,
                     testedInsnId <- seenInsnId

LEMMA SameLoop == Loop!Spec => MainProofs!Spec
<1> USE DEF Loop!NoPc, MainProofs!NoPc, Loop!None, MainProofs!None, Loop!Returned,
            MainProofs!Returned, Loop!FrameCheckResult, MainProofs!FrameCheckResult,
            Loop!inputs, MainProofs!inputs, Loop!window, MainProofs!window,
            Loop!frameVars, MainProofs!frameVars, Loop!report, MainProofs!report,
            Loop!returned, MainProofs!returned, Loop!Continue, MainProofs!Continue,
            Loop!StopsAt, MainProofs!StopsAt, Loop!NeverLifted, MainProofs!NeverLifted,
            Loop!MaybeLifted, MainProofs!MaybeLifted
<1>1. Loop!Init => MainProofs!Init
  BY DEF Loop!Init, MainProofs!Init
<1>2. Loop!vars = MainProofs!vars
  BY DEF Loop!vars, MainProofs!vars
<1>3. Loop!Next => MainProofs!Next
  <2>1. Loop!Seek => MainProofs!Seek
    BY DEF Loop!Seek, MainProofs!Seek
  <2>2. Loop!Fetch => MainProofs!Fetch
    BY DEF Loop!Fetch, MainProofs!Fetch
  <2>3. Loop!RunFrame => MainProofs!RunFrame
    BY DEF Loop!RunFrame, MainProofs!RunFrame
  <2>4. Loop!Account => MainProofs!Account
    BY DEF Loop!Account, MainProofs!Account, Loop!Accounts, MainProofs!Accounts
  <2>5. Loop!Leave => MainProofs!Leave
    BY DEF Loop!Leave, MainProofs!Leave
  <2>6. Loop!Interrupt => MainProofs!Interrupt
    BY DEF Loop!Interrupt, MainProofs!Interrupt
  <2> QED
    BY <2>1, <2>2, <2>3, <2>4, <2>5, <2>6
       DEF Loop!Next, MainProofs!Next, Loop!MainStep, MainProofs!MainStep
<1>4. [Loop!Next]_(Loop!vars) => [MainProofs!Next]_(MainProofs!vars)
  <2>1. UNCHANGED Loop!vars => UNCHANGED MainProofs!vars
    BY DEF Loop!vars, MainProofs!vars
  <2> QED
    BY <1>3, <2>1
<1> QED
  BY <1>1, <1>4, PTL DEF Loop!Spec, MainProofs!Spec

LEMMA MainAssumption == MainProofs!TraceAssumption
BY CompositionAssumption
   DEF Main!TraceAssumption, MainProofs!TraceAssumption, Main!Range, MainProofs!Range

\* The report is right for the whole program: every frame of the window is
\* tested once and counted once, with its result, and the loop ends where the
\* window, an option or the user says.
THEOREM ReportCorrect ==
  Spec => [](/\ MainProofs!TypeOK /\ MainProofs!PipelineInv /\ MainProofs!AccountingInv
             /\ MainProofs!CallsInv /\ MainProofs!TallyInv /\ MainProofs!WindowInv)
<1>1. MainProofs!Spec => [](MainProofs!TypeOK /\ MainProofs!PipelineInv)
  BY MainAssumption, MainProofs!PipelineCorrect
<1>2. MainProofs!Spec => []MainProofs!AccountingInv
  BY MainAssumption, MainProofs!AccountingCorrect
<1>3. MainProofs!Spec => []MainProofs!CallsInv
  BY MainAssumption, MainProofs!CallsCorrect
<1>4. MainProofs!Spec => []MainProofs!TallyInv
  BY MainAssumption, MainProofs!TallyCorrect
<1>5. MainProofs!Spec => []MainProofs!WindowInv
  BY MainAssumption, MainProofs!WindowCorrect
<1> QED
  BY <1>1, <1>2, <1>3, <1>4, <1>5, LoopImplemented, SameLoop, PTL DEF ImplementsLoop

-----------------------------------------------------------------------------
\* SetMem.  Its memory is the one it leaves, its reader the one it rewinds.
LoadProofs == INSTANCE SetMemProofs
                WITH at <- loadAt, mem <- loaded,
                     cursor <- IF loadAt = "done" THEN 0 ELSE cursor

LoadingInv == loadAt # "done" => loaded = mem

LEMMA LoadingStep == ControlInv /\ LoadingInv /\ [Next]_vars => LoadingInv'
<1> SUFFICES ASSUME ControlInv, LoadingInv, [Next]_vars
             PROVE  LoadingInv'
  OBVIOUS
<1> USE DEF mainVars, loaderVars, emulatorVars, history, LoadingInv
<1>1. CASE Load
  BY <1>1 DEF Load
<1>2. CASE MainStep \/ Interrupt
  BY <1>2 DEF MainStep, Interrupt
<1>3. CASE CallRunFrame
  BY <1>3 DEF CallRunFrame, Emulator!Call, Emulator!machine
<1>4. CASE RunFrameStep
  BY <1>4 DEF RunFrameStep, ControlInv
<1>5. CASE UNCHANGED vars
  BY <1>5 DEF vars
<1> QED
  BY <1>1, <1>2, <1>3, <1>4, <1>5 DEF Next, ProgramStep

LEMMA LoaderStep ==
  ControlInv /\ LoadingInv /\ [Next]_vars => [LoadProofs!Next]_(LoadProofs!vars)
<1> SUFFICES ASSUME ControlInv, LoadingInv, [Next]_vars
             PROVE  LoadProofs!Next \/ UNCHANGED LoadProofs!vars
  OBVIOUS
<1> USE DEF mainVars, loaderVars, emulatorVars, history
<1>1. CASE Load
  <2>1. /\ loadAt # "done" /\ loaded = mem /\ loaded' = mem' /\ Loader!Next
        /\ loadAt' = "done" => cursor' = 0
    BY <1>1, LoadSeen DEF Load, LoadingInv
  <2>2. CASE Loader!Rewind
    BY <2>1, <2>2 DEF Loader!Rewind, LoadProofs!Rewind, LoadProofs!Next
  <2>3. CASE Loader!SkipNonStd
    BY <2>1, <2>3 DEF Loader!SkipNonStd, LoadProofs!SkipNonStd, Loader!GetFrame,
         LoadProofs!GetFrame, Loader!Frame, LoadProofs!Frame, LoadProofs!Next
  <2>4. CASE Loader!SkipWritten
    BY <2>1, <2>4 DEF Loader!SkipWritten, LoadProofs!SkipWritten, Loader!GetFrame,
         LoadProofs!GetFrame, Loader!Frame, LoadProofs!Frame, LoadProofs!Next
  <2>5. CASE Loader!WriteFrame
    BY <2>1, <2>5 DEF Loader!WriteFrame, LoadProofs!WriteFrame, Loader!GetFrame,
         LoadProofs!GetFrame, Loader!Frame, LoadProofs!Frame, Loader!Write,
         LoadProofs!Write, Loader!Extent, LoadProofs!Extent, LoadProofs!Next
  <2>6. CASE Loader!Finish
    BY <2>1, <2>6 DEF Loader!Finish, LoadProofs!Finish, LoadProofs!Next
  <2> QED
    BY <2>1, <2>2, <2>3, <2>4, <2>5, <2>6 DEF Loader!Next
<1>2. CASE MainStep
  BY <1>2 DEF MainStep, Main!Seek, Main!Fetch, Main!Account, Main!Accounts, Main!Leave,
              Main!inputs, LoadProofs!vars
<1>3. CASE CallRunFrame
  BY <1>3 DEF CallRunFrame, LoadProofs!vars
<1>4. CASE RunFrameStep
  BY <1>4 DEF RunFrameStep, LoadProofs!vars
<1>5. CASE Interrupt
  BY <1>5 DEF Interrupt, Main!Interrupt, Main!inputs, Main!frameVars, LoadProofs!vars
<1>6. CASE UNCHANGED vars
  BY <1>6 DEF vars, LoadProofs!vars
<1> QED
  BY <1>1, <1>2, <1>3, <1>4, <1>5, <1>6 DEF Next, ProgramStep

LEMMA LoaderImplemented ==
  ASSUME ~ CacheReset
  PROVE  Spec => LoadProofs!Spec
<1>1. Init => LoadProofs!Init /\ LoadingInv
  BY DEF Init, Main!Init, Emulator!Init, LoadProofs!Init, LoadingInv, BlankMem,
         Emulator!BlankMem, Addr, Emulator!Addr
<1> QED
  BY <1>1, LoopInit, ControlStep, LoadingStep, LoaderStep, PTL DEF Spec, LoadProofs!Spec

LEMMA LoaderAssumption == LoadProofs!TraceAssumption
BY CompositionAssumption
   DEF Loader!TraceAssumption, LoadProofs!TraceAssumption, Loader!Range, LoadProofs!Range

-----------------------------------------------------------------------------
\* Memory under -n.
EventsInv == events \in Seq(Events)

\* What one step of RunFrame adds to the events and changes in memory.
LEMMA StepWrites ==
  ASSUME EventsInv, ControlInv, Emulator!Step
  PROVE  /\ EventsInv'
         /\ ~ CacheReset => \A b \in Addr \ Writes : mem'[b] = mem[b]
<1> USE DEF Emulator!call, Emulator!machine, Emulator!vm, Emulator!locals,
            Emulator!outcome, EventsInv
<1>1. CASE Emulator!NonStd \/ Emulator!NoCode \/ Emulator!Skip \/ Emulator!PreUntyped
            \/ Emulator!NotLifted \/ Emulator!InvalidIL \/ Emulator!StepFailed
            \/ Emulator!PostUntyped \/ Emulator!Finish
  <2>1. mem' = mem
    BY <1>1, Zenon DEF Emulator!NonStd, Emulator!NoCode, Emulator!Skip,
         Emulator!PreUntyped, Emulator!NotLifted, Emulator!InvalidIL,
         Emulator!StepFailed, Emulator!PostUntyped, Emulator!Finish
  <2>2. events' = <<>>
    BY <1>1, Zenon DEF Emulator!NonStd, Emulator!NoCode, Emulator!Skip,
         Emulator!PreUntyped, Emulator!NotLifted, Emulator!InvalidIL,
         Emulator!StepFailed, Emulator!PostUntyped, Emulator!Finish, Emulator!Return
  <2> QED
    BY <2>1, <2>2
<1>2. CASE Emulator!SetUp
  BY <1>2 DEF Emulator!SetUp
<1>3. CASE Emulator!PreReg \/ Emulator!SetPc \/ Emulator!Lifted
  BY <1>3 DEF Emulator!PreReg, Emulator!SetPc, Emulator!Lifted
<1>4. CASE Emulator!PreMem
  <2>1. /\ Emulator!PreVisit /\ IsMem(Emulator!PreOperand)
        /\ mem' = Emulator!WriteMem(mem, Emulator!PreOperand.addr, Emulator!PreOperand.value)
        /\ events' = events
    BY <1>4 DEF Emulator!PreMem, IsMem, Emulator!IsMem
  <2>2. Writes = Extent(Emulator!PreOperand.addr, Len(Emulator!PreOperand.value))
    BY <2>1 DEF Writes
  <2> QED
    BY <2>1, <2>2 DEF Emulator!WriteMem, Addr, Emulator!Addr, Extent, Emulator!Extent
<1>5. CASE Emulator!VarRead \/ Emulator!VarWrite \/ Emulator!MemRead
  <2>1. mem' = mem
    BY <1>5 DEF Emulator!VarRead, Emulator!VarWrite, Emulator!MemRead
  <2>2. \E e \in Events : events' = Append(events, e)
    <3>1. CASE Emulator!VarRead
      BY <3>1 DEF Emulator!VarRead, Emulator!Record, Events
    <3>2. CASE Emulator!VarWrite
      <4>1. PICK v \in Bound : \E new \in [1 .. Regs[v].size -> WriteVals] :
              Emulator!Record([kind |-> "write", var |-> v,
                               same |-> new = Emulator!ReadReg(arena, v)])
        BY <3>2, Zenon DEF Emulator!VarWrite
      <4>2. PICK new \in [1 .. Regs[v].size -> WriteVals] :
              Emulator!Record([kind |-> "write", var |-> v,
                               same |-> new = Emulator!ReadReg(arena, v)])
        BY <4>1
      <4>3. [kind |-> "write", var |-> v, same |-> new = Emulator!ReadReg(arena, v)]
              \in Events
        BY DEF Events
      <4> QED
        BY <4>2, <4>3 DEF Emulator!Record
    <3>3. CASE Emulator!MemRead
      BY <3>3 DEF Emulator!MemRead, Emulator!Record, Emulator!MemEvent, Events
    <3> QED
      BY <1>5, <3>1, <3>2, <3>3
  <2> QED
    BY <2>1, <2>2
<1>6. CASE Emulator!MemWrite
  <2>1. PICK x \in Accesses, n \in WriteVals :
          /\ events' = Append(events, Emulator!MemEvent("store", x))
          /\ mem' = IF x.index = 0
                    THEN Emulator!WriteMem(mem, x.addr, [k \in 1 .. x.size |-> n])
                    ELSE mem
    BY <1>6 DEF Emulator!MemWrite, Emulator!Record
  <2> DEFINE e == [kind |-> "store", addr |-> x.addr, size |-> x.size, index |-> x.index]
  <2>2. e = Emulator!MemEvent("store", x) /\ e \in Events
    BY DEF Emulator!MemEvent, Events
  <2>3. EventsInv' /\ Len(events') > Len(events) /\ events'[Len(events')] = e
    BY <2>1, <2>2
  <2>4. at = "step"
    BY <1>6 DEF Emulator!MemWrite, Emulator!VmGoesOn
  <2>5. Writes = IF x.index = 0 THEN Extent(x.addr, x.size) ELSE {}
    BY <2>3, <2>4 DEF Writes, Emulator!PreVisit
  <2>6. Len([k \in 1 .. x.size |-> n]) = x.size
    BY MemoryAssumption
  <2> QED
    BY <2>1, <2>3, <2>5, <2>6
       DEF Emulator!WriteMem, Addr, Emulator!Addr, Extent, Emulator!Extent
<1>7. CASE Emulator!StepDone \/ Emulator!ComparePc \/ Emulator!CheckEvent
  BY <1>7 DEF Emulator!StepDone, Emulator!ComparePc, Emulator!CheckEvent
<1>8. CASE Emulator!PostUnknown \/ Emulator!PostCustom \/ Emulator!PostReg
            \/ Emulator!PostMem
  BY <1>8, Zenon DEF Emulator!PostUnknown, Emulator!PostCustom, Emulator!PostReg,
              Emulator!PostMem
<1> QED
  BY <1>1, <1>2, <1>3, <1>4, <1>5, <1>6, <1>7, <1>8 DEF Emulator!Step

LEMMA MemoryStep ==
  ControlInv /\ LoadingInv /\ EventsInv /\ MemoryAccounted /\ [Next]_vars
    => EventsInv' /\ MemoryAccounted'
<1> SUFFICES ASSUME ControlInv, LoadingInv, EventsInv, MemoryAccounted, [Next]_vars
             PROVE  EventsInv' /\ MemoryAccounted'
  OBVIOUS
<1> USE DEF mainVars, loaderVars, emulatorVars, history
<1>1. CASE Load
  BY <1>1 DEF Load, EventsInv, MemoryAccounted
<1>2. CASE MainStep \/ Interrupt
  BY <1>2 DEF MainStep, Interrupt, EventsInv, MemoryAccounted
<1>3. CASE CallRunFrame
  BY <1>3 DEF CallRunFrame, Emulator!Call, Emulator!machine, Emulator!vm, EventsInv,
              MemoryAccounted
<1>4. CASE RunFrameStep
  <2>1. /\ Emulator!Step /\ loadAt = "done" /\ UNCHANGED <<loadAt, loaded>>
        /\ touched' = touched \cup Writes
    BY <1>4 DEF RunFrameStep, ControlInv
  <2>2. EventsInv'
    BY <2>1, StepWrites
  <2>3. ~ CacheReset => \A b \in Addr \ Writes : mem'[b] = mem[b]
    BY <2>1, StepWrites
  <2> QED
    BY <2>1, <2>2, <2>3 DEF MemoryAccounted
<1>5. CASE UNCHANGED vars
  BY <1>5 DEF vars, EventsInv, MemoryAccounted
<1> QED
  BY <1>1, <1>2, <1>3, <1>4, <1>5 DEF Next, ProgramStep

\* Under -n, a byte that no operand and no instruction of the frames tested so
\* far wrote to holds what SetMem left there.
THEOREM MemoryCorrect == Spec => []MemoryAccounted
<1>1. Init => LoadingInv /\ EventsInv /\ MemoryAccounted
  BY DEF Init, Main!Init, Emulator!Init, LoadingInv, EventsInv, MemoryAccounted,
         BlankMem, Emulator!BlankMem, Addr, Emulator!Addr
<1> QED
  BY <1>1, LoopInit, ControlStep, LoadingStep, MemoryStep, PTL DEF Spec

-----------------------------------------------------------------------------
\* The frame under test, and what is known of it at each stage of RunFrame.
Agrees(f, r) ==
  /\ Refusal(f) # "none" => r = Refusal(f)
  /\ r = "Skipped" => Refusal(f) = "Skipped"
Underway == {"lift", "step", "post", "events"}
FrameInv ==
  /\ at # "idle" => frame = trace[cur]
  /\ at \in {"pre"} \cup Underway =>
       frame.std /\ frame.code # <<>> /\ frame.code \notin SkippedCode
  /\ at = "pre" => i \in Nat \ {0} /\ \A j \in 1 .. (i - 1) : ~ Untyped(frame.pre[j])
  /\ at \in Underway => Refusal(frame) = "none"
  /\ mainAt = "account" => Agrees(trace[cur], res)

\* RunFrame refuses a frame exactly when the specification of the call does.
LEMMA StepRefuses ==
  ASSUME FrameInv, ControlInv, at # "idle", Emulator!Step,
         Len(frame.pre) \in Nat, DOMAIN frame.pre = 1 .. Len(frame.pre)
  PROVE  /\ frame' = frame
         /\ at' = "idle" => Agrees(frame, result')
         /\ at' \in {"pre"} \cup Underway =>
              frame.std /\ frame.code # <<>> /\ frame.code \notin SkippedCode
         /\ at' = "pre" => i' \in Nat \ {0}
                           /\ \A j \in 1 .. (i' - 1) : ~ Untyped(frame.pre[j])
         /\ at' \in Underway => Refusal(frame) = "none"
<1> USE DEF Emulator!call, Emulator!machine, Emulator!vm, Emulator!locals,
            Emulator!outcome, Underway
<1>0. frame' = frame
  BY StepSeen
<1>a. Refusal(frame) =
        IF ~ frame.std THEN "Unimplemented"
        ELSE IF frame.code = <<>> THEN "InvalidOp"
        ELSE IF frame.code \in SkippedCode THEN "Skipped"
        ELSE IF \E j \in DOMAIN frame.pre : Untyped(frame.pre[j]) THEN "Unimplemented"
        ELSE "none"
  BY DEF Refusal, Emulator!Oracle!Refusal, Untyped, Emulator!Oracle!Untyped, IsReg, IsMem,
         Emulator!Oracle!IsReg, Emulator!Oracle!IsMem
<1> USE DEF FrameInv
<1>1. CASE Emulator!NonStd \/ Emulator!NoCode \/ Emulator!Skip
  BY <1>0, <1>1, <1>a DEF Emulator!NonStd, Emulator!NoCode, Emulator!Skip, Emulator!Return,
         Emulator!Goto, Agrees
<1>2. CASE Emulator!SetUp
  BY <1>0, <1>2 DEF Emulator!SetUp, Emulator!Goto
<1>3. CASE Emulator!PreReg \/ Emulator!PreMem
  <2>1. /\ at = "pre" /\ at' = "pre" /\ i' = i + 1
        /\ ~ Untyped(frame.pre[i])
    BY <1>3 DEF Emulator!PreReg, Emulator!PreMem, Emulator!PreVisit, Emulator!PreOperand,
         Untyped, IsReg, IsMem, Emulator!IsReg, Emulator!IsMem
  <2> QED
    BY <1>0, <2>1
<1>4. CASE Emulator!PreUntyped
  <2>1. /\ at = "pre" /\ at' = "idle" /\ result' = "Unimplemented" /\ i <= Len(frame.pre)
        /\ Untyped(frame.pre[i])
    BY <1>4 DEF Emulator!PreUntyped, Emulator!PreVisit, Emulator!PreOperand, Emulator!Return,
         Emulator!Goto, Untyped, IsReg, IsMem, Emulator!Untyped, Emulator!IsReg, Emulator!IsMem
  <2>2. i \in DOMAIN frame.pre
    BY <2>1
  <2> QED
    BY <1>0, <1>a, <2>1, <2>2 DEF Agrees
<1>5. CASE Emulator!SetPc
  <2>1. at = "pre" /\ at' = "lift" /\ i > Len(frame.pre)
    BY <1>5 DEF Emulator!SetPc, Emulator!Goto
  <2>2. \A j \in DOMAIN frame.pre : ~ Untyped(frame.pre[j])
    BY <2>1
  <2> QED
    BY <1>0, <1>a, <2>1, <2>2
<1>6. CASE Emulator!NotLifted \/ Emulator!InvalidIL \/ Emulator!StepFailed
            \/ Emulator!PostUntyped \/ Emulator!Finish
  <2>1. at \in Underway /\ at' = "idle" /\ result' # "Skipped"
    BY <1>6 DEF Emulator!NotLifted, Emulator!InvalidIL, Emulator!StepFailed,
         Emulator!PostUntyped, Emulator!PostVisit, Emulator!Finish, Emulator!Return,
         Emulator!Goto
  <2> QED
    BY <1>0, <2>1 DEF Agrees
<1>7. CASE Emulator!Lifted \/ Emulator!StepDone \/ Emulator!ComparePc \/ Emulator!CheckEvent
  <2>1. at \in Underway /\ at' \in Underway
    BY <1>7 DEF Emulator!Lifted, Emulator!StepDone, Emulator!ComparePc,
         Emulator!CheckEvent, Emulator!Goto
  <2> QED
    BY <1>0, <2>1
<1>8. CASE Emulator!VarRead \/ Emulator!VarWrite \/ Emulator!MemRead \/ Emulator!MemWrite
  <2>1. at = "step" /\ at' = "step"
    BY <1>8 DEF Emulator!VarRead, Emulator!VarWrite, Emulator!MemRead, Emulator!MemWrite,
         Emulator!VmGoesOn
  <2> QED
    BY <1>0, <2>1
<1>9. CASE Emulator!PostUnknown \/ Emulator!PostCustom \/ Emulator!PostReg
            \/ Emulator!PostMem
  <2>1. at = "post" /\ at' = "post"
    BY <1>9, Zenon DEF Emulator!PostUnknown, Emulator!PostCustom, Emulator!PostReg,
         Emulator!PostMem, Emulator!PostVisit
  <2> QED
    BY <1>0, <2>1
<1> QED
  BY <1>1, <1>2, <1>3, <1>4, <1>5, <1>6, <1>7, <1>8, <1>9 DEF Emulator!Step

\* While RunFrame is called, cur is a frame of the trace.
MainInv == MainProofs!TypeOK /\ MainProofs!PipelineInv
LEMMA FrameUnderTest ==
  ASSUME MainInv, mainAt = "run"
  PROVE  /\ cur \in DOMAIN trace
         /\ Len(trace[cur].pre) \in Nat
         /\ DOMAIN trace[cur].pre = 1 .. Len(trace[cur].pre)
<1>1. trace \in Traces /\ trace \in Seq(Range(trace))
  BY CompositionAssumption DEF Main!TraceAssumption, Main!Range, Range, MainInv,
     MainProofs!TypeOK
<1>2. cur \in Nat /\ cur <= Len(trace) /\ cur = index + 1 /\ index \in Nat
  BY <1>1 DEF MainInv, MainProofs!TypeOK, MainProofs!PipelineInv
<1>3. cur \in DOMAIN trace /\ trace[cur] \in Range(trace)
  BY <1>1, <1>2 DEF Range
<1>4. trace[cur] \in Frames
  BY <1>1, <1>3 DEF Frames
<1>5. trace[cur].pre \in Seq(Emulator!OperandType)
  BY <1>4, CompositionAssumption DEF Emulator!FrameAssumption, Emulator!FrameType
<1> QED
  BY <1>3, <1>5

LEMMA FrameStep ==
  MainInv /\ ControlInv /\ FrameInv /\ RefusalsReported /\ [Next]_vars
    => FrameInv' /\ RefusalsReported'
<1> SUFFICES ASSUME MainInv, ControlInv, FrameInv, RefusalsReported, [Next]_vars
             PROVE  FrameInv' /\ RefusalsReported'
  OBVIOUS
<1> USE DEF mainVars, loaderVars, emulatorVars, history, Underway
<1>0. ASSUME UNCHANGED <<trace, log>>
      PROVE  RefusalsReported'
  BY <1>0 DEF RefusalsReported
<1>1. CASE Load
  <2>1. UNCHANGED <<trace, log, at, i, frame, cur, mainAt, res>>
    BY <1>1, LoadSeen DEF Load
  <2> QED
    BY <2>1, <1>0 DEF FrameInv
<1>2. CASE MainStep
  <2>1. /\ UNCHANGED <<trace, at, i, frame>>
        /\ Main!Seek \/ Main!Fetch \/ Main!Account \/ Main!Leave
    BY <1>2 DEF MainStep, Main!Seek, Main!Fetch, Main!Account, Main!Accounts, Main!Leave,
                Main!inputs
  <2>2. mainAt # "run" /\ mainAt' # "account"
    BY <2>1 DEF Main!Seek, Main!Fetch, Main!Account, Main!Accounts, Main!Leave
  <2>3. at = "idle" /\ at' = "idle"
    BY <2>1, <2>2 DEF ControlInv
  <2>4. FrameInv'
    BY <2>2, <2>3 DEF FrameInv
  <2>5. CASE Main!Account
    <3>1. /\ log' = Append(log, [index |-> index, frame |-> cur, nextPc |-> nextPc,
                                 res |-> res])
          /\ mainAt = "account"
      BY <2>5 DEF Main!Account, Main!Accounts
    <3>2. Len(log) \in Nat /\ DOMAIN log = 1 .. Len(log)
      BY DEF MainInv, MainProofs!TypeOK
    <3>3. /\ DOMAIN log' = 1 .. (Len(log) + 1)
          /\ \A k \in 1 .. Len(log) : log'[k] = log[k]
          /\ log'[Len(log) + 1].frame = cur /\ log'[Len(log) + 1].res = res
      BY <3>1, <3>2 DEF MainInv, MainProofs!TypeOK
    <3>4. Agrees(trace[cur], res)
      BY <3>1 DEF FrameInv
    <3>5. ASSUME NEW k \in DOMAIN log'
          PROVE  Agrees(trace[log'[k].frame], log'[k].res)
      <4>1. CASE k \in 1 .. Len(log)
        BY <4>1, <3>2, <3>3 DEF RefusalsReported, Agrees
      <4>2. CASE k = Len(log) + 1
        BY <4>2, <3>3, <3>4
      <4> QED
        BY <3>2, <3>3, <4>1, <4>2
    <3> QED
      BY <2>1, <2>4, <3>5 DEF RefusalsReported, Agrees
  <2>6. CASE ~ Main!Account
    <3>1. UNCHANGED log
      BY <2>1, <2>6 DEF Main!Seek, Main!Fetch, Main!Leave, Main!report
    <3> QED
      BY <2>1, <2>4, <3>1, <1>0
  <2> QED
    BY <2>5, <2>6
<1>3. CASE CallRunFrame
  <2>1. /\ UNCHANGED <<trace, log, cur, mainAt, res>> /\ mainAt = "run"
        /\ frame' = trace[cur] /\ at' = "begin"
    BY <1>3 DEF CallRunFrame, Emulator!Call, Emulator!Goto
  <2> QED
    BY <2>1, <1>0 DEF FrameInv
<1>4. CASE RunFrameStep
  <2>1. /\ UNCHANGED <<trace, log, cur>> /\ mainAt = "run" /\ at # "idle" /\ Emulator!Step
    BY <1>4 DEF RunFrameStep
  <2>2. frame = trace[cur]
    BY <2>1 DEF FrameInv
  <2>3. Len(frame.pre) \in Nat /\ DOMAIN frame.pre = 1 .. Len(frame.pre)
    BY <2>1, <2>2, FrameUnderTest
  <2>4. /\ frame' = frame
        /\ at' = "idle" => Agrees(frame, result')
        /\ at' \in {"pre"} \cup Underway =>
              frame.std /\ frame.code # <<>> /\ frame.code \notin SkippedCode
        /\ at' = "pre" => i' \in Nat \ {0}
                           /\ \A j \in 1 .. (i' - 1) : ~ Untyped(frame.pre[j])
        /\ at' \in Underway => Refusal(frame) = "none"
    BY <2>1, <2>3, StepRefuses
  <2>5. mainAt' = "account" => at' = "idle" /\ res' = result'
    BY <1>4 DEF RunFrameStep
  <2>6. FrameInv'
    BY <2>1, <2>2, <2>4, <2>5 DEF FrameInv
  <2> QED
    BY <2>1, <2>6, <1>0
<1>5. CASE Interrupt
  <2>1. UNCHANGED <<trace, log, at, i, frame, cur, mainAt, res>>
    BY <1>5 DEF Interrupt, Main!Interrupt, Main!inputs, Main!frameVars, Main!returned,
                Main!report
  <2> QED
    BY <2>1, <1>0 DEF FrameInv
<1>6. CASE UNCHANGED vars
  BY <1>6, <1>0 DEF vars, FrameInv
<1> QED
  BY <1>1, <1>2, <1>3, <1>4, <1>5, <1>6 DEF Next, ProgramStep

LEMMA FrameInvariant == Spec => [](FrameInv /\ RefusalsReported)
<1>1. Init => FrameInv /\ RefusalsReported
  BY DEF Init, Main!Init, Emulator!Init, FrameInv, Underway, RefusalsReported
<1>2. Spec => []MainInv
  BY ReportCorrect, PTL DEF MainInv
<1> QED
  BY <1>1, <1>2, LoopInit, ControlStep, FrameStep, PTL DEF Spec

\* A frame that has to be refused is reported with the result of its refusal,
\* and a frame reported as skipped had to be skipped, in all traces, windows and
\* behaviours of the IL VM.
THEOREM RefusalsCorrect == Spec => []RefusalsReported
<1> QED
  BY FrameInvariant, PTL

-----------------------------------------------------------------------------
\* The code under test: SetMem put it where the IL VM looks for it, and what
\* has happened to memory since is in `touched`.
LEMMA IntactFromLoaded ==
  ControlInv /\ MainInv /\ FrameInv /\ MemoryAccounted
      /\ (~ CacheReset => LoadProofs!ConsistentCodeLoaded)
    => CodeIntact
<1> SUFFICES ASSUME ControlInv, MainInv, FrameInv, MemoryAccounted,
                    LoadProofs!ConsistentCodeLoaded,
                    at = "step", ~ CacheReset, CodeUnmodified(frame),
                    NEW b \in Extent(frame.addr, Len(frame.code)) \cap Addr
             PROVE  mem[b] = frame.code[b - frame.addr + 1]
  BY DEF CodeIntact, InMemory
<1>1. mainAt = "run" /\ loadAt = "done"
  BY DEF ControlInv
<1>2. cur \in DOMAIN trace /\ frame = trace[cur] /\ frame.std
  BY <1>1, FrameUnderTest DEF FrameInv, Underway
<1>3. LoadProofs!Consistent /\ LoadProofs!SameLength
  BY DEF CodeUnmodified, Loader!Consistent, Loader!SameLength, Loader!Covers, Loader!Extent,
         LoadProofs!Consistent, LoadProofs!SameLength, LoadProofs!Covers, LoadProofs!Extent
<1>4. LoadProofs!Holds(cur)
  BY <1>1, <1>2, <1>3 DEF LoadProofs!ConsistentCodeLoaded
<1>5. loaded[b] = frame.code[b - frame.addr + 1]
  BY <1>2, <1>4 DEF LoadProofs!Holds, LoadProofs!Covers, LoadProofs!Extent, Extent
<1>6. mem[b] = loaded[b]
  BY <1>1 DEF MemoryAccounted, CodeUnmodified
<1> QED
  BY <1>5, <1>6

\* With -n, the IL VM executes the very bytes of the frame, unless the trace
\* contradicts itself or an operand or a store wrote to the code before.
THEOREM CodeCorrect == Spec => []CodeIntact
<1>1. Spec => [](~ CacheReset => LoadProofs!ConsistentCodeLoaded)
  <2>1. CASE CacheReset
    BY <2>1, PTL
  <2>2. CASE ~ CacheReset
    <3>1. Spec => LoadProofs!Spec
      BY <2>2, LoaderImplemented
    <3>2. LoadProofs!Spec => []LoadProofs!ConsistentCodeLoaded
      BY LoaderAssumption, LoadProofs!ConsistentCorrect
    <3> QED
      BY <3>1, <3>2, PTL
  <2> QED
    BY <2>1, <2>2
<1>2. Spec => []MainInv
  BY ReportCorrect, PTL DEF MainInv
<1>3. Spec => []ControlInv
  BY LoopInit, ControlStep, PTL DEF Spec
<1> QED
  BY <1>1, <1>2, <1>3, FrameInvariant, MemoryCorrect, IntactFromLoaded, PTL

-----------------------------------------------------------------------------
\* RunFrame within the program.  What is proved of FrameCheck holds of it here:
\* nextPc belongs to main, which reads ahead while RunFrame is not called, so
\* the argument is the one that the latest call had.
CallProofs == INSTANCE FrameOracleProofs WITH nextPc <- CalledWith

\* RunFrame's actions are written in the same vocabulary under either name.
LEMMA SameOperands ==
  \A o : /\ CallProofs!IsReg(o) <=> Emulator!IsReg(o)
         /\ CallProofs!IsMem(o) <=> Emulator!IsMem(o)
         /\ CallProofs!Untyped(o) <=> Emulator!Untyped(o)
         /\ CallProofs!IsMappedReg(o) <=> Emulator!IsMappedReg(o)
         /\ CallProofs!IsCustom(o) <=> Emulator!IsCustom(o)
         /\ CallProofs!IsPlain(o) <=> Emulator!IsPlain(o)
         /\ CallProofs!RegOf(o) = Emulator!RegOf(o)
BY DEF CallProofs!IsReg, Emulator!IsReg, CallProofs!IsMem, Emulator!IsMem,
       CallProofs!Untyped, Emulator!Untyped, CallProofs!IsMappedReg, Emulator!IsMappedReg,
       CallProofs!IsCustom, Emulator!IsCustom, CallProofs!IsPlain, Emulator!IsPlain,
       CallProofs!RegOf, Emulator!RegOf, CallProofs!Unmapped, Emulator!Unmapped

\* So are the machine's reads and writes.
LEMMA SameMachine ==
  /\ CallProofs!Addr = Emulator!Addr /\ CallProofs!Val = Emulator!Val
  /\ CallProofs!ZeroArena = Emulator!ZeroArena /\ CallProofs!BlankMem = Emulator!BlankMem
  /\ CallProofs!NoCounts = Emulator!NoCounts
  /\ \A a, p : CallProofs!WriteRegs(a, p) = Emulator!WriteRegs(a, p)
  /\ \A a, r : CallProofs!ReadReg(a, r) = Emulator!ReadReg(a, r)
  /\ \A a : CallProofs!RegPc(a) = Emulator!RegPc(a)
  /\ \A p : CallProofs!PcContents(p) = Emulator!PcContents(p)
  /\ \A m, a, v : CallProofs!WriteMem(m, a, v) = Emulator!WriteMem(m, a, v)
  /\ \A m, a, n : CallProofs!ReadMem(m, a, n) = Emulator!ReadMem(m, a, n)
<1>1. /\ CallProofs!Addr = Emulator!Addr /\ CallProofs!Val = Emulator!Val
      /\ CallProofs!BlankMem = Emulator!BlankMem /\ CallProofs!NoCounts = Emulator!NoCounts
  BY DEF CallProofs!Addr, Emulator!Addr, CallProofs!Val, Emulator!Val, CallProofs!BlankMem,
         Emulator!BlankMem, CallProofs!NoCounts, Emulator!NoCounts
<1>2. CallProofs!ZeroArena = Emulator!ZeroArena
  BY DEF CallProofs!ZeroArena, Emulator!ZeroArena, CallProofs!Cells, Emulator!Cells,
         CallProofs!RegCells, Emulator!RegCells
<1>3. \A a, p : CallProofs!WriteRegs(a, p) = Emulator!WriteRegs(a, p)
  BY DEF CallProofs!WriteRegs, Emulator!WriteRegs, CallProofs!Cells, Emulator!Cells,
         CallProofs!RegCells, Emulator!RegCells
<1>4. /\ \A a, r : CallProofs!ReadReg(a, r) = Emulator!ReadReg(a, r)
      /\ \A a : CallProofs!RegPc(a) = Emulator!RegPc(a)
      /\ \A p : CallProofs!PcContents(p) = Emulator!PcContents(p)
  BY DEF CallProofs!ReadReg, Emulator!ReadReg, CallProofs!RegPc, Emulator!RegPc,
         CallProofs!PcContents, Emulator!PcContents,
         CallProofs!CellOfReg, Emulator!CellOfReg
<1>5. /\ \A m, a, v : CallProofs!WriteMem(m, a, v) = Emulator!WriteMem(m, a, v)
      /\ \A m, a, n : CallProofs!ReadMem(m, a, n) = Emulator!ReadMem(m, a, n)
  BY DEF CallProofs!WriteMem, Emulator!WriteMem, CallProofs!ReadMem, Emulator!ReadMem,
         CallProofs!Addr, Emulator!Addr, CallProofs!Extent, Emulator!Extent
<1> QED
  BY <1>1, <1>2, <1>3, <1>4, <1>5

\* A step of RunFrame is one for the argument it was called with.
LEMMA SameStep ==
  ASSUME CalledWith = nextPc, CalledWith' = nextPc', Emulator!Step
  PROVE  CallProofs!Step
<1> USE DEF CallProofs!call, Emulator!call, CallProofs!machine, Emulator!machine,
            CallProofs!vm, Emulator!vm, CallProofs!locals, Emulator!locals,
            CallProofs!outcome, Emulator!outcome, CallProofs!Goto, Emulator!Goto,
            CallProofs!Return, Emulator!Return, CallProofs!SwitchBits, Emulator!SwitchBits,
            CallProofs!PreVisit, Emulator!PreVisit, CallProofs!PreOperand,
                   Emulator!PreOperand,
            CallProofs!PostVisit, Emulator!PostVisit, CallProofs!PostOperand,
                   Emulator!PostOperand,
            CallProofs!Mismatched, Emulator!Mismatched
<1>1. CallProofs!NoCounts = Emulator!NoCounts
  BY SameMachine
<1>2. Emulator!NonStd => CallProofs!NonStd
  BY <1>1 DEF CallProofs!NonStd, Emulator!NonStd
<1>3. Emulator!NoCode => CallProofs!NoCode
  BY <1>1 DEF CallProofs!NoCode, Emulator!NoCode
<1>4. Emulator!Skip => CallProofs!Skip
  BY <1>1 DEF CallProofs!Skip, Emulator!Skip
<1>5. Emulator!SetUp => CallProofs!SetUp
  BY SameMachine DEF CallProofs!SetUp, Emulator!SetUp
<1>6. Emulator!PreReg => CallProofs!PreReg
  BY SameMachine, SameOperands
  DEF CallProofs!PreReg, Emulator!PreReg, CallProofs!NullOp, Emulator!NullOp
<1>7. Emulator!PreMem => CallProofs!PreMem
  BY SameMachine, SameOperands DEF CallProofs!PreMem, Emulator!PreMem
<1>8. Emulator!PreUntyped => CallProofs!PreUntyped
  BY <1>1, SameOperands DEF CallProofs!PreUntyped, Emulator!PreUntyped
<1>9. Emulator!SetPc => CallProofs!SetPc
  BY SameMachine DEF CallProofs!SetPc, Emulator!SetPc
<1>10. Emulator!NotLifted => CallProofs!NotLifted
  BY <1>1 DEF CallProofs!NotLifted, Emulator!NotLifted
<1>11. Emulator!InvalidIL => CallProofs!InvalidIL
  BY <1>1 DEF CallProofs!InvalidIL, Emulator!InvalidIL
<1>12. Emulator!Lifted => CallProofs!Lifted
  BY DEF CallProofs!Lifted, Emulator!Lifted
<1>13. Emulator!VarRead => CallProofs!VarRead
  BY DEF CallProofs!VarRead, Emulator!VarRead, CallProofs!VmGoesOn, Emulator!VmGoesOn,
         CallProofs!Record, Emulator!Record
<1>14. Emulator!VarWrite => CallProofs!VarWrite
  BY SameMachine
  DEF CallProofs!VarWrite, Emulator!VarWrite, CallProofs!VmGoesOn, Emulator!VmGoesOn,
         CallProofs!Record, Emulator!Record
<1>15. Emulator!MemRead => CallProofs!MemRead
  BY DEF CallProofs!MemRead, Emulator!MemRead, CallProofs!VmGoesOn, Emulator!VmGoesOn,
         CallProofs!Record, Emulator!Record, CallProofs!MemEvent, Emulator!MemEvent
<1>16. Emulator!MemWrite => CallProofs!MemWrite
  BY SameMachine
  DEF CallProofs!MemWrite, Emulator!MemWrite, CallProofs!VmGoesOn, Emulator!VmGoesOn,
         CallProofs!Record, Emulator!Record, CallProofs!MemEvent, Emulator!MemEvent
<1>17. Emulator!StepFailed => CallProofs!StepFailed
  BY <1>1 DEF CallProofs!StepFailed, Emulator!StepFailed
<1>18. Emulator!StepDone => CallProofs!StepDone
  <2>1. CallProofs!PostOpMap = Emulator!PostOpMap
    <3>1. \A S : CallProofs!Cardinality(S) = Emulator!Cardinality(S)
      BY DEF CallProofs!Cardinality, Emulator!Cardinality
    <3> QED
      BY <3>1, SameOperands
      DEF CallProofs!PostOpMap, Emulator!PostOpMap, CallProofs!Range, Emulator!Range
  <2>2. /\ CallProofs!FallThrough(frame) = Emulator!FallThrough(frame)
        /\ CallProofs!NoPc = Emulator!NoPc
    BY DEF CallProofs!FallThrough, Emulator!FallThrough, CallProofs!NoPc, Emulator!NoPc
  <2> QED
    BY <2>1, <2>2, SameMachine DEF CallProofs!StepDone, Emulator!StepDone
<1>19. Emulator!PostUnknown => CallProofs!PostUnknown
  BY SameOperands DEF CallProofs!PostUnknown, Emulator!PostUnknown
<1>20. Emulator!PostCustom => CallProofs!PostCustom
  BY SameMachine, SameOperands DEF CallProofs!PostCustom, Emulator!PostCustom
<1>21. Emulator!PostReg => CallProofs!PostReg
  BY SameMachine, SameOperands DEF CallProofs!PostReg, Emulator!PostReg
<1>22. Emulator!PostMem => CallProofs!PostMem
  BY SameMachine, SameOperands DEF CallProofs!PostMem, Emulator!PostMem
<1>23. Emulator!PostUntyped => CallProofs!PostUntyped
  BY <1>1, SameOperands DEF CallProofs!PostUntyped, Emulator!PostUntyped
<1>24. Emulator!ComparePc => CallProofs!ComparePc
  BY SameMachine DEF CallProofs!ComparePc, Emulator!ComparePc
<1>25. Emulator!CheckEvent => CallProofs!CheckEvent
  <2>1. \A ops, var : CallProofs!InOperands(ops, var) <=> Emulator!InOperands(ops, var)
    BY SameOperands
    DEF CallProofs!InOperands, Emulator!InOperands, CallProofs!Range, Emulator!Range,
       CallProofs!TraceRegOverlapsILVar, Emulator!TraceRegOverlapsILVar,
              CallProofs!Unmapped, Emulator!Unmapped
  <2>2. \A ops : CallProofs!Described(ops) = Emulator!Described(ops)
    BY SameOperands DEF CallProofs!Described, Emulator!Described
  <2>3. \A a, n, ops : CallProofs!Covered(a, n, ops) <=> Emulator!Covered(a, n, ops)
    BY DEF CallProofs!Covered, Emulator!Covered, CallProofs!Extent, Emulator!Extent
  <2>4. \A e : CallProofs!Justified(e) <=> Emulator!Justified(e)
    BY <2>1, <2>2, <2>3 DEF CallProofs!Justified, Emulator!Justified
  <2> QED
    BY <2>4 DEF CallProofs!CheckEvent, Emulator!CheckEvent
<1>26. Emulator!Finish => CallProofs!Finish
  BY <1>1 DEF CallProofs!Finish, Emulator!Finish
<1> QED
  BY <1>2, <1>3, <1>4, <1>5, <1>6, <1>7, <1>8, <1>9, <1>10, <1>11, <1>12, <1>13, <1>14,
     <1>15, <1>16, <1>17, <1>18, <1>19, <1>20, <1>21, <1>22, <1>23, <1>24, <1>25, <1>26
  DEF CallProofs!Step, Emulator!Step

\* The assumptions of FrameCheck under the new name.
LEMMA CallAssumptions ==
  /\ CallProofs!MemoryAssumption /\ CallProofs!ProfileAssumption
  /\ CallProofs!FrameAssumption /\ CallProofs!AdapterAssumption
  /\ CallProofs!CustomAssumption /\ CallProofs!SubRegAssumption
<1>1. CallProofs!MemoryAssumption
  BY MemoryAssumption
  DEF CallProofs!MemoryAssumption, CallProofs!Addr, CallProofs!Val, Addr, Val
<1>2. CallProofs!ProfileAssumption
  BY ProfileAssumption DEF CallProofs!ProfileAssumption
<1>3. CallProofs!FrameAssumption
  BY CompositionAssumption, SameMachine, SameOperands
  DEF CallProofs!FrameAssumption, Emulator!FrameAssumption, CallProofs!FrameType,
      Emulator!FrameType, CallProofs!OperandType, Emulator!OperandType,
      CallProofs!Range, Emulator!Range, CallProofs!NoPc, Emulator!NoPc
<1>4. CallProofs!AdapterAssumption
  BY CompositionAssumption, SameMachine, SameOperands
  DEF CallProofs!AdapterAssumption, Emulator!AdapterAssumption, CallProofs!Range,
      Emulator!Range, CallProofs!NullOp, Emulator!NullOp
<1>5. CallProofs!CustomAssumption
  BY CompositionAssumption, SameOperands
  DEF CallProofs!CustomAssumption, Emulator!CustomAssumption, CallProofs!Range,
      Emulator!Range
<1>6. CallProofs!SubRegAssumption
  BY CompositionAssumption, SameOperands
  DEF CallProofs!SubRegAssumption, Emulator!SubRegAssumption, CallProofs!Range,
      Emulator!Range, CallProofs!RegCells, Emulator!RegCells
<1> QED
  BY <1>1, <1>2, <1>3, <1>4, <1>5, <1>6

\* Every step of the program but loading is one of RunFrame as FrameCheck has
\* it, or none: between two calls the argument of the last one is in the log.
LEMMA CalledStep ==
  ASSUME ControlInv, MainInv, ~ Load, [Next]_vars
  PROVE  CallProofs!Next \/ UNCHANGED CallProofs!vars
<1> USE DEF mainVars, loaderVars, emulatorVars, history
<1> USE DEF CallProofs!vars, CallProofs!call, CallProofs!machine, CallProofs!vm,
            CallProofs!locals, CallProofs!outcome
<1>1. CASE MainStep
  <2>1. /\ UNCHANGED <<frame, at, i, arena, mem, bits, events, vmPc, postCount, pcExpect,
                       mismatch, testedInsnId, result>>
        /\ Main!Seek \/ Main!Fetch \/ Main!Account \/ Main!Leave
    BY <1>1 DEF MainStep, Main!Seek, Main!Fetch, Main!Account, Main!Accounts, Main!Leave,
                Main!returned
  <2>2. mainAt # "run" /\ at = "idle" /\ at' = "idle"
    BY <2>1 DEF Main!Seek, Main!Fetch, Main!Account, Main!Accounts, Main!Leave, ControlInv
  <2>3. CalledWith' = CalledWith
    <3>1. CASE Main!Account
      <4>1. /\ log' = Append(log, [index |-> index, frame |-> cur, nextPc |-> nextPc,
                                   res |-> res])
            /\ mainAt = "account" /\ mainAt' # "account"
        BY <3>1 DEF Main!Account, Main!Accounts
      <4>2. Len(log) \in Nat /\ log \in Seq([index : Nat, frame : Nat,
              nextPc : Nat \cup {MainProofs!NoPc}, res : MainProofs!FrameCheckResult])
        BY DEF MainInv, MainProofs!TypeOK
      <4>3. log' # <<>> /\ log'[Len(log')].nextPc = nextPc
        BY <4>1, <4>2
      <4> QED
        BY <2>2, <4>1, <4>3 DEF CalledWith
    <3>2. CASE Main!Seek \/ Main!Fetch \/ Main!Leave
      <4>1. log' = log /\ mainAt # "account" /\ mainAt' # "account"
        BY <3>2 DEF Main!Seek, Main!Fetch, Main!Leave, Main!report
      <4> QED
        BY <2>2, <4>1 DEF CalledWith
    <3> QED
      BY <2>1, <3>1, <3>2
  <2> QED
    BY <2>1, <2>3
<1>2. CASE CallRunFrame
  <2>1. at = "idle" /\ at' = "begin" /\ nextPc' = nextPc
    BY <1>2 DEF CallRunFrame, Emulator!Call, Emulator!Goto
  <2>2. CalledWith' = nextPc'
    BY <2>1 DEF CalledWith
  <2> QED
    BY <1>2, <2>2 DEF CallRunFrame, Emulator!Call, CallProofs!Call, Emulator!Goto,
       CallProofs!Goto, Emulator!machine, Emulator!vm, Emulator!locals, Emulator!outcome,
       CallProofs!Next
<1>3. CASE RunFrameStep
  <2>1. /\ at # "idle" /\ Emulator!Step /\ nextPc' = nextPc
        /\ at' = "idle" => mainAt' = "account"
    BY <1>3, StepSeen DEF RunFrameStep
  <2>2. CalledWith = nextPc /\ CalledWith' = nextPc'
    BY <2>1 DEF CalledWith
  <2> QED
    BY <2>1, <2>2, SameStep DEF CallProofs!Next
<1>4. CASE Interrupt
  BY <1>4 DEF Interrupt, Main!Interrupt, Main!inputs, Main!frameVars, Main!returned,
     Main!report, CalledWith
<1>5. CASE UNCHANGED vars
  BY <1>5 DEF vars, CalledWith
<1> QED
  BY <1>1, <1>2, <1>3, <1>4, <1>5 DEF Next, ProgramStep

\* Loading writes bytes of frames, before the first call.
LEMMA LoadTypes ==
  ASSUME ControlInv, LoadProofs!TypeOK, Load, mem \in [Addr -> Val]
  PROVE  mem' \in [Addr -> Val]
<1>1. loadAt # "done" /\ Loader!Next
  BY LoadSeen DEF Load
<1>2. CASE Loader!Rewind
  BY <1>2, MemoryAssumption DEF Loader!Rewind
<1>3. CASE Loader!SkipNonStd \/ Loader!SkipWritten \/ Loader!Finish
  BY <1>3 DEF Loader!SkipNonStd, Loader!SkipWritten, Loader!Finish
<1>4. CASE Loader!WriteFrame
  <2> DEFINE f == trace[cursor + 1]
  <2>1. trace \in Traces /\ cursor \in Nat /\ cursor < Len(trace)
        /\ trace \in Seq(Range(trace))
    BY <1>1, <1>4, CompositionAssumption
    DEF Loader!WriteFrame, Loader!GetFrame, LoadProofs!TypeOK, Loader!TraceAssumption,
        Loader!Range, Range
  <2>2. f \in Frames
    BY <2>1 DEF Range, Frames
  <2>3. f.addr \in Addr /\ f.code \in Seq(Val)
    BY <2>2, CompositionAssumption
    DEF Emulator!FrameAssumption, Emulator!FrameType, Emulator!Addr, Emulator!Val, Addr, Val
  <2>4. ASSUME NEW b \in Addr, b \in Extent(f.addr, Len(f.code))
        PROVE  f.code[b - f.addr + 1] \in Val
    <3>1. b - f.addr + 1 \in 1 .. Len(f.code)
      BY <2>3, <2>4, MemoryAssumption DEF Extent, Addr
    <3> QED
      BY <2>3, <3>1
  <2>5. mem' = [b \in Addr |-> IF b \in Extent(f.addr, Len(f.code))
                               THEN f.code[b - f.addr + 1] ELSE mem[b]]
    BY <1>4 DEF Loader!WriteFrame, Loader!Write, Loader!Frame, Loader!Extent, Extent
  <2> HIDE DEF f
  <2> QED
    BY <2>4, <2>5
<1> QED
  BY <1>1, <1>2, <1>3, <1>4 DEF Loader!Next

\* and leaves RunFrame alone.
LEMMA LoadHidden ==
  ASSUME ControlInv, Load
  PROVE  /\ at = "idle" /\ at' = "idle" /\ CalledWith' = CalledWith
         /\ UNCHANGED <<frame, i, arena, bits, events, vmPc, postCount, pcExpect, mismatch,
                        testedInsnId, result>>
BY LoadSeen DEF Load, ControlInv, CalledWith, emulatorVars

\* The inductive invariant of RunFrame, between and within calls.
CallInv == /\ CallProofs!TypeOK /\ CallProofs!CountdownInv
           /\ CallProofs!PreInv /\ CallProofs!CompareInv

LEMMA CallStep ==
  ControlInv /\ MainInv /\ (~ CacheReset => LoadProofs!TypeOK) /\ CallInv /\ [Next]_vars
    => CallInv'
<1> SUFFICES ASSUME ControlInv, MainInv, ~ CacheReset => LoadProofs!TypeOK, CallInv,
                    [Next]_vars
             PROVE  CallInv'
  OBVIOUS
<1>1. CASE Load
  <2>1. /\ at = "idle" /\ at' = "idle" /\ CalledWith' = CalledWith
        /\ UNCHANGED <<frame, i, arena, bits, events, vmPc, postCount, pcExpect, mismatch,
                        testedInsnId, result>>
    BY <1>1, LoadHidden
  <2>2. CallProofs!Addr = Addr /\ CallProofs!Val = Val
    BY DEF CallProofs!Addr, CallProofs!Val, Addr, Val
  <2>3. mem' \in [Addr -> Val]
    <3>1. mem \in [Addr -> Val] /\ LoadProofs!TypeOK
      BY <1>1, <2>2 DEF CallInv, CallProofs!TypeOK, Load
    <3> QED
      BY <1>1, <3>1, LoadTypes
  <2>4. CallProofs!TypeOK'
    BY <2>1, <2>2, <2>3 DEF CallInv, CallProofs!TypeOK
  <2>5. CallProofs!CountdownInv' /\ CallProofs!PreInv'
    BY <2>1 DEF CallProofs!CountdownInv, CallProofs!PreInv
  <2>6. CallProofs!CompareInv'
    BY <2>1 DEF CallInv, CallProofs!CompareInv
  <2> QED
    BY <2>4, <2>5, <2>6 DEF CallInv
<1>2. CASE ~ Load
  <2>1. CallProofs!Next \/ UNCHANGED CallProofs!vars
    BY <1>2, CalledStep
  <2>2. CallProofs!TypeOK'
    BY <2>1, CallAssumptions, CallProofs!TypeStep DEF CallInv
  <2>3. CallProofs!CountdownInv'
    BY <2>1, <2>2, CallAssumptions, CallProofs!CountdownStep DEF CallInv
  <2>4. CallProofs!PreInv'
    BY <2>1, CallAssumptions, CallProofs!PreStep DEF CallInv
  <2>5. CallProofs!CompareInv'
    BY <2>1, <2>2, CallAssumptions, CallProofs!CompareStep DEF CallInv
  <2> QED
    BY <2>2, <2>3, <2>4, <2>5 DEF CallInv
<1> QED
  BY <1>1, <1>2

-----------------------------------------------------------------------------
\* The specification of a call reads the same for main and for RunFrame, but for
\* the name of the argument.
LEMMA SamePerform == CallProofs!Oracle!Perform => Oracle!Perform
<1>1. /\ CallProofs!Oracle!Addr = Oracle!Addr /\ CallProofs!Oracle!Val = Oracle!Val
      /\ CallProofs!Oracle!Events = Oracle!Events
      /\ CallProofs!NoCounts = Emulator!NoCounts
  BY DEF CallProofs!Oracle!Addr, Oracle!Addr, CallProofs!Oracle!Val, Oracle!Val,
         CallProofs!Oracle!Events, Oracle!Events, CallProofs!NoCounts, Emulator!NoCounts
<1>2. CallProofs!Oracle!Cells = Oracle!Cells
  BY DEF CallProofs!Oracle!Cells, Oracle!Cells, CallProofs!Oracle!RegCells, Oracle!RegCells
<1> QED
  BY <1>1, <1>2
  DEF CallProofs!Oracle!Perform, Oracle!Perform, CallProofs!Oracle!call, Oracle!call,
      CallProofs!Phase, Emulator!Phase, CallProofs!Visible, Emulator!Visible

LEMMA SameOracle ==
  [CallProofs!Oracle!Next]_(CallProofs!Oracle!vars) => [Oracle!Next]_(Oracle!vars)
\* Expanded, an action is the same formula under either name.
<1> USE DEF CallProofs!Oracle!Addr, Oracle!Addr, CallProofs!Oracle!ArenaWrites,
            Oracle!ArenaWrites, CallProofs!Oracle!CellOfReg, Oracle!CellOfReg,
            CallProofs!Oracle!Cells, Oracle!Cells, CallProofs!Oracle!Covered,
            Oracle!Covered, CallProofs!Oracle!Described, Oracle!Described,
            CallProofs!Oracle!Events, Oracle!Events,
            CallProofs!Oracle!EventsExplained, Oracle!EventsExplained,
            CallProofs!Oracle!Extent, Oracle!Extent, CallProofs!Oracle!Hidden,
            Oracle!Hidden, CallProofs!Oracle!IsCustom, Oracle!IsCustom,
            CallProofs!Oracle!IsLast, Oracle!IsLast, CallProofs!Oracle!IsMappedReg,
            Oracle!IsMappedReg, CallProofs!Oracle!IsMem, Oracle!IsMem,
            CallProofs!Oracle!IsPlain, Oracle!IsPlain, CallProofs!Oracle!IsReg,
            Oracle!IsReg, CallProofs!Oracle!LastOf, Oracle!LastOf,
            CallProofs!Oracle!MemAgrees, Oracle!MemAgrees,
            CallProofs!Oracle!MemWrites, Oracle!MemWrites, CallProofs!Oracle!NoPc,
            Oracle!NoPc, CallProofs!Oracle!NullOp, Oracle!NullOp,
            CallProofs!Oracle!PcAgrees, Oracle!PcAgrees,
            CallProofs!Oracle!PcContents, Oracle!PcContents,
            CallProofs!Oracle!PcExpected, Oracle!PcExpected,
            CallProofs!Oracle!PreArena, Oracle!PreArena, CallProofs!Oracle!PreMem,
            Oracle!PreMem, CallProofs!Oracle!ReadReg, Oracle!ReadReg,
            CallProofs!Oracle!Refusal, Oracle!Refusal, CallProofs!Oracle!RegCells,
            Oracle!RegCells, CallProofs!Oracle!RegOf, Oracle!RegOf,
            CallProofs!Oracle!RegPc, Oracle!RegPc, CallProofs!Oracle!RegWrite,
            Oracle!RegWrite, CallProofs!Oracle!RegsAgree, Oracle!RegsAgree,
            CallProofs!Oracle!Return, Oracle!Return, CallProofs!Oracle!Touches,
            Oracle!Touches, CallProofs!Oracle!Unmapped, Oracle!Unmapped,
            CallProofs!Oracle!Untyped, Oracle!Untyped, CallProofs!Oracle!Val,
            Oracle!Val, CallProofs!Oracle!Verdict, Oracle!Verdict,
            CallProofs!Oracle!Written, Oracle!Written, CallProofs!Oracle!call,
            Oracle!call
<1> USE DEF CallProofs!Phase, Emulator!Phase, CallProofs!Visible, Emulator!Visible,
            CallProofs!NoCounts, Emulator!NoCounts
<1>1. CallProofs!Oracle!Call => Oracle!Call
  BY DEF CallProofs!Oracle!Call, Oracle!Call
<1>2. CallProofs!Oracle!Refuse => Oracle!Refuse
  BY DEF CallProofs!Oracle!Refuse, Oracle!Refuse
<1>3. CallProofs!Oracle!Load => Oracle!Load
  BY DEF CallProofs!Oracle!Load, Oracle!Load
<1>4. CallProofs!Oracle!Reject => Oracle!Reject
  BY DEF CallProofs!Oracle!Reject, Oracle!Reject
<1>5. CallProofs!Oracle!Start => Oracle!Start
  BY DEF CallProofs!Oracle!Start, Oracle!Start
<1>6. CallProofs!Oracle!Perform => Oracle!Perform
  BY SamePerform
<1>7. CallProofs!Oracle!Halt => Oracle!Halt
  BY DEF CallProofs!Oracle!Halt, Oracle!Halt
<1>8. CallProofs!Oracle!Crash => Oracle!Crash
  BY DEF CallProofs!Oracle!Crash, Oracle!Crash
<1>9. CallProofs!Oracle!Judge => Oracle!Judge
  BY DEF CallProofs!Oracle!Judge, Oracle!Judge
<1>10. UNCHANGED CallProofs!Oracle!vars => UNCHANGED Oracle!vars
  BY DEF CallProofs!Oracle!vars, Oracle!vars
<1> QED
  BY <1>1, <1>2, <1>3, <1>4, <1>5, <1>6, <1>7, <1>8, <1>9, <1>10
  DEF CallProofs!Oracle!Next, Oracle!Next

\* Loading stays out of sight; every other step is one of RunFrame or none.
LEMMA OracleStepHere ==
  ControlInv /\ MainInv /\ CallInv /\ CallInv' /\ [Next]_vars => [Oracle!Next]_(Oracle!vars)
<1> SUFFICES ASSUME ControlInv, MainInv, CallInv, CallInv', [Next]_vars
             PROVE  [Oracle!Next]_(Oracle!vars)
  OBVIOUS
<1>1. CASE Load
  <2>1. /\ at = "idle" /\ at' = "idle" /\ CalledWith' = CalledWith
        /\ UNCHANGED <<frame, i, arena, bits, events, vmPc, postCount, pcExpect, mismatch,
                        testedInsnId, result>>
    BY <1>1, LoadHidden
  <2> QED
    BY <2>1 DEF Oracle!vars, Oracle!call, Emulator!Phase, Emulator!Visible
<1>2. CASE ~ Load
  <2>1. [CallProofs!Next]_(CallProofs!vars)
    BY <1>2, CalledStep
  <2>2. [CallProofs!Oracle!Next]_(CallProofs!Oracle!vars)
    BY <2>1, CallAssumptions, CallProofs!OracleStep DEF CallInv
  <2> QED
    BY <2>2, SameOracle
<1> QED
  BY <1>1, <1>2

LEMMA OracleInitHere == Init => CallInv /\ Oracle!Init
<1> SUFFICES ASSUME Init
             PROVE  CallInv /\ Oracle!Init
  OBVIOUS
<1>1. log = <<>> /\ at = "idle" /\ mainAt = "start" /\ Emulator!Init
  <2>1. Emulator!Init
    BY DEF Init
  <2> QED
    BY <2>1 DEF Init, Main!Init, Emulator!Init
<1>2. CalledWith = NoPc
  BY <1>1 DEF CalledWith
<1>3. frame \in Frames
  BY <1>1 DEF Emulator!Init
<1>4. CallProofs!Init
  BY <1>1, <1>2, SameMachine DEF Emulator!Init, CallProofs!Init, NoPc, CallProofs!NoPc
<1>5. CallProofs!TypeOK
  BY <1>4, CallAssumptions, CallProofs!TypeInit
<1>6. CallProofs!CountdownInv /\ CallProofs!PreInv /\ CallProofs!CompareInv
  BY <1>4
  DEF CallProofs!Init, CallProofs!CountdownInv, CallProofs!PreInv, CallProofs!CompareInv
<1>7. Oracle!Init
  BY <1>1, <1>2, <1>4
  DEF CallProofs!Init, Oracle!Init, Emulator!Phase, Emulator!Visible, Emulator!NoCounts,
      Oracle!Hidden, NoPc, Oracle!NoPc
<1> QED
  BY <1>5, <1>6, <1>7 DEF CallInv

\* Main's reading ahead, preloading, refusals and earlier frames change no
\* verdict: for every trace, window, set of options, profile and adapter, each
\* call of the program returns what its frame and the address of the next one
\* determine together with what the IL VM did.
THEOREM VerdictsCorrect == Spec => ImplementsOracle
<1>1. Spec => []MainInv
  BY ReportCorrect, PTL DEF MainInv
<1>2. Spec => [](~ CacheReset => LoadProofs!TypeOK)
  <2>1. CASE CacheReset
    BY <2>1, PTL
  <2>2. CASE ~ CacheReset
    <3>1. Spec => LoadProofs!Spec
      BY <2>2, LoaderImplemented
    <3>2. LoadProofs!Spec => []LoadProofs!TypeOK
      BY LoaderAssumption, LoadProofs!TypeCorrect
    <3> QED
      BY <3>1, <3>2, PTL
  <2> QED
    BY <2>1, <2>2
<1> QED
  BY <1>1, <1>2, OracleInitHere, LoopInit, ControlStep, CallStep, OracleStepHere, PTL
  DEF Spec, ImplementsOracle, Oracle!Spec
=============================================================================
