------------------------------ MODULE TraceRun ------------------------------
(***************************************************************************)
(* The program once it is started: main, SetMem when option -n is given,   *)
(* and RunFrame, composed over one trace, one reader and one emulator.     *)
(* TestLoop lets RunFrame return anything, and FrameCheck lets any frame   *)
(* follow any other; here the frames are those that main reads, and the    *)
(* results are those of the calls.                                         *)
(*                                                                         *)
(* History variables: seenInsnId is tested_insn_id as the latest return    *)
(* left it, loaded is what SetMem left in memory, and touched the addresses *)
(* that operands and instructions have written to since.                   *)
(***************************************************************************)
EXTENDS FrameBase

CONSTANTS
  Traces,                           \* sequences of frames
  Froms, Limits, FlagSets,          \* as in TestLoop
  NextPcs, InsnIds, MaxEvents, WriteVals   \* as in FrameCheck

Frames == UNION {Range(t) : t \in Traces}

VARIABLES
  \* main
  trace, from, limit, flags, cursor, mainAt, cur, nxt, nextPc, index, res,
  offset, count, total, stats, covered, interrupted, log,
  \* SetMem
  loadAt, written,
  \* the emulator and the locals of RunFrame
  frame, at, i, arena, mem, bits, events, vmPc, postCount, pcExpect, mismatch,
  testedInsnId, result,
  seenInsnId, loaded, touched

Main == INSTANCE TestLoop WITH at <- mainAt
Loader == INSTANCE SetMem WITH at <- loadAt
Emulator == INSTANCE FrameCheck

\* The traces are what main, SetMem and RunFrame each take for granted.
ASSUME CompositionAssumption ==
  /\ Main!TraceAssumption /\ Loader!TraceAssumption
  /\ Emulator!FrameAssumption /\ Emulator!AdapterAssumption
  /\ Emulator!CustomAssumption /\ Emulator!SubRegAssumption

mainVars == <<trace, from, limit, flags, mainAt, cur, nxt, nextPc, index, res,
              offset, count, total, stats, covered, interrupted, log>>
loaderVars == <<loadAt, written>>
emulatorVars == <<frame, at, i, arena, bits, events, vmPc, postCount, pcExpect,
                  mismatch, result>>
history == <<seenInsnId, loaded, touched>>
vars == <<mainVars, loaderVars, emulatorVars, history, cursor, mem, testedInsnId>>

Init ==
  /\ Main!Init
  /\ frame = CHOOSE f \in Frames : TRUE
  /\ Emulator!Init
  /\ loadAt = IF CacheReset THEN "done" ELSE "start"
  /\ written = {}
  /\ seenInsnId = 0 /\ loaded = BlankMem /\ touched = {}

\* Without -n, SetMem is not called.
Load ==
  /\ ~ CacheReset
  /\ Loader!Next
  /\ loaded' = mem'
  /\ UNCHANGED <<from, limit, flags, mainAt, cur, nxt, nextPc, index, res, offset,
                 count, total, stats, covered, interrupted, log, emulatorVars,
                 testedInsnId, seenInsnId, touched>>

MainStep ==
  /\ loadAt = "done"
  /\ Main!Seek \/ Main!Fetch \/ Main!Account \/ Main!Leave
  /\ UNCHANGED <<loaderVars, emulatorVars, mem, history>>

\* Mutant: hands out the frame read ahead.
CallRunFrameAhead ==
  /\ mainAt = "run" /\ at = "idle"
  /\ frame' = trace[IF nxt = 0 THEN cur ELSE nxt] /\ nextPc' = nextPc
  /\ Emulator!Call
  /\ UNCHANGED <<mainVars, loaderVars, history, cursor>>
CallRunFrame ==
  /\ mainAt = "run" /\ at = "idle"
  /\ frame' = trace[cur] /\ nextPc' = nextPc
  /\ Emulator!Call
  /\ UNCHANGED <<mainVars, loaderVars, history, cursor>>

\* The addresses that this step writes to on behalf of the frame.
Writes ==
  IF Emulator!PreVisit /\ IsMem(Emulator!PreOperand)
  THEN Extent(Emulator!PreOperand.addr, Len(Emulator!PreOperand.value))
  ELSE IF at = "step" /\ Len(events') > Len(events)
  THEN LET e == events'[Len(events')]
       IN  IF e.kind = "store" /\ e.index = 0 THEN Extent(e.addr, e.size) ELSE {}
  ELSE {}

\* Mutant: forgets the result of a call that fails early.
RunFrameStepForgets ==
  /\ mainAt = "run" /\ at # "idle"
  /\ Emulator!Step
  /\ touched' = touched \cup Writes
  /\ IF at' = "idle"
     THEN /\ mainAt' = "account" /\ seenInsnId' = testedInsnId'
          /\ res' = IF at = "begin" THEN res ELSE result'
     ELSE UNCHANGED <<mainAt, res, seenInsnId>>
  /\ UNCHANGED <<trace, from, limit, flags, cursor, cur, nxt, index, offset, count,
                 total, stats, covered, interrupted, log, loaderVars, loaded>>
\* A step of RunFrame; the last one gives main the result.
RunFrameStep ==
  /\ mainAt = "run" /\ at # "idle"
  /\ Emulator!Step
  /\ touched' = touched \cup Writes
  /\ IF at' = "idle"
     THEN /\ mainAt' = "account" /\ seenInsnId' = testedInsnId'
          /\ res' = result'
     ELSE UNCHANGED <<mainAt, res, seenInsnId>>
  /\ UNCHANGED <<trace, from, limit, flags, cursor, cur, nxt, index, offset, count,
                 total, stats, covered, interrupted, log, loaderVars, loaded>>

Interrupt ==
  /\ Main!Interrupt
  /\ UNCHANGED <<loaderVars, emulatorVars, mem, history>>

ProgramStep == Load \/ MainStep \/ CallRunFrame \/ RunFrameStep
Next == ProgramStep \/ Interrupt

Spec == Init /\ [][Next]_vars
\* The program keeps running; users need not act.
FairSpec == Spec /\ WF_vars(ProgramStep)

-----------------------------------------------------------------------------
\* main's variables while SetMem uses the reader and RunFrame the id.
Loop == INSTANCE TestLoop
          WITH at <- mainAt,
               cursor <- IF loadAt = "done" THEN cursor ELSE 0,
               testedInsnId <- seenInsnId

\* The composed program is a behaviour of the loop with an arbitrary RunFrame:
\* the id that RunFrame writes through a pointer half way, and the reader that
\* SetMem shares with main, do not break what TestLoop shows of the report.
ImplementsLoop == Loop!Spec

\* Frame f consists of code that agrees with all code that shares bytes with
\* it, and nothing but SetMem has written there.
CodeUnmodified(f) ==
  /\ Loader!Consistent /\ Loader!SameLength
  /\ Extent(f.addr, Len(f.code)) \cap touched = {}
InMemory(f) == \A b \in Extent(f.addr, Len(f.code)) \cap Addr : mem[b] = f.code[b - f.addr + 1]

\* RunFrame validates and lifts the bytes of the frame, but the IL VM executes
\* those in memory at the PC.  With -n these were written before the first
\* frame, and stores of earlier frames, interrupts, windows and frames that
\* were refused have happened since: they are the same bytes nevertheless, as
\* long as no operand and no instruction wrote to the code.
CodeIntact ==
  at = "step" /\ events = <<>> /\ ~ CacheReset /\ CodeUnmodified(frame) => InMemory(frame)

\* Under -n memory is what SetMem left, apart from what frames wrote.
MemoryAccounted ==
  ~ CacheReset /\ loadAt = "done" =>
    \A b \in Addr \ touched : mem[b] = loaded[b]

\* A frame that RunFrame refuses is reported with the result of its refusal, at
\* its own index, and none is reported as skipped that need not be skipped.  The
\* other refusals share their results with frames that were not lifted.
Refusal(f) == Emulator!Oracle!Refusal(f)
RefusalsReported ==
  \A k \in DOMAIN log :
    LET f == trace[log[k].frame] IN
    /\ Refusal(f) # "none" => log[k].res = Refusal(f)
    /\ log[k].res = "Skipped" => Refusal(f) = "Skipped"

\* next_pc of the latest call: main reads ahead before it calls again, and
\* reports the call with the argument it had.
CalledWith ==
  IF at # "idle" \/ mainAt = "account" THEN nextPc
  ELSE IF log = <<>> THEN NoPc ELSE log[Len(log)].nextPc
Oracle == INSTANCE FrameOracle
            WITH phase <- Emulator!Phase,
                 nextPc <- CalledWith,
                 arena <- IF Emulator!Visible THEN arena ELSE Emulator!NoCounts,
                 mem <- IF Emulator!Visible THEN mem ELSE Emulator!NoCounts

\* Over a whole trace every call returns the verdict of the one-step
\* specification on its own frame and on the address of the frame after it.
\* Main's reading ahead, the preloading of memory, refused frames in between
\* and the one emulator that all frames share leave no other trace in it.
ImplementsOracle == Oracle!Spec

\* The program ends: SetMem, every RunFrame and the loop around them.
Ends == <>(mainAt \in {"done", "aborted"} \/ loadAt = "aborted")
=============================================================================
