# A TLA+ model of rz-tracetest

`rz-tracetest` checks the RzIL lifters of rizin: it reads a trace of executed
instructions (frames), executes each of them in the IL VM of rizin from the
state that the frame describes, and compares the state afterwards, and every
access the VM made, with the frame.  What the tool says about a lifter is worth
as much as its verdicts, so this project models how verdicts come about: the
options and the adapter that set up the emulator, the preparation of the state,
the comparison, the justification of the VM's accesses, the loop that goes
through a trace and keeps the statistics, and the program made of all of these.

The tool runs in one thread.  What makes it hard are the states that survive
from one frame to the next, the order of operands in a list, early returns in
the middle of a comparison, the frame of lookahead, one reader and one result
parameter shared by several functions, 64-bit sums at the end of the address
space, loops that decide by themselves whether to go on, twelve adapter
classes that bend the comparison each in its own way, and the user's interrupt.

## Components

| Component | Source | State it keeps | Operations | Modelled in |
|---|---|---|---|---|
| Memory access justification | `rzemu.cpp` 59-103, `trace.h` | the chunk left to justify, progress flag | `MemAccessJustifiedByOperands` | `MemJustify` |
| Frame checker | `rzemu.cpp` 139-633, `rzemu.h` | register arena, memory cache, `asm.bits`; locals of the call | `RunFrame`, `get_post_op_map`, `TraceRegOverlapsILVar` | `FrameCheck` |
| Adapters | `adapter.cpp`, `adapter.h` | endianness, machine | the virtual methods of `TraceAdapter` in every class | `Adapters`, `AdapterTable`, `FrameArchs` |
| Preloading of code (`-n`) | `rzemu.cpp` 105-137 | memory, set of written addresses, position of the reader | `SetMem` | `SetMem` |
| Test loop | `main.cpp` 113-168 | window, lookahead, statistics, coverage set, last instruction id | the loop of `main` | `TestLoop` |
| Composition of `main`, `SetMem`, `RunFrame` | `main.cpp`, `rzemu.cpp` | one reader, one emulator, `tested_insn_id` | calls, returns, the pointer handed out | `TraceRun` |
| Command line | `main.cpp` 28-111 | options | parsing, errors, exits | `Startup` |
| Adapter selection, constructor | `adapter.cpp` 792-827, `rzemu.cpp` 8-49 | configuration of rizin | `SelectTraceAdapter`, setters, constructor | `Startup`, `AdapterTable` |
| Trace dump (`-d`) | `dump.cpp` | running index, reader, bits | `DumpTrace` | `Startup` |
| Report | `main.cpp` 170-224 | none | printing | not modelled |
| Container reader | submodule `bap-frames` | position in the trace | `seek`, `get_frame`, `end_of_trace` | external |
| Rizin | library | `RzReg`, `RzIO`, IL VM and its events | see "What is external" | external |

`main` parses its options, opens the container, selects the adapter for its
architecture and machine, and gives it machine and endianness.  With `-d` it
dumps the frames of a window.  Otherwise it constructs a `RizinEmulator`, lets
`SetMem` preload memory with `-n`, seeks the reader to `-o`, and calls
`RunFrame` for each frame with the address of the next one.  `RunFrame` asks
the adapter about names, contents and exceptions, changes arena and memory,
lets the VM run, and asks `MemAccessJustifiedByOperands` about every load and
store.  It gives back a `FrameCheckResult` and, through a pointer and half way
through the call, the id of the instruction.

### What makes each correct

* Justification: an access is justified exactly when each of its bytes belongs
  to a memory operand, in whatever order the operands come; the loop ends.
* Frame checker: the verdict is a function of the frame, of the next address
  and of what the VM did.  No register of an earlier frame leaks in, and no memory
  unless `-n` keeps it; the last post-operand of a register counts; a mismatch is
  reported as one (which a post-operand without type prevents: `frame_lost`).
* Adapters: the same, with every adapter's renaming, unpacking, narrowing,
  widening, masking and ignoring; and what an adapter loads from the trace it
  finds equal to the trace when it compares.
* Preloading: memory holds what the frames say, and the reader is rewound.
* Test loop: the frames of the window are tested once each, in order, with the
  right successor; every result is counted once; it stops when, and only when,
  it should.
* Composition: the parts share a reader, an emulator and an id, and each still
  does what it does alone; with `-n` the code that the VM executes is the code
  that was lifted.
* Startup: options count in whatever order they come; everything is configured for
  the container that was opened; the dump shows the frames, and decodes them
  with the bits, of a test of the same window.

## Modules

`EXTENDS` is written as an arrow to the module that is extended.

    MemCover              sizes and coverage (trace.h)
      <- JustifyOracle         one-step specification of the justification
      <- MemJustify            the loop, implements JustifyOracle
           <- MemJustifyProofs      its theorems
           <- MCMemJustify          instance for TLC
      <- FrameBase             frames, operands, arena, memory, adapter interface
           <- FrameOracle           one-step specification of a frame's verdict
           <- FrameCheck            RunFrame, implements FrameOracle
                <- FrameCheckProofs      types, countdown, bits
                     <- FrameOracleProofs     the refinement
                <- MCFrameSparc          with AdapterTable: 32-bit SPARC
                <- MCFramePpc            with Adapters: PowerPC
           <- TraceRun              main, SetMem and RunFrame
                <- TraceRunProofs        its theorems
                <- MCTraceRun            instance for TLC
    SetMem                option -n
      <- SetMemProofs          its theorems
      <- MCSetMem              instance for TLC
    TestLoop              the loop of main
      <- TestLoopProofs        its theorems
      <- MCTestLoop            instance for TLC
    Adapters              what each class of adapters overrides
      <- AdapterTable          selection, and which override answers for whom
           <- FrameArchs            RunFrame under every adapter
                <- FrameArchsProofs      its theorems
                <- MCFrameArchs          instance for TLC
           <- Startup               main before the loop, and the dump
                <- StartupProofs         its theorems
                <- MCStartup             instance for TLC
    FrameNotation         how instances write frames and profiles

`TraceRun` takes `TestLoop`, `SetMem` and `FrameCheck` as instances and
`TraceRunProofs` their theorems; `FrameArchs` takes `FrameCheck` as an instance
with the adapter as parameter, and `FrameArchsProofs` the theorems of
`FrameOracleProofs` for one adapter.

### MemJustify

One action per branch of the loop body: `SkipOperand`, `Justify`, `ChopHead`,
`ChopTail`, `PassOver`, and `NextPass` or `GiveUp` at the end of a pass.  `addr`
and `size` are the variables of the code; sums and differences are modulo
`WordSize` (2^64 in the program), so that wrapping is part of the model.  The
type invariant says that the chunk is never empty, whatever sums wrap: a branch
that would leave nothing of it is only reached by chunks that no operand contains.
A memory operand is its address, the number of bytes of its value and its
`bit_length`; the value itself is not looked at by the code.

### FrameCheck

`at` is the position in `RunFrame`: "begin" (early returns and reset), "pre"
(loop over pre-operands), "lift", "step" (the VM), "post" (loop over
post-operands and PC), "events" (loop over the VM's events), "idle".  One action
per branch of each loop body, `i` being the position.  `arena`, `mem` and `bits`
belong to the emulator and survive the call; `events` and `vmPc` are of the VM;
`postCount`, `pcExpect` and `mismatch` are the locals `post_op_map`,
`pc_expect` and `mismatch`.  `Call` lets any frame follow any other, which
covers every trace made of the instance's frames.

Data is abstracted to what comparisons can tell apart.  The contents of a
register is a sequence of *cells*: groups of neighbouring bits that the adapter
and overlapping registers treat alike (the VICE adapter masks bits 4 and 5 of
`sr`, so `sr` has the cells bits 0-3, 4-5, 6-7; each adapter says its grouping
in `Adapters`).  A cell of memory is a byte.  The first cell
of the PC holds an address; where rizin's PC is wider than the addresses of the
trace (`mpc` of the Game Boy) the cells above it are zero (`PcContents`).  The
arena is a function on `<<type, offset>>`, shared by overlapping registers
like `cr` and `cr0`, as in `RzReg`.  The values of operands are those after
`OperandSizeBits` has cut them.

The methods of `TraceAdapter` are constant operators of `FrameBase`, to which
instances assign operators of `Adapters` or, through `AdapterTable`, of the
adapter's class.  `SubRegs` and `SubRegContents` stand for `CustomRegSetup`,
`CustomRegCompare` and `CompareSubreg`.  `MemAccessJustifiedByOperands` is used
here through the coverage that `MemJustify` is shown to decide where no sum
wraps.  `MemoryAssumption` and `FrameAssumption` keep accesses and memory operands
away from the end of the address space.  That is a restriction of the model, which
nothing in the code enforces: there `RunFrame` takes the answers that run
`justify_wrap` shows.

`FrameOracle` says the same in one step per phase and in terms of sets: the
pre-state is a function of the frame (`PreArena`, `PreMem`: the last write to
each cell), and `Verdict` a function of the frame, the next address and the
final state of the VM.  The refinement shows the arena and memory only from the
moment the pre-state is complete: before, RunFrame is busy building it, and
after the call nobody looks at them.

### Adapters, AdapterTable and FrameArchs

`Adapters` has one operator for each override that decides anything, named
after its class and method, on cells.  `AdapterTable` is the virtual call: class
`"sparc64"` answers with its own override, that of a parent, or that of the base
class.  `FrameArchs` fixes an adapter in its initial state and lets `RunFrame`
run under it, on a profile and frames chosen for its overrides.

The specification of the verdict uses the adapter's operators too, so a refinement
cannot tell whether they fit each other.  `LoadedAsCompared` does: when the
pre-state is complete, each pre-operand that no later one has overwritten is found
equal to the registers, as it would be after an instruction that leaves them
alone.  An adapter that converts a register in one direction only, or to a size
that rizin's register does not have, breaks it: `RzReg` does not take a value of
another size, and the comparison of two sizes is unequal.  Operands that share
cells with the PC count only if they are the PC of the frame; the mask that ARM
puts on the post-operands of `mrs` has no counterpart before the step and is left
out of it.

### SetMem and TestLoop

`SetMem`: `Rewind`, then one of `SkipNonStd`, `SkipWritten`, `WriteFrame` per
frame, then `Finish`.  `TestLoop`: `Seek`, then for each frame `Fetch`
(lookahead and arguments), `RunFrame` (any result) and `Account` (statistics,
stop options); `Leave` when the loop condition fails; `Interrupt` at any time.
`log` records the calls and is a history variable.  A reader that is asked for
a frame it does not have throws; nobody catches, and the model goes to
"aborted".

### TraceRun

`TestLoop` lets `RunFrame` return anything, `FrameCheck` lets any frame follow
any other, `SetMem` owns its memory.  `TraceRun` joins the three on what they
share in the program: the reader (`cursor`), memory (`mem`), the arguments and
the result of `RunFrame`, and `tested_insn_id`.  Its actions are those of the
instances: `Load` (`SetMem`, with `-n` only), `MainStep`, `CallRunFrame` and
`RunFrameStep`, whose last step hands the result to `main`, and `Interrupt`,
which may fall into the middle of a call.  Three history variables serve the
properties: `seenInsnId` is the id as the latest return left it, `loaded` what
`SetMem` left in memory, and `touched` the addresses that operands and
instructions have written to since.

### Startup

`line` is the command line as a sequence of options, `parsed` how many of them
`rz_getopt_next` has delivered, `at` the place in `main`, `SelectTraceAdapter`, the
constructor or `DumpTrace`.  One action per option, then `ParseFile`, `Open`,
`Select`, `Adapt` (machine and `-b`), `Construct` or `DumpSetup`, `Seek`, and for
the dump `DumpFrame` and `DumpEnd`.  Numbers wrap as `strtoull` wraps them.
`config` is the part of rizin's configuration that the adapter decides (of the
`RzCore`, or of the `RzAsm` of the dump).

## What is external

* Container reader: a position in a sequence; `seek` and `get_frame` throw
  beyond the end, and the constructor throws when the file is no container.
* `RzReg`: `rz_reg_set_bv` with a value of another size changes nothing (the
  code prints "Can't apply reg value").  The profile has a PC register: the
  early return without one (`rzemu.cpp` 243-248) is left out.
* `RzIO`: memory that was never written reads as `Blank`.
* Disassembly, lifting, validation: any outcome that the code distinguishes.
* IL VM: any sequence of up to `MaxEvents` accesses to bound variables and
  memory, with any values of `WriteVals`, then any PC; or an error.  IL
  memories other than index 0 are private to the VM.
* `std::regex` throws on a malformed expression.

## Runs

| Run | Shows |
|---|---|
| `justify` | for every list of up to three operands in a wrapping space of 8 bytes: types and a chunk that is never empty, the loop's invariant `ChunkInv`, that the loop implements `JustifyOracle`, that each step comes nearer to its end (`Progress`), and that it ends |
| `frame_sparc` | 32-bit SPARC, any frames in any order: types, `CountdownInv`, `ImplementsOracle` with unpacked, overlapping, repeated and ignored registers, refused frames, events and PC |
| `frame_archs` | all twelve adapter classes that can be selected: `ImplementsOracle`, `LoadedAsCompared`, and `BitsFromFrame` with a machine in the container |
| `setmem` | every trace of up to three frames: `LoadedInv`, `ConsistentCodeLoaded`, `Loads` |
| `loop` | every window over four traces with every result: types, `PipelineInv`, `AccountingInv`, `CallsInv`, `TallyInv`, `WindowInv`, `CoverageInv`, `Ends` |
| `tracerun` | the program with `-n`: it implements `TestLoop` (`ImplementsLoop`), gives every frame the verdict of `FrameOracle` (`ImplementsOracle`), executes the code that it lifts (`CodeIntact`), leaves bytes that nobody wrote to as `SetMem` left them (`MemoryAccounted`), reports refused frames with the result of their refusal (`RefusalsReported`), and ends |
| `startup` | every command line of up to three options on six containers: types, `OptionsInv`, `ConfiguredInv`, `DumpWindow`, `DumpBitsAsTested`, `Starts` |

Five more runs end in a counterexample.  Each compares the code with what a
comment or the help text says.

| Run | The text | What the code does |
|---|---|---|
| `justify_wrap` | `rzemu.cpp` 70-71: true only if operands overlap the access | an access that ends at the last byte of the address space is contained in any operand before it: its end wraps to 0 |
| `frame_bits` | `rzemu.cpp` 253-254: effects "only depend on the operands and bytes given explicitly in the frame" | a PowerPC frame without mode, in a container without machine, keeps the bits of an earlier frame |
| `frame_lost` | `main.cpp` 19: `-m` stops at the first mismatch | a mismatch followed by a post-operand without type is returned as Unimplemented |
| `loop_u` | `main.cpp` 17: `-u` stops at the first unlifted one | it stops at InvalidOp; Unimplemented, reported as "unlifted", does not stop it |
| `startup_endian` | `adapter.h` 240: `IsBigEndian` tells the endianness of instruction bytes, which `SelectTraceAdapter` derives from a SPARC machine | `main.cpp` 119 overwrites it with the default of `-b`: big endian SPARC is set up as little endian |

### Bounds

* `justify`: three operands are enough for a chunk that is chopped at the head,
  at the tail and needs a second pass; the 8-byte space makes accesses and
  operands wrap; one operand is cut by `bit_length` to part of its bytes and one
  to none.  The theorems hold for every bound.
* `frame_*`: memory of three bytes and one to four cells per register;
  frames chosen so that every branch is met, with registers listed twice,
  mapped to each other, overlapping, unknown, of other sizes.  `frame_sparc` has
  up to two events per instruction (a write and another access, or the same
  variable twice), `frame_archs` one, on each adapter's own frames, with machine
  64.  Since `Call` is repeated without bound, what one frame leaves meets every
  other.  The refinement is proved for every bound.
* `setmem`: frames at two addresses with zero to two bytes over four bytes of
  memory: equal, overlapping, contained, contradicting.
* `loop`: traces of zero, one and three frames, windows that begin at, inside
  and beyond them, limits of zero, less and more than there are.
* `tracerun`: traces of up to three frames over four bytes of memory, in which code
  repeats, overlaps, is contradicted, or written to by an operand or a store,
  and frames are refused for every reason there is; one event per instruction.
* `startup`: `UT64_MAX` is 9; the options include limits of zero and one, negative
  numbers, text for a number, a malformed regular expression, unknown ones and `-h`; containers with
  an unknown architecture, without frames, with frames of several modes and none.

### Fairness

A single thread runs, and every call into rizin returns: so the program's own
steps are weakly fair.  In `TestLoop` these are `MainStep` and in `TraceRun`
`ProgramStep` (the user need not interrupt); `FrameCheck` needs none, its calls
are seen to return in `TraceRun`; `MemJustify`, `SetMem` and `Startup` run to their end, so
all their steps are fair.  Liveness says something about the code because the
loops decide themselves whether they go on: `do`/`while (improved)`, the
conditions of the loops in `main` and in `DumpTrace`; and because an exception or an early return in one part
must not leave another waiting.

## Proofs

TLAPS checks, for every value of the constants that satisfies the assumptions
of the modules:

* `MemJustify`: operands are memory operands or others, `WordSize` is positive.
* `FrameCheck`: a memory that no access and no memory operand reaches the end of;
  a register profile with a PC; frames, and what the adapter makes of their
  operands, of the right types; `CustomAssumption`, that no register of rizin is
  handled by the adapter under one name of the trace and by `RunFrame` under
  another; and `SubRegAssumption`, that the registers the adapter unpacks a
  register into do not overlap.  The last three are theorems for the adapters
  of the table (`AdaptersAdmissible`).
* `FrameArchs`: a memory of at least two addresses, so that cells hold both values
  of a bit; the first three of the above for each adapter's profile and frames;
  register operands with a value, and with a cell for each of the registers that
  `psr` and `state` are unpacked into; and those registers apart in the profile
  (`MachineAssumption`, `ArchsAssumption`).
* `TestLoop`, `SetMem`: traces are sequences of frames, of which each module types
  the fields it uses; `TraceRun`: both hold of its traces, and `FrameCheck`'s of
  the frames in them (`CompositionAssumption`).
* `Startup`: traces and command lines are sequences, numbers are at most `UT64_MAX`
  in size (`CommandLineAssumption`).

### Justification

* `TypeCorrect`: the chunk is never empty, which is proved without `Safe`: each of
  `ChopHead` and `ChopTail` could only leave nothing where the containment test
  before it had already returned.
* `ChunkCorrect`: `ChunkInv` is inductive with `TypeOK`.  It is needed because a
  verdict of "true" speaks about the current chunk, not about the access: it
  says that chunk and access differ in explained bytes only.  For "false" it
  says that a pass which has not chopped has met no operand that explains the
  *first* byte of the chunk, so that byte stays unexplained at the end of the
  pass.
* `JustifyRefines`: from it, each `Justify` and `GiveUp` is a `Decide` of
  `JustifyOracle`, and every other action stutters.
* `OverlapUnlessWrapped`: the comment that `justify_wrap` refutes holds wherever
  neither the access nor an operand reaches the end of the address space.
* `LoopProgress`: `Progress` is the argument why the loop ends, and needs no
  condition on wrapping.  `Left` is what is left of the address space behind the
  two ends of the chunk, `StepsLeft` what is left of the pass, a whole pass more
  if this one has chopped.  `ChopHead` moves the beginning up and leaves the end
  (`ModBack`: the wrapping difference undoes the wrapping sum), `ChopTail` the
  other way round, every other step that does not return lowers `StepsLeft`.

### RunFrame

* `TypeCorrect`: `TypeOK` is inductive; lemmas give the types of what is written to
  the arena and to memory, one step per action.
* `CountdownCorrect`: `CountdownInv` is inductive with `TypeOK`.
  `LeftFrom(k, r)` is the set of strict operands of `r` from position `k` on.
  `CountsAtStart` shows that `get_post_op_map`, which counts by name, counts just
  `LeftFrom(1, r)`: this is where `CustomAssumption` is needed.  A strict operand
  makes the set one smaller (`LeftOneLess`) and the count with it, unless it was
  the last one, after which nothing is promised; any other operand leaves both.
* `BitsFromFrameCorrect`: a frame is lifted with the bits of its own mode, provided
  (`BitsAreDetermined`) that the adapter asks for bits in each mode of the trace,
  or for a single value only.  `frame_bits` shows that the condition is needed.
* `MismatchReportedIfTyped`: what `frame_lost` refutes holds of every trace whose
  post-operands are registers or memory.  `mismatch` is up only during the
  comparisons, and of the two returns from there only the one at an untyped
  operand forgets it (`MismatchStep`).
* `CallProgress`: the phases of a call follow each other in one direction, and each
  step inside a loop uses up an operand, an event, or one of the `MaxEvents`.
* `OracleRefined` (module `FrameOracleProofs`): RunFrame implements `FrameOracle`.
  Three invariants carry it.  `PreInv`: in the loop over the pre-operands, arena
  and memory are the last writes of the operands behind it (`PreRegWrites` and
  `PreMemWrites` show that one more operand is one more overwriting), so that
  they are `PreArena` and `PreMem` at its end (`PreComplete`), whatever was there
  before.  `CountdownInv`: the operand that is compared strictly is the last of
  its register (`StrictAtLast`).  `CompareInv`: `mismatch` is raised exactly if one of
  the operands so far is bad, the PC differs, or one of the events so far is not
  justified (`OperandCompared`, `PcAgreesHere`, `EventExplained`); at the end this
  is `Verdict` (`VerdictReached`).  The verdict of the specification is
  Unimplemented at a post-operand without type, as the code has it, and starts
  from whatever memory there is when `-n` keeps it: the theorem does not say that
  these are right, only that nothing else comes in.

### Adapters

* `AdaptersAdmissible`: `AdapterAssumption`, `CustomAssumption` and
  `SubRegAssumption` hold of every adapter of the table.  `FromTraceTypes` goes
  through the overrides of `AdjustRegContentsFromTrace`: each gives contents of a
  register from contents.  Only SPARC unpacks (`CustomNames`), into the registers
  `Unpacked`, one part each (`SubRegTypes`), and no other trace register maps to
  the one that is unpacked.
* `VerdictsCorrect`: `FrameArchs!ImplementsOracle`, for all twelve adapters.  `Arch` is
  a constant about which nothing is assumed, and the theorem speaks of the
  behaviours whose adapter is `Arch`; every behaviour of `Spec` is one of these,
  for some value of `Arch`, because the adapter never changes.  `One` is
  `FrameOracleProofs` for that adapter; its assumptions are met
  (`AssumptionsMet`), a step of `FrameArchs` is a step of `One` (`SameStep`), and
  `One!OracleRefined` comes back the same way (`SameOracle`).
* `LoadedAsComparedCorrect`: `LoadedAsCompared`, for every adapter, profile and trace.
  It assumes (`OperandsFit`) that the operands have the sizes of the profile once
  converted, and that the address in the PC has no bits above those of the trace.
  `ConversionsAgree` and `PartsAgree` say that an adapter converts from rizin as it
  is what it converted from the trace; `One!OperandLoaded` that an operand with no
  overlap behind it is what `PreArena` holds in its cells, each part of an
  unpacked register in its own; `One!LoadedAtLift` that the arena is `PreArena`
  before the step.
* `BitsCorrect`: no adapter needs more than the mode of the frame and the machine,
  except PowerPC, which needs a machine (`BitsOfTable`).

### SetMem

* `TypeCorrect`: the addresses remembered are those of the frames seen.  Hence the
  code writes a frame exactly if it is the first at its address
  (`FirstIffUnwritten`), and `LoadedInv` is inductive (`LoadedCorrect`).
* `LoadProgress`: each step moves the reader on, or is a rewind.
* `ConsistentCorrect`: with `FirstInv` (every frame seen has a first one at its
  address) the last writer of each byte agrees with every frame that covers it.

### Test loop

* `TypeCorrect`, `PipelineCorrect`: `TypeOK /\ PipelineInv` is inductive; the two
  need each other, since the positions stay in the trace because the lookahead
  follows the reader, and the count stays natural because the loop tests it.
* `AccountingCorrect`, `CallsCorrect`, `TallyCorrect`, `WindowCorrect`,
  `CoverageCorrect`: each from the pipeline and those before it.
* `LoopProgress`: each accounted frame is one less of the trace (`FramesLeft`) and of
  the limit, and every other step of `main` brings it nearer to that
  (`StagesLeft`); that a frame is left when one is accounted follows from pipeline
  and accounting together.

### The composed program

* `LoopImplemented`: `TraceRun` implements `TestLoop`, with `main`'s reader shown at
  0 while `SetMem` uses it, and the id shown as the latest return left it.
  `ControlInv` says who runs when, and `StepSeen` what `main` can see of a step
  of `RunFrame`: one of `main`'s results, with an id exactly when the
  instruction got as far as the id.  A call is a stutter, its last step
  `TestLoop`'s `RunFrame`.
* `ReportCorrect`: hence the theorems of `TestLoopProofs`, instantiated, hold of
  the program.  `CoverageInv` is not among them: it speaks about the id between
  the steps of a call, which only `TestLoop`'s atomic call hides.
* `MemoryCorrect`: `touched` covers what a step of `RunFrame` writes (`StepWrites`), so
  that a byte outside of it is what `SetMem` left.
* `VerdictsCorrect`: `FrameOracle` holds of every call.  `main` changes `nextPc` while
  no call runs, which a call of `FrameCheck` never sees; `CalledWith` is the
  argument as the call had it, and with it the composed program is `FrameCheck`
  (`CallProofs`, whose theorems carry over).
* `RefusalsCorrect`: `FrameInv` follows the frame under test through the call: up
  to a position, none of its operands has refused it.  Skipped is reported for
  skipped frames only; the other refusals share their results with frames that
  could not be lifted.
* `CodeCorrect`: `SetMem`'s refinement (`LoaderImplemented`) brings in
  `SetMemProofs!ConsistentCorrect`, and `MemoryCorrect` carries the loaded bytes
  from there to the frame under test (`IntactFromLoaded`).

### Startup

* `TypeCorrect`, `OptionsCorrect`: one more option adds one position to the options
  given and leaves the others (`OptionTaken`), and it is the last.  One lemma per
  conjunct of `OptionsInv`, since options do not meddle with each other.
* `ConfiguredCorrect`: `SetupInv` says what is known at each stage: the
  configuration is untouched until the constructor or the dump sets it, and by
  then adapter, machine and endianness are those of the container and of `-b`.
* `DumpWindowCorrect`, `DumpBitsCorrect`: `DumpInv` ties reader, index and output to
  the window, and the current bits to the last frame of the window that asked for
  some (`NextBits`).
* `EndiannessByOption`: what `startup_endian` refutes holds exactly where `-b` happens
  to say what the machine is.
* `StartProgress`: stages follow each other in one direction; an option is parsed
  once, a frame dumped once.

Only model-checked: the liveness properties (`Terminates`, `Ends`, `Loads`, `Starts`), since what an action is ENABLED in and what fairness makes of it are out
of the prover's reach.  Of the argument why the loops end, the part that can go
wrong in the code is proved: `LoopProgress` of the justification and of `main`,
`CallProgress`, `LoadProgress` and `StartProgress` say that no step leaves the
measure as it is.  That some step is always possible until the end, and is taken, is
what TLC adds.  Every invariant and action property of the passing runs is proved.

## Not modelled

* The report (`main.cpp` 170-224): percentages and their formatting, 99.99 for
  almost 100, and the division by a total of 0.
* What is only printed: the text of a dump, `PrintRegisterDetails`,
  `IgnoreUnknownReg`, the details of a mismatch.
* Disassembly text and its regular expression: `SkippedCode` is the set of
  instruction bytes that match; that disassembly also depends on `asm.bits` is
  left out.
* The dangling reference in the static lambda of the TriCore adapter
  (`adapter.cpp` 770): what later calls compare with depends on the compiler.  The
  model returns what a call with its own parameter returns.
* PCs of less than 64 bits: `RunFrame` adds the length of an instruction to its
  address in 64 bits, also where the machine has fewer (`rzemu.cpp` 426); addresses
  and PC have one width in the model.
* Accesses and memory operands at the end of the address space inside `RunFrame`
  (see `FrameCheck` above).
* Threads of a trace: the code does not read the thread id of a frame.
* The container reader, the protobuf definitions and rizin, which are not part of
  this repository, beyond what "What is external" says.

## Plan

All parts of the program that decide anything are modelled, checked and proved
about.  What would add to it:

1. A measure for the composed program, from those of its parts: a step of `RunFrame`
   is a stutter of `main`, so that the three measures combine lexicographically.
2. Memory in which operands reach the end of the address space, with the wrapping
   `MemJustify` in place of coverage.
3. `BitsFromFrame` for `TraceRun`, where the trace is known: which frame an outdated
   value of `asm.bits` comes from.
