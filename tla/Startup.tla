------------------------------- MODULE Startup ------------------------------
(***************************************************************************)
(* The program before its test loop: main parses the command line, opens   *)
(* the container, selects the adapter and either dumps the frames of the   *)
(* window (DumpTrace, option -d) or constructs the RizinEmulator.          *)
(***************************************************************************)
EXTENDS AdapterTable, FiniteSets, Functions

CONSTANTS
  CommandLines,  \* [options : sequences of [opt, number, arg], files : number of
                 \* arguments]; number is what arg says as a number, 0 for text
  Containers,    \* [opens, arch, mach, frames : sequences of [std, mode]]
  UT64_MAX

ASSUME CommandLineAssumption ==
  /\ UT64_MAX \in Nat \ {0}
  /\ \A l \in CommandLines :
       /\ l.options \in Seq(Range(l.options))
       /\ \A o \in Range(l.options) : o.number \in (-UT64_MAX) .. UT64_MAX
  /\ \A c \in Containers : c.mach \in Nat /\ c.frames \in Seq(Range(c.frames))

BoolOptions == {"i", "d", "b", "e", "u", "r", "m", "p", "n"}

VARIABLES
  line, container,               \* argv, the trace file
  at, parsed,                    \* control, options behind opt.ind
  count, offset, chosen, verbose, skip,   \* what the options set; chosen is
                                          \* the set of boolean options
  adapter, machine, bigEndian,   \* TraceAdapter and its members
  config,                        \* asm.arch, asm.cpu, asm.bits, cfg.bigendian
                                 \* of the RzCore or of DumpTrace's RzAsm
  regBigEndian,                  \* big_endian of the RzReg
  cursor, index, output          \* reader, DumpTrace's index, what it printed

options == <<count, offset, chosen, verbose, skip>>
adapterVars == <<adapter, machine, bigEndian>>
setup == <<config, regBigEndian>>
dump == <<cursor, index, output>>
vars == <<line, container, at, parsed, options, adapterVars, setup, dump>>

NotGiven == <<>>      \* std::nullopt for skip_re
DefaultConfig == [arch |-> "", cpu |-> "", bits |-> 0, bigendian |-> FALSE]

Init ==
  /\ line \in CommandLines /\ container \in Containers
  /\ at = "parse" /\ parsed = 0
  /\ count = UT64_MAX /\ offset = 0 /\ chosen = {} /\ verbose = 0 /\ skip = NotGiven
  /\ adapter = NoAdapter /\ machine = 0 /\ bigEndian = FALSE
  /\ config = DefaultConfig /\ regBigEndian = FALSE
  /\ cursor = 0 /\ index = 0 /\ output = <<>>

-----------------------------------------------------------------------------
\* Mutant: takes a negative number as it is.
StrtoullSigned(n) == n
\* strtoull wraps negative numbers.
Strtoull(n) == n % (UT64_MAX + 1)

Option == line.options[parsed + 1]
TakesOption(o) ==
  /\ at = "parse" /\ parsed < Len(line.options)
  /\ Option.opt = o
  /\ parsed' = parsed + 1
  /\ UNCHANGED <<line, container, adapterVars, setup, dump>>

ParseCount ==
  /\ TakesOption("c")
  /\ count' = Strtoull(Option.number)
  /\ UNCHANGED <<at, offset, chosen, verbose, skip>>
ParseOffset ==
  /\ TakesOption("o")
  /\ offset' = Strtoull(Option.number)
  /\ UNCHANGED <<at, count, chosen, verbose, skip>>
\* Mutant: an option given twice is switched off again.
ParseFlagToggles ==
  \E o \in BoolOptions :
    /\ TakesOption(o)
    /\ chosen' = IF o \in chosen THEN chosen \ {o} ELSE chosen \cup {o}
    /\ UNCHANGED <<at, count, offset, verbose, skip>>
ParseFlag ==
  \E o \in BoolOptions :
    /\ TakesOption(o)
    /\ chosen' = chosen \cup {o}
    /\ UNCHANGED <<at, count, offset, verbose, skip>>
ParseVerbose ==
  /\ TakesOption("v")
  /\ verbose' = verbose + 1
  /\ UNCHANGED <<at, count, offset, chosen, skip>>
\* A second -s is an error; the constructor of std::regex throws on a
\* malformed one.
ParseSkip ==
  /\ TakesOption("s")
  /\ IF skip # NotGiven THEN at' = "exit 1" /\ UNCHANGED skip
     ELSE IF Option.arg = "malformed" THEN at' = "aborted" /\ UNCHANGED skip
     ELSE skip' = <<Option.arg>> /\ UNCHANGED at
  /\ UNCHANGED <<count, offset, chosen, verbose>>
\* -h, and "?" for an unknown option or a missing argument
ParseHelp ==
  /\ \E o \in {"h", "?"} : TakesOption(o)
  /\ at' = "exit 1"
  /\ UNCHANGED options

\* Exactly one file is expected.
ParseFile ==
  /\ at = "parse" /\ parsed = Len(line.options)
  /\ at' = IF line.files = 1 THEN "open" ELSE "exit 1"
  /\ UNCHANGED <<line, container, parsed, options, adapterVars, setup, dump>>

-----------------------------------------------------------------------------
\* The reader throws when the file is no container.
Open ==
  /\ at = "open"
  /\ at' = IF container.opens THEN "select" ELSE "aborted"
  /\ UNCHANGED <<line, container, parsed, options, adapterVars, setup, dump>>

\* SelectTraceAdapter knows the endianness of SPARC machines.
Select ==
  /\ at = "select"
  /\ adapter' = SelectTraceAdapter(container.arch, container.mach)
  /\ bigEndian' = (container.arch = "sparc" /\ container.mach # frame_mach_sparc_sparclite_le)
  /\ at' = IF adapter' = NoAdapter THEN "aborted" ELSE "adapt"
  /\ UNCHANGED <<line, container, parsed, options, machine, setup, dump>>

\* main's SetMachine and SetIsBigEndian
Adapt ==
  /\ at = "adapt"
  /\ machine' = container.mach
  /\ bigEndian' = ("b" \in chosen)
  /\ at' = IF "d" \in chosen THEN "dump setup" ELSE "construct"
  /\ UNCHANGED <<line, container, parsed, options, adapter, setup, dump>>

\* Mutant: forgets the machine.
ConfiguredNoMachine(old) ==
  [old EXCEPT !.arch = RizinArch(adapter),
              !.cpu = IF RizinCPU(adapter) # "" THEN RizinCPU(adapter) ELSE @,
              !.bits = LET b == RizinBitsOf(adapter, "none", 0) IN IF b # 0 THEN b ELSE @,
              !.bigendian = bigEndian]
Configured(old) ==
  [old EXCEPT !.arch = RizinArch(adapter),
              !.cpu = IF RizinCPU(adapter) # "" THEN RizinCPU(adapter) ELSE @,
              !.bits = LET b == RizinBitsOf(adapter, "none", machine) IN IF b # 0 THEN b ELSE @,
              !.bigendian = bigEndian]

\* The constructor of RizinEmulator, which throws when rizin cannot give it a
\* core, a profile or an IL VM; then -n, -p and the seek to the window.
Construct ==
  /\ at = "construct"
  /\ config' = Configured(config)
  /\ \/ at' = "aborted" /\ UNCHANGED regBigEndian
     \/ at' = "seek" /\ regBigEndian' = bigEndian
  /\ UNCHANGED <<line, container, parsed, options, adapterVars, dump>>

-----------------------------------------------------------------------------
\* DumpTrace
DumpSetup ==
  /\ at = "dump setup"
  /\ config' = Configured(config)
  /\ at' = "seek"
  /\ UNCHANGED <<line, container, parsed, options, adapterVars, regBigEndian, dump>>

\* trace.seek(offset) throws beyond the last frame.
Seek ==
  /\ at = "seek"
  /\ IF offset < Len(container.frames)
     THEN cursor' = offset /\ at' = IF "d" \in chosen THEN "dump" ELSE "loop"
     ELSE at' = "aborted" /\ UNCHANGED cursor
  /\ UNCHANGED <<line, container, parsed, options, adapterVars, setup, index, output>>

\* Mutant: the limit is tested after the frame.
DumpContinuesLate == cursor < Len(container.frames) /\ index <= count
DumpContinues == cursor < Len(container.frames) /\ index < count

\* Mutant: prints the frame before it switches the bits.
DumpFrameThenBits ==
  /\ at = "dump" /\ DumpContinues
  /\ LET f == container.frames[cursor + 1]
         b == RizinBitsOf(adapter, f.mode, machine)
     IN  /\ config' = IF f.std THEN [config EXCEPT !.bits = IF b # 0 THEN b ELSE @] ELSE config
         /\ output' = Append(output, [index |-> index, frame |-> cursor + 1,
                                      bits |-> config.bits])
  /\ cursor' = cursor + 1 /\ index' = index + 1
  /\ UNCHANGED <<line, container, at, parsed, options, adapterVars, regBigEndian>>
\* Prints the frame at the cursor, and disassembles it with the bits of its
\* mode if it is a std frame.
DumpFrame ==
  /\ at = "dump" /\ DumpContinues
  /\ LET f == container.frames[cursor + 1]
         b == RizinBitsOf(adapter, f.mode, machine)
     IN  /\ config' = IF f.std
                      THEN [config EXCEPT !.bits = IF b # 0 THEN b ELSE @,
                                          !.bigendian = bigEndian]
                      ELSE config
         /\ output' = Append(output, [index |-> index, frame |-> cursor + 1,
                                      bits |-> config'.bits])
  /\ cursor' = cursor + 1 /\ index' = index + 1
  /\ UNCHANGED <<line, container, at, parsed, options, adapterVars, regBigEndian>>

\* Mutant: waits for the limit at the end of the trace.
DumpEndAtLimit ==
  /\ at = "dump" /\ index = count
  /\ at' = "exit 0"
  /\ UNCHANGED <<line, container, parsed, options, adapterVars, setup, dump>>
DumpEnd ==
  /\ at = "dump" /\ ~ DumpContinues
  /\ at' = "exit 0"
  /\ UNCHANGED <<line, container, parsed, options, adapterVars, setup, dump>>

Next ==
  \/ ParseCount \/ ParseOffset \/ ParseFlag \/ ParseVerbose \/ ParseSkip
  \/ ParseHelp \/ ParseFile
  \/ Open \/ Select \/ Adapt \/ Construct \/ DumpSetup \/ Seek \/ DumpFrame \/ DumpEnd

Spec == Init /\ [][Next]_vars
FairSpec == Spec /\ WF_vars(Next)
-----------------------------------------------------------------------------
OptionTypes ==
  /\ line \in CommandLines /\ container \in Containers
  /\ parsed \in 0 .. Len(line.options)
  /\ count \in 0 .. UT64_MAX /\ offset \in 0 .. UT64_MAX /\ chosen \subseteq BoolOptions
  /\ verbose \in Nat
SetupTypes ==
  /\ machine \in Nat /\ bigEndian \in BOOLEAN
  /\ DOMAIN config = DOMAIN DefaultConfig
  /\ config.bits \in Nat /\ config.bigendian \in BOOLEAN
  /\ regBigEndian \in BOOLEAN
DumpTypes ==
  /\ cursor \in 0 .. Len(container.frames) /\ index \in Nat
  /\ output \in Seq([index : Nat, frame : Nat, bits : Nat])
\* Types of main's variables, the adapter's members and the configuration.
TypeOK ==
  /\ at \in {"parse", "open", "select", "adapt", "construct", "dump setup", "seek",
             "dump", "loop", "exit 0", "exit 1", "aborted"}
  /\ OptionTypes /\ SetupTypes /\ DumpTypes

Given(o) == {k \in 1 .. parsed : line.options[k].opt = o}
LastOf(ks) == CHOOSE k \in ks : \A j \in ks : j <= k
ValueOf(o, default) ==
  IF Given(o) = {} THEN default ELSE Strtoull(line.options[LastOf(Given(o))].number)
Rejected == {"exit 1", "aborted"}
\* The options mean the same in every order, except that the last -c and the
\* last -o count; whoever gets past them asked for no help, gave at most one
\* -s, which is the one that counts, and exactly one file.
OptionsInv ==
  /\ count = ValueOf("c", UT64_MAX) /\ offset = ValueOf("o", 0)
  /\ chosen = {o \in BoolOptions : Given(o) # {}}
  /\ verbose = Cardinality(Given("v"))
  /\ at \notin Rejected =>
       /\ Given("h") = {} /\ Given("?") = {}
       /\ IF Given("s") = {} THEN skip = NotGiven
          ELSE \E k \in 1 .. parsed :
                 Given("s") = {k} /\ skip = <<line.options[k].arg>>
       /\ at # "parse" => parsed = Len(line.options) /\ line.files = 1

\* The emulator and the disassembler of the dump are set up for the container
\* that was opened: the bits of its machine, the CPU of its adapter, and one
\* endianness for instructions and registers.
ConfiguredInv ==
  at \in {"seek", "loop"} =>
    /\ config.bits = RizinBitsOf(SelectTraceAdapter(container.arch, container.mach),
                                 "none", container.mach)
    /\ config.cpu = RizinCPU(adapter) /\ config.arch = RizinArch(adapter)
    /\ config.bigendian = ("b" \in chosen)
    /\ "d" \notin chosen => regBigEndian = config.bigendian

Window == (offset + 1) .. (IF count < Len(container.frames) - offset
                          THEN offset + count ELSE Len(container.frames))
\* The dump prints the frames that a test with the same -o and -c would test,
\* in order, and numbers them from the start of the window.
DumpWindow ==
  /\ \A k \in DOMAIN output :
       output[k].frame = offset + k /\ output[k].index = k - 1 /\ output[k].frame \in Window
  /\ at = "exit 0" => Len(output) = Cardinality(Window)

\* Frames of the window that ask for bits, up to frame j.
Switching(j) ==
  {k \in Window : k <= j /\ container.frames[k].std
                   /\ RizinBitsOf(adapter, container.frames[k].mode, container.mach) # 0}
\* A frame is disassembled by the dump with the bits that RunFrame has for it
\* in a test of the same window, stale ones of earlier frames included.
DumpBitsAsTested ==
  \A k \in DOMAIN output :
    LET j == output[k].frame IN
    output[k].bits =
      IF Switching(j) = {} THEN RizinBitsOf(adapter, "none", container.mach)
      ELSE RizinBitsOf(adapter, container.frames[LastOf(Switching(j))].mode, container.mach)

\* Every start leads to an error, to a complete dump or to the test loop.
Starts == <>(at \in {"exit 0", "exit 1", "aborted", "loop"})

\* IsBigEndian: "true Instruction bytes are in big endian", and for SPARC
\* SelectTraceAdapter tells that from the machine.
EndiannessOfMachine ==
  at = "loop" /\ container.arch = "sparc" =>
    config.bigendian = (container.mach # frame_mach_sparc_sparclite_le)
=============================================================================
