---------------------------- MODULE StartupProofs ---------------------------
(***************************************************************************)
(* For every command line, container and number of frames: the options     *)
(* count in whatever order they come, the emulator and the dump are        *)
(* configured for the container, and the dump shows the frames that a test *)
(* of the same window goes through, with the bits it has for them.         *)
(***************************************************************************)
EXTENDS Startup, FiniteSetTheorems, TLAPS

LEMMA Inputs ==
  ASSUME line \in CommandLines, container \in Containers
  PROVE  /\ Len(line.options) \in Nat
         /\ \A k \in 1 .. Len(line.options) : line.options[k].number \in Int
         /\ Len(container.frames) \in Nat /\ container.mach \in Nat
<1>1. /\ line.options \in Seq(Range(line.options))
      /\ \A o \in Range(line.options) : o.number \in (-UT64_MAX) .. UT64_MAX
      /\ UT64_MAX \in Nat
  BY CommandLineAssumption
<1>2. ASSUME NEW k \in 1 .. Len(line.options)
      PROVE  line.options[k].number \in Int
  <2>1. line.options[k] \in Range(line.options)
    BY <1>1 DEF Range
  <2> QED
    BY <1>1, <2>1
<1>3. container.frames \in Seq(Range(container.frames)) /\ container.mach \in Nat
  BY CommandLineAssumption
<1> QED
  BY <1>1, <1>2, <1>3

LEMMA BitsType ==
  ASSUME NEW class, NEW mode, NEW mach \in Nat
  PROVE  RizinBitsOf(class, mode, mach) \in Nat
BY DEF RizinBitsOf, PPCRizinBits, Arm32RizinBits, MipsRizinBits, X86RizinBits,
       DefaultRizinBits

LEMMA StrtoullType ==
  ASSUME NEW n \in Int
  PROVE  Strtoull(n) \in 0 .. UT64_MAX
BY CommandLineAssumption DEF Strtoull

\* The configuration that the constructor and DumpTrace compute.
LEMMA ConfiguredFacts ==
  ASSUME SetupTypes
  PROVE  /\ DOMAIN Configured(config) = DOMAIN DefaultConfig
         /\ Configured(config).arch = RizinArch(adapter)
         /\ Configured(config).cpu =
              IF RizinCPU(adapter) # "" THEN RizinCPU(adapter) ELSE config.cpu
         /\ Configured(config).bits =
              IF RizinBitsOf(adapter, "none", machine) # 0
              THEN RizinBitsOf(adapter, "none", machine) ELSE config.bits
         /\ Configured(config).bits \in Nat
         /\ Configured(config).bigendian = bigEndian
<1>1. RizinBitsOf(adapter, "none", machine) \in Nat
  BY BitsType DEF SetupTypes
<1>2. DOMAIN config = {"arch", "cpu", "bits", "bigendian"}
  BY DEF SetupTypes, DefaultConfig
<1> QED
  BY <1>1, <1>2 DEF Configured, SetupTypes

LEMMA TypeInit == Init => TypeOK
<1> SUFFICES ASSUME Init
             PROVE  TypeOK
  OBVIOUS
<1>1. Len(line.options) \in Nat /\ Len(container.frames) \in Nat
  BY Inputs DEF Init
<1>2. OptionTypes
  BY <1>1, CommandLineAssumption DEF Init, OptionTypes
<1>3. SetupTypes
  BY DEF Init, SetupTypes, DefaultConfig
<1>4. DumpTypes
  BY <1>1 DEF Init, DumpTypes
<1> QED
  BY <1>2, <1>3, <1>4 DEF Init, TypeOK

Parsing ==
  ParseCount \/ ParseOffset \/ ParseFlag \/ ParseVerbose \/ ParseSkip \/ ParseHelp

\* What every option does.
LEMMA ParsingSteps ==
  ASSUME TypeOK, Parsing
  PROVE  /\ at = "parse" /\ parsed + 1 \in 1 .. Len(line.options) /\ parsed' = parsed + 1
         /\ at' \in {"parse", "exit 1", "aborted"}
         /\ line' = line /\ container' = container
         /\ UNCHANGED adapterVars /\ UNCHANGED setup /\ UNCHANGED dump
<1>1. PICK o : TakesOption(o)
  BY Zenon DEF Parsing, ParseCount, ParseOffset, ParseFlag, ParseVerbose, ParseSkip,
               ParseHelp
<1>2. Len(line.options) \in Nat /\ parsed \in 0 .. Len(line.options)
  BY Inputs DEF TypeOK, OptionTypes
<1>3. at' \in {"parse", "exit 1", "aborted"}
  BY <1>1 DEF Parsing, ParseCount, ParseOffset, ParseFlag, ParseVerbose, ParseSkip,
              ParseHelp, TakesOption
<1>4. at = "parse" /\ parsed + 1 \in 1 .. Len(line.options) /\ parsed' = parsed + 1
  BY <1>1, <1>2 DEF TakesOption
<1>5. /\ line' = line /\ container' = container
      /\ UNCHANGED adapterVars /\ UNCHANGED setup /\ UNCHANGED dump
  BY <1>1 DEF TakesOption
<1> QED
  BY <1>3, <1>4, <1>5

LEMMA TypeStep == TypeOK /\ [Next]_vars => TypeOK'
<1> SUFFICES ASSUME TypeOK, [Next]_vars
             PROVE  TypeOK'
  OBVIOUS
<1> USE DEF options, adapterVars, setup, dump
<1>0. /\ Len(line.options) \in Nat /\ Len(container.frames) \in Nat
      /\ container.mach \in Nat
  BY Inputs DEF TypeOK, OptionTypes
<1>1. CASE Parsing
  <2>1. /\ parsed + 1 \in 1 .. Len(line.options) /\ parsed' = parsed + 1
        /\ at' \in {"parse", "exit 1", "aborted"}
        /\ line' = line /\ container' = container
        /\ UNCHANGED adapterVars /\ UNCHANGED setup /\ UNCHANGED dump
    BY <1>1, ParsingSteps
  <2>2. SetupTypes' /\ DumpTypes'
    BY <2>1 DEF TypeOK, SetupTypes, DumpTypes
  <2>3. Option.number \in Int
    BY <2>1, Inputs DEF TypeOK, OptionTypes, Option
  <2>4. Strtoull(Option.number) \in 0 .. UT64_MAX
    BY <2>3, StrtoullType
  <2>5. parsed' \in 0 .. Len(line.options) /\ line' = line /\ container' = container
    <3>1. Len(line.options) \in Nat /\ parsed + 1 \in 1 .. Len(line.options)
          /\ parsed' = parsed + 1
      BY <1>0, <2>1
    <3>2. parsed' \in 0 .. Len(line.options)
      BY <3>1
    <3> QED
      BY <2>1, <3>2
  <2>6. OptionTypes'
    <3>1. CASE ParseCount
      BY <2>4, <2>5, <3>1 DEF ParseCount, TypeOK, OptionTypes
    <3>2. CASE ParseOffset
      BY <2>4, <2>5, <3>2 DEF ParseOffset, TypeOK, OptionTypes
    <3>3. CASE ParseFlag
      BY <2>5, <3>3 DEF ParseFlag, TypeOK, OptionTypes
    <3>4. CASE ParseVerbose
      <4>1. verbose' \in Nat
        <5>1. verbose \in Nat
          BY DEF TypeOK, OptionTypes
        <5>2. verbose' = verbose + 1
          BY <3>4 DEF ParseVerbose
        <5> QED
          BY <5>1, <5>2
      <4>2. count' = count /\ offset' = offset /\ chosen' = chosen
        BY <3>4 DEF ParseVerbose
      <4> QED
        BY <2>5, <4>1, <4>2 DEF TypeOK, OptionTypes
    <3>5. CASE ParseSkip
      BY <2>5, <3>5 DEF ParseSkip, TypeOK, OptionTypes
    <3>6. CASE ParseHelp
      BY <2>5, <3>6 DEF ParseHelp, TypeOK, OptionTypes
    <3> QED
      BY <1>1, <3>1, <3>2, <3>3, <3>4, <3>5, <3>6 DEF Parsing
  <2> QED
    BY <2>1, <2>2, <2>6 DEF TypeOK
<1>2. CASE ParseFile \/ Open \/ DumpEnd
  BY <1>2 DEF ParseFile, Open, DumpEnd, TypeOK, OptionTypes, SetupTypes, DumpTypes
<1>3. CASE Select
  <2>1. OptionTypes' /\ DumpTypes' /\ at' \in {"aborted", "adapt"}
    BY <1>3 DEF Select, TypeOK, OptionTypes, DumpTypes
  <2>2. SetupTypes'
    BY <1>3 DEF Select, TypeOK, SetupTypes
  <2> QED
    BY <2>1, <2>2 DEF TypeOK
<1>4. CASE Adapt
  <2>1. bigEndian' \in BOOLEAN
    <3>1. bigEndian' = ("b" \in chosen)
      BY <1>4 DEF Adapt
    <3>2. ("b" \in chosen) \in BOOLEAN
      OBVIOUS
    <3> QED
      BY <3>1, <3>2
  <2> QED
    BY <1>0, <1>4, <2>1 DEF Adapt, TypeOK, OptionTypes, SetupTypes, DumpTypes
<1>5. CASE Construct \/ DumpSetup
  <2>1. OptionTypes' /\ DumpTypes' /\ at' \in {"aborted", "seek"}
    BY <1>5 DEF Construct, DumpSetup, TypeOK, OptionTypes, DumpTypes
  <2>2. SetupTypes'
    BY <1>5, ConfiguredFacts DEF Construct, DumpSetup, TypeOK, SetupTypes
  <2> QED
    BY <2>1, <2>2 DEF TypeOK
<1>6. CASE Seek
  <2>1. OptionTypes' /\ SetupTypes' /\ at' \in {"aborted", "dump", "loop"}
    BY <1>6 DEF Seek, TypeOK, OptionTypes, SetupTypes
  <2>2. DumpTypes'
    BY <1>0, <1>6 DEF Seek, TypeOK, OptionTypes, DumpTypes
  <2> QED
    BY <2>1, <2>2 DEF TypeOK
<1>7. CASE DumpFrame
  <2> DEFINE b == RizinBitsOf(adapter, container.frames[cursor + 1].mode, machine)
  <2>1. b \in Nat
    BY BitsType DEF TypeOK, SetupTypes
  <2>2. SetupTypes'
    BY <1>7, <2>1 DEF DumpFrame, TypeOK, SetupTypes, DefaultConfig
  <2>3. /\ cursor' \in 0 .. Len(container.frames) /\ index' \in Nat
        /\ cursor + 1 \in Nat /\ index \in Nat /\ config'.bits \in Nat
    BY <1>0, <1>7, <2>2 DEF DumpFrame, DumpContinues, TypeOK, DumpTypes, SetupTypes
  <2>4. output' \in Seq([index : Nat, frame : Nat, bits : Nat])
    BY <1>7, <2>3 DEF DumpFrame, TypeOK, DumpTypes
  <2>5. OptionTypes' /\ at' = at /\ container' = container
    BY <1>7 DEF DumpFrame, TypeOK, OptionTypes
  <2> QED
    BY <2>2, <2>3, <2>4, <2>5 DEF TypeOK, DumpTypes
<1>8. CASE UNCHANGED vars
  BY <1>8 DEF vars, TypeOK, OptionTypes, SetupTypes, DumpTypes
<1> QED
  BY <1>1, <1>2, <1>3, <1>4, <1>5, <1>6, <1>7, <1>8 DEF Next, Parsing

\* The types of the options, of the configuration and of the dump's output, for
\* every command line and container.
THEOREM TypeCorrect == Spec => []TypeOK
<1> QED
  BY TypeInit, TypeStep, PTL DEF Spec

-----------------------------------------------------------------------------
\* The options.

LEMMA LastAdded ==
  ASSUME NEW n \in Nat, NEW S \in SUBSET (1 .. n)
  PROVE  LastOf(S \cup {n + 1}) = n + 1
<1>1. \A j \in S \cup {n + 1} : j <= n + 1
  OBVIOUS
<1>2. \A k \in S \cup {n + 1} : (\A j \in S \cup {n + 1} : j <= k) => k = n + 1
  OBVIOUS
<1> QED
  BY <1>1, <1>2 DEF LastOf

\* One more option: the others are as before, and this one counts.
LEMMA OptionTaken ==
  ASSUME TypeOK, NEW taken, TakesOption(taken), NEW o, NEW default
  PROVE  /\ o # taken => Given(o)' = Given(o) /\ ValueOf(o, default)' = ValueOf(o, default)
         /\ o = taken => /\ Given(o)' = Given(o) \cup {parsed + 1}
                         /\ ValueOf(o, default)' = Strtoull(Option.number)
         /\ Given(o) \subseteq 1 .. parsed /\ parsed \in Nat
<1>1. /\ parsed \in Nat /\ parsed' = parsed + 1 /\ line' = line
      /\ line.options[parsed + 1].opt = taken
  BY Inputs DEF TypeOK, OptionTypes, TakesOption, Option
<1>2. Given(o) \in SUBSET (1 .. parsed)
  BY DEF Given
<1>3. Given(o)' = IF o = taken THEN Given(o) \cup {parsed + 1} ELSE Given(o)
  <2>1. Given(o)' = {k \in 1 .. parsed + 1 : line.options[k].opt = o}
    BY <1>1 DEF Given
  <2>2. 1 .. parsed + 1 = (1 .. parsed) \cup {parsed + 1}
    BY <1>1
  <2> QED
    BY <1>1, <2>1, <2>2 DEF Given
<1>4. CASE o # taken
  BY <1>1, <1>2, <1>3, <1>4 DEF ValueOf
<1>5. CASE o = taken
  <2>1. LastOf(Given(o)') = parsed + 1
    BY <1>1, <1>2, <1>3, <1>5, LastAdded
  <2>2. ValueOf(o, default)' = Strtoull(line.options[parsed + 1].number)
    BY <1>1, <1>3, <1>5, <2>1 DEF ValueOf, LastOf
  <2> QED
    BY <1>1, <1>2, <1>3, <1>5, <2>2 DEF Option
<1> QED
  BY <1>4, <1>5

\* The conjuncts of OptionsInv.
NumbersInv == count = ValueOf("c", UT64_MAX) /\ offset = ValueOf("o", 0)
FlagsInv == chosen = {o \in BoolOptions : Given(o) # {}}
VerboseInv == verbose = Cardinality(Given("v"))
AcceptedInv ==
  at \notin Rejected =>
    /\ Given("h") = {} /\ Given("?") = {}
    /\ IF Given("s") = {} THEN skip = NotGiven
       ELSE \E k \in 1 .. parsed : Given("s") = {k} /\ skip = <<line.options[k].arg>>
    /\ at # "parse" => parsed = Len(line.options) /\ line.files = 1

LEMMA OptionsParts == OptionsInv <=> NumbersInv /\ FlagsInv /\ VerboseInv /\ AcceptedInv
BY DEF OptionsInv, NumbersInv, FlagsInv, VerboseInv, AcceptedInv

LEMMA NumbersStep == TypeOK /\ NumbersInv /\ Parsing => NumbersInv'
<1> SUFFICES ASSUME TypeOK, NumbersInv, Parsing
             PROVE  NumbersInv'
  OBVIOUS
<1>1. CASE ParseCount
  <2>1. TakesOption("c")
    BY <1>1 DEF ParseCount
  <2>2. ValueOf("c", UT64_MAX)' = Strtoull(Option.number)
    BY <2>1, OptionTaken
  <2>3. ValueOf("o", 0)' = ValueOf("o", 0)
    BY <2>1, OptionTaken
  <2> QED
    BY <1>1, <2>2, <2>3 DEF ParseCount, NumbersInv
<1>2. CASE ParseOffset
  <2>1. TakesOption("o")
    BY <1>2 DEF ParseOffset
  <2>2. ValueOf("o", 0)' = Strtoull(Option.number)
    BY <2>1, OptionTaken
  <2>3. ValueOf("c", UT64_MAX)' = ValueOf("c", UT64_MAX)
    BY <2>1, OptionTaken
  <2> QED
    BY <1>2, <2>2, <2>3 DEF ParseOffset, NumbersInv
<1>3. CASE ParseFlag \/ ParseVerbose \/ ParseSkip \/ ParseHelp
  <2>1. PICK taken \in BoolOptions \cup {"v", "s", "h", "?"} : TakesOption(taken)
    BY <1>3, Zenon DEF ParseFlag, ParseVerbose, ParseSkip, ParseHelp
  <2>2. taken # "c" /\ taken # "o"
    BY DEF BoolOptions
  <2>3. ValueOf("c", UT64_MAX)' = ValueOf("c", UT64_MAX)
    BY <2>1, <2>2, OptionTaken
  <2>4. ValueOf("o", 0)' = ValueOf("o", 0)
    BY <2>1, <2>2, OptionTaken
  <2>5. count' = count /\ offset' = offset
    BY <1>3 DEF ParseFlag, ParseVerbose, ParseSkip, ParseHelp, options
  <2> QED
    BY <2>3, <2>4, <2>5 DEF NumbersInv
<1> QED
  BY <1>1, <1>2, <1>3 DEF Parsing

LEMMA FlagsStep == TypeOK /\ FlagsInv /\ Parsing => FlagsInv'
<1> SUFFICES ASSUME TypeOK, FlagsInv, Parsing
             PROVE  FlagsInv'
  OBVIOUS
<1>1. CASE ParseFlag
  <2>1. PICK taken \in BoolOptions : /\ TakesOption(taken)
                                     /\ chosen' = chosen \cup {taken}
    BY <1>1 DEF ParseFlag
  <2>2. ASSUME NEW o \in BoolOptions
        PROVE  (Given(o) # {})' <=> Given(o) # {} \/ o = taken
    <3>1. CASE o = taken
      BY <2>1, <3>1, OptionTaken
    <3>2. CASE o # taken
      BY <2>1, <3>2, OptionTaken
    <3> QED
      BY <3>1, <3>2
  <2> QED
    BY <2>1, <2>2 DEF FlagsInv
<1>2. CASE ParseCount \/ ParseOffset \/ ParseVerbose \/ ParseSkip \/ ParseHelp
  <2>1. PICK taken \in {"c", "o", "v", "s", "h", "?"} : TakesOption(taken)
    BY <1>2, Zenon DEF ParseCount, ParseOffset, ParseVerbose, ParseSkip, ParseHelp
  <2>2. ASSUME NEW o \in BoolOptions
        PROVE  Given(o)' = Given(o)
    <3>1. o # taken
      BY DEF BoolOptions
    <3> QED
      BY <2>1, <3>1, OptionTaken
  <2>3. chosen' = chosen
    BY <1>2 DEF ParseCount, ParseOffset, ParseVerbose, ParseSkip, ParseHelp, options
  <2> QED
    BY <2>2, <2>3 DEF FlagsInv
<1> QED
  BY <1>1, <1>2 DEF Parsing

LEMMA VerboseStep == TypeOK /\ VerboseInv /\ Parsing => VerboseInv'
<1> SUFFICES ASSUME TypeOK, VerboseInv, Parsing
             PROVE  VerboseInv'
  OBVIOUS
<1>1. CASE ParseVerbose
  <2>1. TakesOption("v") /\ verbose' = verbose + 1
    BY <1>1 DEF ParseVerbose
  <2>2. /\ Given("v")' = Given("v") \cup {parsed + 1}
        /\ Given("v") \subseteq 1 .. parsed /\ parsed \in Nat
    BY <2>1, OptionTaken
  <2>3. IsFiniteSet(Given("v")) /\ parsed + 1 \notin Given("v")
    <3>1. IsFiniteSet(1 .. parsed)
      BY <2>2, FS_Interval
    <3>2. IsFiniteSet(Given("v"))
      BY <2>2, <3>1, FS_Subset
    <3> QED
      BY <2>2, <3>2
  <2>4. Cardinality(Given("v") \cup {parsed + 1}) = Cardinality(Given("v")) + 1
    BY <2>3, FS_AddElement
  <2> QED
    BY <2>1, <2>2, <2>4 DEF VerboseInv
<1>2. CASE ParseCount \/ ParseOffset \/ ParseFlag \/ ParseSkip \/ ParseHelp
  <2>1. PICK taken \in BoolOptions \cup {"c", "o", "s", "h", "?"} : TakesOption(taken)
    BY <1>2, Zenon DEF ParseCount, ParseOffset, ParseFlag, ParseSkip, ParseHelp
  <2>2. taken # "v"
    BY DEF BoolOptions
  <2>3. Given("v")' = Given("v")
    BY <2>1, <2>2, OptionTaken
  <2>4. verbose' = verbose
    BY <1>2 DEF ParseCount, ParseOffset, ParseFlag, ParseSkip, ParseHelp, options
  <2> QED
    BY <2>3, <2>4 DEF VerboseInv
<1> QED
  BY <1>1, <1>2 DEF Parsing

LEMMA AcceptedStep == TypeOK /\ AcceptedInv /\ Parsing => AcceptedInv'
<1> SUFFICES ASSUME TypeOK, AcceptedInv, Parsing, at' \notin Rejected
             PROVE  AcceptedInv'
  BY DEF AcceptedInv
<1>0. at = "parse" /\ at' = "parse" /\ line' = line
  BY ParsingSteps DEF Rejected
<1>1. Given("h") = {} /\ Given("?") = {}
  BY <1>0 DEF AcceptedInv, Rejected
<1>2. CASE ParseSkip
  <2>1. TakesOption("s") /\ skip = NotGiven /\ skip' = <<Option.arg>>
    BY <1>0, <1>2 DEF ParseSkip
  <2>2. Given("s") = {}
    BY <1>0, <2>1 DEF AcceptedInv, Rejected, NotGiven
  <2>3. Given("s")' = Given("s") \cup {parsed + 1} /\ parsed \in Nat
    BY <2>1, OptionTaken
  <2>4. parsed' = parsed + 1 /\ skip' = <<line'.options[parsed + 1].arg>>
    BY <1>0, <2>1 DEF TakesOption, Option
  <2>5. Given("h")' = Given("h") /\ Given("?")' = Given("?")
    BY <2>1, OptionTaken
  <2>6. parsed + 1 \in 1 .. parsed' /\ Given("s")' = {parsed + 1}
    BY <2>2, <2>3, <2>4
  <2> QED
    BY <1>0, <1>1, <2>4, <2>5, <2>6 DEF AcceptedInv
<1>3. CASE ParseCount \/ ParseOffset \/ ParseFlag \/ ParseVerbose
  <2>1. PICK taken \in BoolOptions \cup {"c", "o", "v"} : TakesOption(taken)
    BY <1>3, Zenon DEF ParseCount, ParseOffset, ParseFlag, ParseVerbose
  <2>2. taken # "s" /\ taken # "h" /\ taken # "?"
    BY DEF BoolOptions
  <2>3. /\ Given("h")' = Given("h") /\ Given("?")' = Given("?")
        /\ Given("s")' = Given("s") /\ parsed \in Nat
    BY <2>1, <2>2, OptionTaken
  <2>4. skip' = skip /\ parsed' = parsed + 1
    BY <1>3, <2>1 DEF ParseCount, ParseOffset, ParseFlag, ParseVerbose, TakesOption
  <2>5. CASE Given("s") = {}
    BY <1>0, <1>1, <2>3, <2>4, <2>5 DEF AcceptedInv, Rejected
  <2>6. CASE Given("s") # {}
    <3>1. PICK k \in 1 .. parsed : Given("s") = {k} /\ skip = <<line.options[k].arg>>
      BY <1>0, <2>6 DEF AcceptedInv, Rejected
    <3>2. k \in 1 .. parsed'
      BY <2>3, <2>4
    <3> QED
      BY <1>0, <1>1, <2>3, <2>4, <2>6, <3>1, <3>2 DEF AcceptedInv
  <2> QED
    BY <2>5, <2>6
<1>4. CASE ParseHelp
  BY <1>0, <1>4 DEF ParseHelp
<1> QED
  BY <1>2, <1>3, <1>4 DEF Parsing

LEMMA OptionsStep == TypeOK /\ OptionsInv /\ [Next]_vars => OptionsInv'
<1> SUFFICES ASSUME TypeOK, OptionsInv, [Next]_vars
             PROVE  OptionsInv'
  OBVIOUS
<1>1. CASE Parsing
  <2>1. NumbersInv' /\ FlagsInv' /\ VerboseInv' /\ AcceptedInv'
    BY <1>1, OptionsParts, NumbersStep, FlagsStep, VerboseStep, AcceptedStep
  <2> QED
    BY <2>1 DEF OptionsInv, NumbersInv, FlagsInv, VerboseInv, AcceptedInv
<1>2. CASE ~ Parsing
  <2>1. UNCHANGED <<line, parsed, options>>
    BY <1>2 DEF Next, Parsing, ParseFile, Open, Select, Adapt, Construct, DumpSetup, Seek,
                DumpFrame, DumpEnd, vars
  <2>2. /\ \/ at # "parse" \/ at' = "parse" \/ at' = "exit 1"
           \/ parsed = Len(line.options) /\ line.files = 1
        /\ at # "parse" => at' # "parse"
        /\ at \in Rejected => at' \in Rejected
    <3>1. CASE ParseFile
      BY <3>1 DEF ParseFile, Rejected
    <3>2. CASE Open \/ Select \/ Adapt
      BY <3>2 DEF Open, Select, Adapt, Rejected
    <3>3. CASE Construct \/ DumpSetup \/ Seek
      BY <3>3 DEF Construct, DumpSetup, Seek, Rejected
    <3>4. CASE DumpFrame \/ DumpEnd
      BY <3>4 DEF DumpFrame, DumpEnd, Rejected
    <3>5. CASE UNCHANGED vars
      BY <3>5 DEF vars
    <3> QED
      BY <1>2, <3>1, <3>2, <3>3, <3>4, <3>5 DEF Next, Parsing
  <2>3. ASSUME NEW o
        PROVE  Given(o)' = Given(o)
    BY <2>1 DEF Given
  <2>4. NumbersInv' /\ FlagsInv' /\ VerboseInv'
    BY <2>1, <2>3, OptionsParts DEF NumbersInv, FlagsInv, VerboseInv, ValueOf, options
  <2>5. AcceptedInv'
    BY <2>1, <2>2, <2>3, OptionsParts DEF AcceptedInv, Rejected, options
  <2> QED
    BY <2>4, <2>5 DEF OptionsInv, NumbersInv, FlagsInv, VerboseInv, AcceptedInv
<1> QED
  BY <1>1, <1>2

\* Options mean the same in every order and number, for every command line.
THEOREM OptionsCorrect == Spec => []OptionsInv
<1>1. Init => OptionsInv
  <2> SUFFICES ASSUME Init
               PROVE  OptionsInv
    OBVIOUS
  <2>1. ASSUME NEW o
        PROVE  Given(o) = {}
    BY DEF Init, Given
  <2>2. Cardinality(Given("v")) = 0
    BY <2>1, FS_EmptySet
  <2> QED
    BY <2>1, <2>2 DEF Init, OptionsInv, ValueOf, Rejected
<1> QED
  BY <1>1, TypeInit, TypeStep, OptionsStep, PTL DEF Spec

-----------------------------------------------------------------------------
\* What is known at each stage.
BeforeSetup == {"parse", "open", "select", "adapt", "construct", "dump setup"}
AdapterKnown ==
  /\ adapter = SelectTraceAdapter(container.arch, container.mach)
  /\ at # "adapt" => machine = container.mach /\ bigEndian = ("b" \in chosen)
SetupInv ==
  /\ at \in BeforeSetup => config = DefaultConfig
  /\ at \in {"adapt", "construct", "dump setup", "seek", "dump", "loop", "exit 0"} =>
       AdapterKnown
  /\ at = "construct" => "d" \notin chosen
  /\ at \in {"dump setup", "dump"} => "d" \in chosen

LEMMA SetupStep == TypeOK /\ SetupInv /\ [Next]_vars => SetupInv'
<1> SUFFICES ASSUME TypeOK, SetupInv, [Next]_vars
             PROVE  SetupInv'
  OBVIOUS
<1> USE DEF options, adapterVars, setup, dump, BeforeSetup, SetupInv, AdapterKnown
<1>1. CASE Parsing
  BY <1>1, ParsingSteps
<1>2. CASE ParseFile \/ Open \/ DumpEnd
  BY <1>2 DEF ParseFile, Open, DumpEnd
<1>3. CASE Select
  BY <1>3 DEF Select
<1>4. CASE Adapt
  BY <1>4 DEF Adapt
<1>5. CASE Construct \/ DumpSetup
  BY <1>5 DEF Construct, DumpSetup
<1>6. CASE Seek
  BY <1>6 DEF Seek
<1>7. CASE DumpFrame
  BY <1>7 DEF DumpFrame
<1>8. CASE UNCHANGED vars
  BY <1>8 DEF vars
<1> QED
  BY <1>1, <1>2, <1>3, <1>4, <1>5, <1>6, <1>7, <1>8 DEF Next, Parsing

LEMMA ConfiguredStep ==
  TypeOK /\ SetupInv /\ ConfiguredInv /\ [Next]_vars => ConfiguredInv'
<1> SUFFICES ASSUME TypeOK, SetupInv, ConfiguredInv, [Next]_vars
             PROVE  ConfiguredInv'
  OBVIOUS
<1> USE DEF options, adapterVars, setup, dump
<1>1. CASE Parsing
  BY <1>1, ParsingSteps DEF ConfiguredInv
<1>2. CASE ParseFile \/ Open \/ Select \/ Adapt \/ DumpFrame \/ DumpEnd
  <2>1. at' \notin {"seek", "loop"}
    BY <1>2 DEF ParseFile, Open, Select, Adapt, DumpFrame, DumpEnd
  <2> QED
    BY <2>1 DEF ConfiguredInv
<1>3. CASE Construct \/ DumpSetup
  <2>1. config' = Configured(config) /\ UNCHANGED <<line, container, options, adapterVars>>
    BY <1>3 DEF Construct, DumpSetup
  <2>2. /\ config = DefaultConfig /\ machine = container.mach
        /\ adapter = SelectTraceAdapter(container.arch, container.mach)
        /\ bigEndian = ("b" \in chosen)
    BY <1>3 DEF Construct, DumpSetup, SetupInv, AdapterKnown, BeforeSetup
  <2>3. /\ config'.arch = RizinArch(adapter) /\ config'.cpu = RizinCPU(adapter)
        /\ config'.bits = RizinBitsOf(adapter, "none", machine)
        /\ config'.bigendian = bigEndian
    BY <2>1, <2>2, ConfiguredFacts DEF TypeOK, DefaultConfig
  <2>4. at' = "seek" /\ "d" \notin chosen => regBigEndian' = bigEndian
    BY <1>3 DEF Construct, DumpSetup, SetupInv
  <2>5. at' \in {"seek", "aborted"}
    BY <1>3 DEF Construct, DumpSetup
  <2>6. container' = container /\ adapter' = adapter /\ chosen' = chosen
    BY <2>1
  <2>7. config'.bigendian = ("b" \in chosen)
    BY <2>2, <2>3
  <2>8. at' = "seek" /\ "d" \notin chosen => regBigEndian' = config'.bigendian
    BY <2>3, <2>4
  <2> QED
    BY <2>2, <2>3, <2>5, <2>6, <2>7, <2>8 DEF ConfiguredInv
<1>4. CASE Seek
  BY <1>4 DEF Seek, ConfiguredInv
<1>5. CASE UNCHANGED vars
  BY <1>5 DEF vars, ConfiguredInv
<1> QED
  BY <1>1, <1>2, <1>3, <1>4, <1>5 DEF Next, Parsing

\* The emulator and the dump's disassembler are configured for the container,
\* for every command line, architecture and machine.
THEOREM ConfiguredCorrect == Spec => []ConfiguredInv
<1>1. Init => SetupInv /\ ConfiguredInv
  BY DEF Init, SetupInv, BeforeSetup, ConfiguredInv
<1>2. TypeOK /\ SetupInv /\ ConfiguredInv /\ [Next]_vars
        => (TypeOK /\ SetupInv /\ ConfiguredInv)'
  BY TypeStep, SetupStep, ConfiguredStep
<1> QED
  BY <1>1, <1>2, TypeInit, PTL DEF Spec

-----------------------------------------------------------------------------
\* The dump.
BitsAt(j) ==
  IF Switching(j) = {} THEN RizinBitsOf(adapter, "none", container.mach)
  ELSE RizinBitsOf(adapter, container.frames[LastOf(Switching(j))].mode, container.mach)
Dumping == {"dump", "exit 0"}
DumpInv ==
  /\ at \in BeforeSetup \cup {"seek"} => index = 0
  /\ at \notin Dumping => output = <<>>
  /\ at \in Dumping =>
       /\ offset < Len(container.frames) /\ cursor = offset + index /\ index <= count
       /\ Len(output) = index
       /\ config.bits = BitsAt(cursor)
       /\ \A k \in 1 .. index :
            /\ output[k].index = k - 1 /\ output[k].frame = offset + k
            /\ output[k].bits = BitsAt(offset + k)
  /\ at = "exit 0" => cursor = Len(container.frames) \/ index = count

LEMMA Numbers ==
  ASSUME TypeOK
  PROVE  /\ Len(container.frames) \in Nat /\ offset \in Nat /\ count \in Nat
         /\ cursor \in Nat /\ cursor <= Len(container.frames) /\ index \in Nat
         /\ DOMAIN output = 1 .. Len(output) /\ Len(output) \in Nat
<1>0. OptionTypes /\ DumpTypes
  BY DEF TypeOK
<1>1. Len(container.frames) \in Nat
  BY <1>0, Inputs DEF OptionTypes
<1>2. offset \in Nat /\ count \in Nat
  BY <1>0 DEF OptionTypes
<1>3. cursor \in Nat /\ cursor <= Len(container.frames) /\ index \in Nat
  BY <1>0, <1>1 DEF DumpTypes
<1>4. DOMAIN output = 1 .. Len(output) /\ Len(output) \in Nat
  BY <1>0 DEF DumpTypes
<1> QED
  BY <1>1, <1>2, <1>3, <1>4

\* The window of the dump, as an interval.
LEMMA WindowFacts ==
  ASSUME TypeOK, offset < Len(container.frames)
  PROVE  /\ Window \subseteq 1 .. Len(container.frames)
         /\ \A j \in Nat : j \in Window <=>
              offset < j /\ j <= Len(container.frames) /\ j <= offset + count
         /\ Cardinality(Window) = IF count < Len(container.frames) - offset
                                  THEN count ELSE Len(container.frames) - offset
<1>1. /\ Len(container.frames) \in Nat /\ offset \in Nat /\ count \in Nat
  BY Numbers
<1> DEFINE last == IF count < Len(container.frames) - offset
                   THEN offset + count ELSE Len(container.frames)
<1>2. last \in Nat /\ Window = (offset + 1) .. last
  BY <1>1 DEF Window
<1>3. Cardinality(Window) = IF offset + 1 > last THEN 0 ELSE last - (offset + 1) + 1
  <2>1. offset + 1 \in Int /\ last \in Int
    BY <1>1, <1>2
  <2> QED
    BY <1>2, <2>1, FS_Interval, Zenon
<1> QED
  BY <1>1, <1>2, <1>3

LEMMA LastIsMax ==
  ASSUME NEW ks, NEW k \in ks, \A j \in ks : j \in Int /\ j <= k
  PROVE  LastOf(ks) = k
<1>1. \A m \in ks : (\A j \in ks : j <= m) => m = k
  OBVIOUS
<1> QED
  BY <1>1 DEF LastOf

\* One more frame: its bits count if it asks for any.
LEMMA NextBits ==
  ASSUME TypeOK, offset < Len(container.frames), cursor + 1 \in Window, NEW b,
         machine = container.mach,
         b = RizinBitsOf(adapter, container.frames[cursor + 1].mode, machine)
  PROVE  BitsAt(cursor + 1) =
           IF container.frames[cursor + 1].std /\ b # 0 THEN b ELSE BitsAt(cursor)
<1>1. Window \subseteq Nat /\ cursor \in Nat
  BY WindowFacts, Numbers
<1>2. CASE container.frames[cursor + 1].std /\ b # 0
  <2>1. cursor + 1 \in Switching(cursor + 1)
    BY <1>1, <1>2 DEF Switching
  <2>2. \A j \in Switching(cursor + 1) : j \in Int /\ j <= cursor + 1
    BY <1>1 DEF Switching
  <2>3. LastOf(Switching(cursor + 1)) = cursor + 1
    BY <2>1, <2>2, LastIsMax
  <2> QED
    BY <1>2, <2>1, <2>3 DEF BitsAt
<1>3. CASE ~ (container.frames[cursor + 1].std /\ b # 0)
  <2>1. cursor + 1 \notin Switching(cursor + 1)
    BY <1>3 DEF Switching
  <2>2. ASSUME NEW k \in Window
        PROVE  k \in Switching(cursor + 1) <=> k \in Switching(cursor)
    <3>1. k \in Nat
      BY <1>1
    <3>2. CASE k = cursor + 1
      <4>1. ~ (k <= cursor)
        BY <1>1, <3>2
      <4> QED
        BY <2>1, <3>2, <4>1 DEF Switching
    <3>3. CASE k # cursor + 1
      <4>1. k <= cursor + 1 <=> k <= cursor
        BY <1>1, <3>1, <3>3
      <4> QED
        BY <4>1 DEF Switching
    <3> QED
      BY <3>2, <3>3
  <2>3. Switching(cursor + 1) = Switching(cursor)
    <3>1. Switching(cursor + 1) \subseteq Window /\ Switching(cursor) \subseteq Window
      BY DEF Switching
    <3> QED
      BY <2>2, <3>1, Zenon
  <2> QED
    BY <1>3, <2>3 DEF BitsAt
<1> QED
  BY <1>2, <1>3

\* Before the first frame, the bits are those of the machine.
LEMMA FirstBits ==
  ASSUME TypeOK, offset < Len(container.frames)
  PROVE  BitsAt(offset) = RizinBitsOf(adapter, "none", container.mach)
<1>1. Window \subseteq 1 .. Len(container.frames) /\ Len(container.frames) \in Nat
      /\ offset \in Nat
  BY WindowFacts, Numbers
<1>2. \A j \in Window : offset < j
  BY <1>1, WindowFacts
<1>3. \A j \in Window : ~ (j <= offset)
  BY <1>1, <1>2
<1>4. Switching(offset) = {}
  BY <1>3 DEF Switching
<1> QED
  BY <1>4 DEF BitsAt

\* Whoever stops before the end of the trace and before the limit has neither.
LEMMA LimitReached ==
  ASSUME NEW c \in Nat, NEW n \in Nat, NEW i \in Nat, NEW m \in Nat,
         c <= n, i <= m, ~ (c < n /\ i < m)
  PROVE  c = n \/ i = m
OBVIOUS

\* At either end, what was printed fills the window.
LEMMA WindowFilled ==
  ASSUME NEW c \in Nat, NEW n \in Nat, NEW i \in Nat, NEW m \in Nat, NEW o \in Nat,
         o < n, c = o + i, c <= n, i <= m, c = n \/ i = m
  PROVE  i = IF m < n - o THEN m ELSE n - o
OBVIOUS

LEMMA DumpStep ==
  TypeOK /\ SetupInv /\ ConfiguredInv /\ DumpInv /\ [Next]_vars => DumpInv'
<1> SUFFICES ASSUME TypeOK, SetupInv, ConfiguredInv, DumpInv, [Next]_vars
             PROVE  DumpInv'
  OBVIOUS
<1> USE DEF options, adapterVars, setup, dump, BeforeSetup, Dumping
<1>0. /\ Len(container.frames) \in Nat /\ offset \in Nat /\ count \in Nat
      /\ cursor \in Nat /\ cursor <= Len(container.frames) /\ index \in Nat
  BY Numbers
<1>1. CASE Parsing
  <2>1. at = "parse" /\ at' \in {"parse", "exit 1", "aborted"} /\ UNCHANGED dump
    BY <1>1, ParsingSteps
  <2> QED
    BY <2>1 DEF DumpInv
<1>2. CASE ParseFile \/ Open \/ Select \/ Adapt
  BY <1>2 DEF ParseFile, Open, Select, Adapt, DumpInv
<1>3. CASE Construct \/ DumpSetup
  BY <1>3 DEF Construct, DumpSetup, DumpInv
<1>4. CASE Seek
  <2>1. CASE at' \notin Dumping
    BY <1>4, <2>1 DEF Seek, DumpInv
  <2>2. CASE at' \in Dumping
    <3>1. /\ at = "seek" /\ at' = "dump" /\ offset < Len(container.frames)
          /\ cursor' = offset /\ UNCHANGED <<container, count, offset, adapter, config,
                                             index, output>>
      BY <1>4, <2>2 DEF Seek
    <3>2. index = 0 /\ output = <<>>
      BY <3>1 DEF DumpInv
    <3>3. config.bits = RizinBitsOf(adapter, "none", container.mach)
      BY <3>1 DEF ConfiguredInv, SetupInv, AdapterKnown
    <3>4. config'.bits = BitsAt(offset)
      BY <3>1, <3>3, FirstBits
    <3>5. BitsAt(cursor)' = BitsAt(offset)
      BY <3>1 DEF BitsAt, Switching, Window
    <3>6. cursor' = offset' + index' /\ index' <= count' /\ Len(output') = index'
          /\ 1 .. index' = {}
      BY <1>0, <3>1, <3>2
    <3> QED
      BY <3>1, <3>2, <3>4, <3>5, <3>6 DEF DumpInv
  <2> QED
    BY <2>1, <2>2
<1>5. CASE DumpFrame
  <2> DEFINE f == container.frames[cursor + 1]
             b == RizinBitsOf(adapter, f.mode, machine)
  <2>1. /\ at = "dump" /\ cursor < Len(container.frames) /\ index < count
        /\ cursor' = cursor + 1 /\ index' = index + 1
        /\ output' = Append(output, [index |-> index, frame |-> cursor + 1,
                                     bits |-> config'.bits])
        /\ UNCHANGED <<container, at, count, offset, adapter, machine>>
    BY <1>5 DEF DumpFrame, DumpContinues
  <2>2. /\ offset < Len(container.frames) /\ cursor = offset + index
        /\ Len(output) = index /\ config.bits = BitsAt(cursor)
        /\ machine = container.mach
    BY <2>1 DEF DumpInv, SetupInv, AdapterKnown
  <2>3. cursor + 1 \in Window
    BY <1>0, <2>1, <2>2, WindowFacts
  <2>4. config'.bits = IF f.std /\ b # 0 THEN b ELSE config.bits
    BY <1>5 DEF DumpFrame, TypeOK, SetupTypes, DefaultConfig
  <2>5. config'.bits = BitsAt(cursor + 1)
    BY <2>2, <2>3, <2>4, NextBits
  <2>6. ASSUME NEW j
        PROVE  BitsAt(j)' = BitsAt(j)
    BY <2>1 DEF BitsAt, Switching, Window
  <2>7. /\ Len(output') = index + 1
        /\ \A k \in 1 .. index : output'[k] = output[k]
        /\ output'[index + 1] = [index |-> index, frame |-> cursor + 1,
                                 bits |-> config'.bits]
    BY <1>0, <2>1, <2>2 DEF TypeOK, DumpTypes
  <2>8. ASSUME NEW k \in 1 .. index'
        PROVE  /\ output'[k].index = k - 1 /\ output'[k].frame = offset + k
               /\ output'[k].bits = BitsAt(offset + k)
    <3>1. CASE k \in 1 .. index
      BY <2>1, <2>7, <3>1 DEF DumpInv
    <3>2. CASE k = index + 1
      BY <1>0, <2>2, <2>5, <2>7, <3>2
    <3>3. k \in 1 .. index \/ k = index + 1
      BY <1>0, <2>1
    <3> QED
      BY <3>1, <3>2, <3>3
  <2>9. /\ offset' < Len(container'.frames) /\ cursor' = offset' + index'
        /\ index' <= count' /\ Len(output') = index'
    BY <1>0, <2>1, <2>2, <2>7
  <2>10. config'.bits = BitsAt(cursor)'
    BY <2>1, <2>5, <2>6 DEF BitsAt, Switching, Window
  <2> QED
    BY <2>1, <2>6, <2>8, <2>9, <2>10 DEF DumpInv
<1>6. CASE DumpEnd
  <2>1. /\ at = "dump" /\ at' = "exit 0"
        /\ ~ (cursor < Len(container.frames) /\ index < count)
        /\ UNCHANGED <<container, count, offset, adapter, config, cursor, index, output>>
    BY <1>6 DEF DumpEnd, DumpContinues
  <2>2. cursor = Len(container.frames) \/ index = count
    <3>1. index <= count
      BY <2>1 DEF DumpInv
    <3>2. ~ (cursor < Len(container.frames) /\ index < count)
      BY <2>1
    <3> QED
      BY ONLY <1>0, <3>1, <3>2, LimitReached
  <2>3. ASSUME NEW j
        PROVE  BitsAt(j)' = BitsAt(j)
    BY <2>1 DEF BitsAt, Switching, Window
  <2> QED
    BY <2>1, <2>2, <2>3 DEF DumpInv
<1>7. CASE UNCHANGED vars
  <2>1. ASSUME NEW j
        PROVE  BitsAt(j)' = BitsAt(j)
    BY <1>7 DEF vars, BitsAt, Switching, Window
  <2> QED
    BY <1>7, <2>1 DEF vars, DumpInv
<1> QED
  BY <1>1, <1>2, <1>3, <1>4, <1>5, <1>6, <1>7 DEF Next, Parsing

LEMMA DumpInvariant == Spec => [](TypeOK /\ DumpInv)
<1>1. Init => SetupInv /\ ConfiguredInv /\ DumpInv
  BY DEF Init, SetupInv, BeforeSetup, ConfiguredInv, DumpInv, Dumping
<1>2. TypeOK /\ SetupInv /\ ConfiguredInv /\ DumpInv /\ [Next]_vars
        => (TypeOK /\ SetupInv /\ ConfiguredInv /\ DumpInv)'
  BY TypeStep, SetupStep, ConfiguredStep, DumpStep
<1> QED
  BY <1>1, <1>2, TypeInit, PTL DEF Spec

\* The dump prints the window that a test would go through, numbered from its
\* start, for every trace, offset and count.
THEOREM DumpWindowCorrect == Spec => []DumpWindow
<1>1. TypeOK /\ DumpInv => DumpWindow
  <2> SUFFICES ASSUME TypeOK, DumpInv
               PROVE  DumpWindow
    OBVIOUS
  <2>0. /\ Len(container.frames) \in Nat /\ offset \in Nat /\ count \in Nat
        /\ cursor \in Nat /\ cursor <= Len(container.frames) /\ index \in Nat
        /\ DOMAIN output = 1 .. Len(output)
    BY Numbers
  <2>1. CASE at \notin Dumping
    <3>1. output = <<>>
      BY <2>1 DEF DumpInv
    <3>2. DOMAIN output = {}
      BY <3>1
    <3> QED
      BY <2>1, <3>2 DEF DumpWindow, Dumping
  <2>2. CASE at \in Dumping
    <3>1. /\ offset < Len(container.frames) /\ cursor = offset + index /\ index <= count
          /\ DOMAIN output = 1 .. index /\ Len(output) = index
      BY <2>0, <2>2 DEF DumpInv
    <3>2. ASSUME NEW k \in DOMAIN output
          PROVE  output[k].frame = offset + k /\ output[k].index = k - 1
                 /\ output[k].frame \in Window
      <4>1. k \in 1 .. index
        BY <3>1
      <4>2. output[k].frame = offset + k /\ output[k].index = k - 1
        BY <2>2, <4>1 DEF DumpInv
      <4>3. offset + k \in Window
        BY <2>0, <3>1, <4>1, WindowFacts
      <4> QED
        BY <4>2, <4>3
    <3>3. at = "exit 0" => Len(output) = Cardinality(Window)
      <4>1. Cardinality(Window) = IF count < Len(container.frames) - offset
                                  THEN count ELSE Len(container.frames) - offset
        BY <3>1, WindowFacts
      <4>2. at = "exit 0" => cursor = Len(container.frames) \/ index = count
        BY DEF DumpInv
      <4>3. CASE cursor = Len(container.frames) \/ index = count
        <5>1. index = IF count < Len(container.frames) - offset
                      THEN count ELSE Len(container.frames) - offset
          BY ONLY <2>0, <3>1, <4>3, WindowFilled
        <5> QED
          BY ONLY <3>1, <4>1, <5>1
      <4> QED
        BY <4>2, <4>3
    <3> QED
      BY <3>2, <3>3 DEF DumpWindow
  <2> QED
    BY <2>1, <2>2
<1> QED
  BY <1>1, DumpInvariant, PTL

\* Every frame is disassembled with the bits that a test of the window would
\* have for it, whatever modes the frames before it had.
THEOREM DumpBitsCorrect == Spec => []DumpBitsAsTested
<1>1. TypeOK /\ DumpInv => DumpBitsAsTested
  <2> SUFFICES ASSUME TypeOK, DumpInv, NEW k \in DOMAIN output
               PROVE  output[k].bits = BitsAt(output[k].frame)
    BY DEF DumpBitsAsTested, BitsAt
  <2>1. at \in Dumping
    <3>1. output # <<>>
      OBVIOUS
    <3> QED
      BY <3>1 DEF DumpInv
  <2>2. DOMAIN output = 1 .. index
    BY <2>1, Numbers DEF DumpInv
  <2> QED
    BY <2>1, <2>2 DEF DumpInv
<1> QED
  BY <1>1, DumpInvariant, PTL

-----------------------------------------------------------------------------
(***************************************************************************)
(* Why a start gets somewhere: main goes through its stages in one order,  *)
(* an option is parsed once, and a frame is dumped once.                   *)
(***************************************************************************)
StagesFrom(stage) ==
  CASE stage = "parse"      -> 6
    [] stage = "open"       -> 5
    [] stage = "select"     -> 4
    [] stage = "adapt"      -> 3
    [] stage = "construct"  -> 2
    [] stage = "dump setup" -> 2
    [] stage = "seek"       -> 1
    [] OTHER                -> 0
StagesLeft == StagesFrom(at)
StageLoopLeft ==
  CASE at = "parse" -> Len(line.options) - parsed
    [] at = "dump"  -> (Len(container.frames) - cursor) + 1
    [] OTHER        -> 0

\* The stages in numbers.
LEMMA StageOrder ==
  /\ StagesFrom("parse") = 6 /\ StagesFrom("open") = 5 /\ StagesFrom("select") = 4
  /\ StagesFrom("adapt") = 3 /\ StagesFrom("construct") = 2
  /\ StagesFrom("dump setup") = 2 /\ StagesFrom("seek") = 1
  /\ \A s \in {"dump", "loop", "exit 0", "exit 1", "aborted"} : StagesFrom(s) = 0
BY DEF StagesFrom

LEMMA StartProgressStep ==
  ASSUME TypeOK, Next
  PROVE  \/ StagesLeft' < StagesLeft
         \/ /\ StagesLeft' = StagesLeft
            /\ 0 <= StageLoopLeft' /\ StageLoopLeft' < StageLoopLeft
<1>1. /\ Len(line.options) \in Nat /\ parsed \in 0 .. Len(line.options)
      /\ Len(container.frames) \in Nat /\ cursor \in 0 .. Len(container.frames)
  BY Inputs DEF TypeOK, OptionTypes, DumpTypes
<1>2. CASE Parsing
  <2>1. /\ at = "parse" /\ parsed < Len(line.options) /\ parsed' = parsed + 1
        /\ at' \in {"parse", "exit 1", "aborted"} /\ UNCHANGED line
    BY <1>2 DEF Parsing, ParseCount, ParseOffset, ParseFlag, ParseVerbose,
                ParseSkip, ParseHelp, TakesOption
  <2>2. CASE at' = "parse"
    <3>1. /\ StageLoopLeft = Len(line.options) - parsed
          /\ StageLoopLeft' = Len(line.options) - (parsed + 1)
      BY ONLY <2>1, <2>2 DEF StageLoopLeft
    <3>2. StagesLeft' = StagesLeft
      BY ONLY <2>1, <2>2 DEF StagesLeft
    <3>3. parsed < Len(line.options)
      BY ONLY <2>1, Zenon
    <3> QED
      BY ONLY <1>1, <3>1, <3>2, <3>3
  <2>3. CASE at' \in {"exit 1", "aborted"}
    <3>1. StagesLeft = 6 /\ StagesLeft' = 0
      BY ONLY <2>1, <2>3, StageOrder, Zenon DEF StagesLeft
    <3> QED
      BY ONLY <3>1
  <2> QED
    BY <2>1, <2>2, <2>3
<1>3. CASE ParseFile \/ Open \/ Select \/ Adapt \/ Construct \/ DumpSetup \/ Seek
  <2>1. \/ at = "parse" /\ at' \in {"open", "exit 1"}
        \/ at = "open" /\ at' \in {"select", "aborted"}
        \/ at = "select" /\ at' \in {"adapt", "aborted"}
        \/ at = "adapt" /\ at' \in {"construct", "dump setup"}
        \/ at \in {"construct", "dump setup"} /\ at' \in {"seek", "aborted"}
        \/ at = "seek" /\ at' \in {"dump", "loop", "aborted"}
    BY <1>3 DEF ParseFile, Open, Select, Adapt, Construct, DumpSetup, Seek
  <2>2. \/ StagesLeft = 6 /\ StagesLeft' \in {5, 0}
        \/ StagesLeft = 5 /\ StagesLeft' \in {4, 0}
        \/ StagesLeft = 4 /\ StagesLeft' \in {3, 0}
        \/ StagesLeft = 3 /\ StagesLeft' = 2
        \/ StagesLeft = 2 /\ StagesLeft' \in {1, 0}
        \/ StagesLeft = 1 /\ StagesLeft' = 0
    BY ONLY <2>1, StageOrder, Zenon DEF StagesLeft
  <2> QED
    BY ONLY <2>2
<1>4. CASE DumpFrame
  <2>1. /\ at = "dump" /\ at' = "dump" /\ cursor < Len(container.frames)
        /\ cursor' = cursor + 1 /\ UNCHANGED container
    BY <1>4 DEF DumpFrame, DumpContinues
  <2>2. /\ StageLoopLeft = (Len(container.frames) - cursor) + 1
        /\ StageLoopLeft' = (Len(container.frames) - (cursor + 1)) + 1
    BY ONLY <2>1 DEF StageLoopLeft
  <2>3. StagesLeft' = StagesLeft
    BY ONLY <2>1 DEF StagesLeft
  <2> QED
    BY <1>1, <2>1, <2>2, <2>3
<1>5. CASE DumpEnd
  <2>1. at = "dump" /\ at' = "exit 0"
    BY <1>5 DEF DumpEnd
  <2>2. StagesLeft = 0 /\ StagesLeft' = 0
    BY ONLY <2>1, StageOrder, Zenon DEF StagesLeft
  <2>3. /\ StageLoopLeft = (Len(container.frames) - cursor) + 1
        /\ StageLoopLeft' = 0
    BY ONLY <2>1, Zenon DEF StageLoopLeft
  <2> QED
    BY ONLY <1>1, <2>2, <2>3
<1> QED
  BY <1>2, <1>3, <1>4, <1>5 DEF Next, Parsing

\* For every command line and container, each step of main before its loop ends
\* a stage for a later one, or uses up an option or a frame to dump.
THEOREM StartProgress ==
  Spec => [][\/ StagesLeft' < StagesLeft
             \/ /\ StagesLeft' = StagesLeft
                /\ 0 <= StageLoopLeft' /\ StageLoopLeft' < StageLoopLeft]_vars
<1>1. TypeOK /\ [Next]_vars
        => [\/ StagesLeft' < StagesLeft
            \/ /\ StagesLeft' = StagesLeft
               /\ 0 <= StageLoopLeft' /\ StageLoopLeft' < StageLoopLeft]_vars
  BY StartProgressStep
<1> QED
  BY <1>1, TypeCorrect, PTL DEF Spec

-----------------------------------------------------------------------------
\* How far the endianness is from the machine (EndiannessOfMachine): for SPARC
\* the option decides, so the emulator has the endianness of the machine just
\* when -b is given for a big-endian machine and left out for sparclite_le.
THEOREM EndiannessByOption ==
  Spec => [](at = "loop" /\ container.arch = "sparc" =>
               (EndiannessOfMachine <=>
                  ("b" \in chosen) = (container.mach # frame_mach_sparc_sparclite_le)))
<1>1. ConfiguredInv /\ at = "loop" /\ container.arch = "sparc" =>
        (EndiannessOfMachine <=>
           ("b" \in chosen) = (container.mach # frame_mach_sparc_sparclite_le))
  BY DEF ConfiguredInv, EndiannessOfMachine
<1> QED
  BY <1>1, ConfiguredCorrect, PTL
=============================================================================
