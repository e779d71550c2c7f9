------------------------------ MODULE TestLoop ------------------------------
(***************************************************************************)
(* The loop of main (main.cpp) that hands the frames of a trace to         *)
(* RunFrame: the window -o/-c, one frame of lookahead for the next program *)
(* counter, the statistics, the set of covered instructions, the options   *)
(* that stop early and the interrupt of the user.  RunFrame returns any    *)
(* result here, with the instruction id it may hand out before.            *)
(*                                                                         *)
(* log is a history variable: the calls made, with their results.          *)
(***************************************************************************)
EXTENDS Integers, Sequences, FiniteSets, Functions

CONSTANTS
  Traces,    \* sequences of frames, of which std and addr matter here
  Froms,     \* -o: index of the first frame, from 0
  Limits,    \* -c: number of frames, UT64_MAX unless given
  FlagSets,  \* sets of the options "e", "u", "r", "m"
  InsnIds    \* RzAnalysisOp.id; 0 when a plugin does not set it

NoPc == -1
None == 0    \* nullptr; frames are known by their position from 1 on
Returned == {"Success", "Skipped", "InvalidOp", "InvalidIL", "VMRuntimeError",
             "PostStateMismatch", "Unimplemented"}
FrameCheckResult == Returned \cup {"Unkown"}

ASSUME TraceAssumption ==
  /\ \A t \in Traces :
       t \in Seq(Range(t)) /\ \A f \in Range(t) : f.std \in BOOLEAN /\ f.addr \in Nat
  /\ Froms \subseteq Nat /\ Limits \subseteq Nat /\ InsnIds \subseteq Nat
  /\ \A f \in FlagSets : f \subseteq {"e", "u", "r", "m"}

VARIABLES
  trace, from, limit, flags,      \* the trace file and the command line
  cursor,                         \* frames that the reader is past
  at, cur, nxt, nextPc, index,    \* control, the frames, arguments of RunFrame
  res, testedInsnId,              \* what RunFrame gives back
  offset, count, total, stats, covered,
  interrupted,                    \* rz_cons_is_breaked()
  log

inputs == <<trace, from, limit, flags>>
window == <<offset, count, total>>
frameVars == <<cursor, cur, nxt, nextPc, index>>
report == <<stats, covered, log>>
returned == <<res, testedInsnId>>
vars == <<inputs, at, frameVars, returned, window, report, interrupted>>

Init ==
  /\ trace \in Traces /\ from \in Froms /\ limit \in Limits /\ flags \in FlagSets
  /\ at = "start"
  /\ cursor = 0 /\ cur = None /\ nxt = None /\ nextPc = NoPc /\ index = 0
  /\ res = "Unkown" /\ testedInsnId = 0
  /\ offset = from /\ count = limit /\ total = 0
  /\ stats = [r \in FrameCheckResult |-> 0] /\ covered = {} /\ log = <<>>
  /\ interrupted = FALSE

\* Mutant: -o is not checked against the trace.
SeekAnywhere ==
  /\ at = "start"
  /\ at' = "loop" /\ cursor' = from + 1 /\ cur' = from + 1
  /\ UNCHANGED <<inputs, nxt, nextPc, index, returned, window, report, interrupted>>
\* trace.seek(offset) and the first get_frame.  The reader throws when the
\* trace has no such frame, and nothing catches it.
Seek ==
  /\ at = "start"
  /\ IF from < Len(trace)
     THEN at' = "loop" /\ cursor' = from + 1 /\ cur' = from + 1
     ELSE at' = "aborted" /\ UNCHANGED <<cursor, cur>>
  /\ UNCHANGED <<inputs, nxt, nextPc, index, returned, window, report, interrupted>>

Continue == cur # None /\ ~ interrupted /\ count > 0

\* Mutant: reads two frames ahead.
FetchTwo ==
  /\ at = "loop" /\ Continue
  /\ IF cursor + 1 < Len(trace)
     THEN nxt' = cursor + 2 /\ cursor' = cursor + 2
     ELSE nxt' = None /\ UNCHANGED cursor
  /\ nextPc' = IF nxt' # None /\ trace[nxt'].std THEN trace[nxt'].addr ELSE NoPc
  /\ index' = offset /\ offset' = offset + 1
  /\ at' = "run"
  /\ UNCHANGED <<inputs, cur, returned, count, total, report, interrupted>>
\* Mutant: takes the expected PC from the current frame.
FetchOwnPc ==
  /\ at = "loop" /\ Continue
  /\ IF cursor < Len(trace)
     THEN nxt' = cursor + 1 /\ cursor' = cursor + 1
     ELSE nxt' = None /\ UNCHANGED cursor
  /\ nextPc' = IF trace[cur].std THEN trace[cur].addr ELSE NoPc
  /\ index' = offset /\ offset' = offset + 1
  /\ at' = "run"
  /\ UNCHANGED <<inputs, cur, returned, count, total, report, interrupted>>
\* Reads one frame ahead, and calls RunFrame for the current one.
Fetch ==
  /\ at = "loop" /\ Continue
  /\ IF cursor < Len(trace)
     THEN nxt' = cursor + 1 /\ cursor' = cursor + 1
     ELSE nxt' = None /\ UNCHANGED cursor
  /\ nextPc' = IF nxt' # None /\ trace[nxt'].std THEN trace[nxt'].addr ELSE NoPc
  /\ index' = offset /\ offset' = offset + 1
  /\ at' = "run"
  /\ UNCHANGED <<inputs, cur, returned, count, total, report, interrupted>>

\* RunFrame sets *tested_insn_id once the instruction is lifted, and leaves
\* the id of an earlier frame there otherwise.
NeverLifted == {"Skipped"}
MaybeLifted == {"InvalidOp", "Unimplemented"}
RunFrame ==
  /\ at = "run"
  /\ res' \in Returned
  /\ \/ res' \in NeverLifted \cup MaybeLifted /\ UNCHANGED testedInsnId
     \/ res' \notin NeverLifted /\ testedInsnId' \in InsnIds
  /\ at' = "account"
  /\ UNCHANGED <<inputs, frameVars, window, report, interrupted>>

StopsAt(r) ==
  \/ "e" \in flags /\ r \notin {"Success", "Skipped"}
  \/ "u" \in flags /\ r = "InvalidOp"
  \/ "r" \in flags /\ r = "VMRuntimeError"
  \/ "m" \in flags /\ r = "PostStateMismatch"

Accounts(ids, tallied, step, stop) ==
  /\ at = "account"
  /\ covered' = covered \cup ids
  /\ stats' = IF tallied THEN [stats EXCEPT ![res] = @ + 1] ELSE stats
  /\ count' = count - step /\ total' = total + 1
  /\ cur' = nxt
  /\ at' = IF stop THEN "done" ELSE "loop"
  /\ log' = Append(log, [index |-> index, frame |-> cur, nextPc |-> nextPc,
                         res |-> res])
  /\ UNCHANGED <<inputs, cursor, nxt, nextPc, index, returned, offset, interrupted>>
\* Mutants: only successes are covered, skipped frames are not counted, the
\* limit is not counted down, no option stops the loop.
AccountCoversSuccess ==
  Accounts(IF res = "Success" THEN {testedInsnId} \ {0} ELSE {}, TRUE, 1, StopsAt(res))
AccountSkipsSkipped == Accounts({testedInsnId} \ {0}, res # "Skipped", 1, StopsAt(res))
AccountNoLimit == Accounts({testedInsnId} \ {0}, TRUE, 0, StopsAt(res))
AccountNeverStops == Accounts({testedInsnId} \ {0}, TRUE, 1, FALSE)
Account == Accounts({testedInsnId} \ {0}, TRUE, 1, StopsAt(res))

\* Mutant: only the end of the trace ends the loop.
LeaveAtEnd ==
  /\ at = "loop" /\ cur = None
  /\ at' = "done"
  /\ UNCHANGED <<inputs, frameVars, returned, window, report, interrupted>>
Leave ==
  /\ at = "loop" /\ ~ Continue
  /\ at' = "done"
  /\ UNCHANGED <<inputs, frameVars, returned, window, report, interrupted>>

\* The user interrupts, at any moment.
Interrupt ==
  /\ ~ interrupted
  /\ interrupted' = TRUE
  /\ UNCHANGED <<inputs, at, frameVars, returned, window, report>>

MainStep == Seek \/ Fetch \/ RunFrame \/ Account \/ Leave
Next == MainStep \/ Interrupt

Spec == Init /\ [][Next]_vars
\* main and RunFrame keep running; users need not act.
FairSpec == Spec /\ WF_vars(MainStep)

-----------------------------------------------------------------------------
Count(r) == Cardinality({k \in DOMAIN log : log[k].res = r})
StatsSum ==
  stats["Success"] + stats["Skipped"] + stats["InvalidOp"] + stats["InvalidIL"]
    + stats["VMRuntimeError"] + stats["PostStateMismatch"]
    + stats["Unimplemented"] + stats["Unkown"]

\* Types of the variables of main; no position leaves the trace.
TypeOK ==
  /\ trace \in Traces /\ from \in Froms /\ limit \in Limits /\ flags \in FlagSets
  /\ at \in {"start", "loop", "run", "account", "done", "aborted"}
  /\ cursor \in 0 .. Len(trace)
  /\ cur \in 0 .. Len(trace) /\ nxt \in 0 .. Len(trace)
  /\ nextPc \in Nat \cup {NoPc} /\ index \in Nat
  /\ res \in FrameCheckResult /\ testedInsnId \in InsnIds \cup {0}
  /\ offset \in Nat /\ count \in Nat /\ total \in Nat
  /\ stats \in [FrameCheckResult -> Nat]
  /\ covered \subseteq InsnIds \ {0}
  /\ interrupted \in BOOLEAN
  /\ log \in Seq([index : Nat, frame : Nat, nextPc : Nat \cup {NoPc},
                  res : FrameCheckResult])

\* The lookahead never gets out of step with the numbers main reports: the
\* frame under test is the one at `offset`, the reader is just past the
\* lookahead, and the expected next PC is the address of the frame after it.
PipelineInv ==
  /\ at = "start" => total = 0 /\ offset = from
  /\ at = "loop" =>
       IF cur = None THEN offset = Len(trace)
       ELSE cur = offset + 1 /\ cursor = cur
  /\ at \in {"run", "account"} =>
       /\ cur = index + 1 /\ offset = index + 1 /\ count > 0
       /\ nxt = IF cur < Len(trace) THEN cur + 1 ELSE None
       /\ nxt # None => cursor = nxt
       /\ nextPc = IF nxt # None /\ trace[nxt].std THEN trace[nxt].addr ELSE NoPc

\* The percentages add up: every frame of the window gets one result, counted
\* once, and the loop never runs past its window.
AccountingInv ==
  /\ StatsSum = total
  /\ total + count = limit
  /\ offset = from + total + (IF at \in {"run", "account"} THEN 1 ELSE 0)

\* The calls made are the frames from -o on, without gap or repetition, each
\* with its own index and with the address of its successor.
CallsInv ==
  /\ Len(log) = total
  /\ \A k \in 1 .. total :
       LET f == from + k IN
       /\ log[k].index = f - 1 /\ log[k].frame = f
       /\ log[k].nextPc = IF f < Len(trace) /\ trace[f + 1].std
                          THEN trace[f + 1].addr ELSE NoPc

\* Each line of the report counts the frames with that result.
TallyInv == \A r \in FrameCheckResult : stats[r] = Count(r)

\* Left alone, the loop tests the whole window and nothing but it, unless an
\* option stops it at the last frame tested; it never goes on after such one.
WindowInv ==
  /\ \A k \in 1 .. (Len(log) - 1) : ~ StopsAt(log[k].res)
  /\ at \in {"loop", "run", "account"} /\ log # <<>> =>
       ~ StopsAt(log[Len(log)].res)
  /\ at = "done" =>
       \/ interrupted
       \/ log # <<>> /\ StopsAt(log[Len(log)].res)
       \/ total = limit
       \/ from + total = Len(trace)

\* tested_insn_id is never cleared: a frame that is not lifted finds the id of
\* an earlier one, which is then already covered, so "Unique instructions
\* emulated" counts no instruction twice and misses none.
CoverageInv ==
  at # "account" => testedInsnId \in covered \cup {0}

\* main ends, for every trace and every combination of options.
Ends == <>(at \in {"done", "aborted"})

\* The help text: -u "fail early/stop at the first unlifted execption", and
\* Unimplemented is what the report calls "unlifted".
StopsAtUnlifted ==
  "u" \in flags =>
    \A k \in DOMAIN log : log[k].res = "Unimplemented" => k = Len(log)
=============================================================================
