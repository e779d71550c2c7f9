--------------------------- MODULE TestLoopProofs ---------------------------
(***************************************************************************)
(* The bookkeeping of main is right for every trace, window, combination   *)
(* of options and sequence of results.                                     *)
(***************************************************************************)
EXTENDS TestLoop, FiniteSetTheorems, TLAPS

\* TypeOK and PipelineInv depend on each other: the lookahead stays in the
\* trace because it follows the reader, the count stays natural because the
\* loop tests it.
TypedPipeline == TypeOK /\ PipelineInv

LEMMA TraceFacts ==
  ASSUME TypeOK
  PROVE  /\ Len(trace) \in Nat /\ from \in Nat /\ limit \in Nat
         /\ \A k \in 1 .. Len(trace) : trace[k].addr \in Nat
<1>1. trace \in Seq(Range(trace)) /\ \A f \in Range(trace) : f.addr \in Nat
  BY TraceAssumption DEF TypeOK
<1>2. Len(trace) \in Nat /\ \A k \in 1 .. Len(trace) : trace[k] \in Range(trace)
  BY <1>1
<1> QED
  BY <1>1, <1>2, TraceAssumption DEF TypeOK

LEMMA PipelineInit == Init => TypedPipeline
<1> SUFFICES ASSUME Init
             PROVE  TypeOK /\ PipelineInv
  BY DEF TypedPipeline
<1>1. Len(trace) \in Nat /\ from \in Nat /\ limit \in Nat
  BY TraceAssumption DEF Init
<1>2. stats \in [FrameCheckResult -> Nat] /\ res \in FrameCheckResult
  BY DEF Init, FrameCheckResult
<1>3. /\ cursor \in 0 .. Len(trace) /\ cur \in 0 .. Len(trace)
      /\ nxt \in 0 .. Len(trace)
  BY <1>1 DEF Init, None
<1>4. interrupted \in BOOLEAN
  BY Zenon DEF Init
<1>5. log = <<>> /\ covered = {}
  BY DEF Init
<1>6. TypeOK
  BY <1>1, <1>2, <1>3, <1>4, <1>5 DEF Init, TypeOK
<1>7. PipelineInv
  BY DEF Init, PipelineInv
<1> QED
  BY <1>6, <1>7

LEMMA PipelineStep == TypedPipeline /\ [Next]_vars => TypedPipeline'
<1> SUFFICES ASSUME TypeOK, PipelineInv, [Next]_vars
             PROVE  TypeOK' /\ PipelineInv'
  BY DEF TypedPipeline
<1>1. /\ Len(trace) \in Nat /\ from \in Nat /\ limit \in Nat
      /\ \A k \in 1 .. Len(trace) : trace[k].addr \in Nat
  BY TraceFacts
<1>2. CASE Seek
  <2>1. /\ \/ at' = "loop" /\ cursor' = from + 1 /\ cur' = from + 1
               /\ from < Len(trace)
           \/ at' = "aborted" /\ UNCHANGED <<cursor, cur>>
        /\ at = "start"
        /\ UNCHANGED <<trace, from, limit, flags, nxt, nextPc, index, res,
                       testedInsnId, offset, count, total, stats, covered, log,
                       interrupted>>
    BY <1>2 DEF Seek, inputs, returned, window, report
  <2>2. cursor' \in 0 .. Len(trace) /\ cur' \in 0 .. Len(trace)
    BY <1>1, <2>1 DEF TypeOK
  <2>3. TypeOK'
    BY <2>1, <2>2 DEF TypeOK
  <2>4. PipelineInv'
    BY <1>1, <2>1 DEF PipelineInv, None
  <2> QED
    BY <2>3, <2>4
<1>3. CASE Fetch
  <2>1. /\ cur = offset + 1 /\ cursor = cur /\ count > 0
        /\ cur \in 0 .. Len(trace) /\ offset \in Nat
    BY <1>3 DEF Fetch, Continue, PipelineInv, TypeOK
  <2>2. /\ nxt' = IF cur < Len(trace) THEN cur + 1 ELSE None
        /\ cursor' = IF cur < Len(trace) THEN cur + 1 ELSE cur
    BY <1>3, <2>1 DEF Fetch
  <2>3. /\ nxt' \in 0 .. Len(trace) /\ cursor' \in 0 .. Len(trace)
        /\ nxt' # None => cursor' = nxt'
    BY <1>1, <2>1, <2>2 DEF None
  <2>4. nextPc' \in Nat \cup {NoPc}
    BY <1>1, <1>3, <2>3 DEF Fetch, None
  <2>5. /\ index' = offset /\ offset' = offset + 1 /\ at' = "run"
        /\ nextPc' = IF nxt' # None /\ trace[nxt'].std THEN trace[nxt'].addr
                     ELSE NoPc
        /\ UNCHANGED <<trace, from, limit, flags, cur, res, testedInsnId, count,
                       total, stats, covered, log, interrupted>>
    BY <1>3 DEF Fetch, inputs, returned, report
  <2>6. TypeOK'
    BY <2>1, <2>3, <2>4, <2>5 DEF TypeOK
  <2>7. PipelineInv'
    BY <2>1, <2>2, <2>3, <2>5 DEF PipelineInv
  <2> QED
    BY <2>6, <2>7
<1>4. CASE RunFrame
  BY <1>4 DEF RunFrame, TypeOK, PipelineInv, inputs, frameVars, window, report,
              FrameCheckResult
<1>5. CASE Account
  BY <1>1, <1>5 DEF Account, Accounts, TypeOK, PipelineInv, inputs, returned, None
<1>6. CASE Leave
  BY <1>6 DEF Leave, TypeOK, PipelineInv, inputs, frameVars, returned, window,
              report
<1>7. CASE Interrupt
  BY <1>7 DEF Interrupt, TypeOK, PipelineInv, inputs, frameVars, returned,
              window, report
<1>8. CASE UNCHANGED vars
  BY <1>8 DEF vars, TypeOK, PipelineInv, inputs, frameVars, returned, window,
              report
<1> QED
  BY <1>2, <1>3, <1>4, <1>5, <1>6, <1>7, <1>8 DEF Next, MainStep

\* Types, and the lookahead in step with the reported numbers.
THEOREM PipelineCorrect == Spec => [](TypeOK /\ PipelineInv)
<1>1. TypedPipeline => TypeOK /\ PipelineInv
  BY DEF TypedPipeline
<1> QED
  BY <1>1, PipelineInit, PipelineStep, PTL DEF Spec

\* The reader, the lookahead and the counters of main stay in their ranges: no
\* frame is asked for beyond the trace, and the limit is not counted below 0.
THEOREM TypeCorrect == Spec => []TypeOK
<1>1. TypedPipeline => TypeOK
  BY DEF TypedPipeline
<1> QED
  BY <1>1, PipelineInit, PipelineStep, PTL DEF Spec

-----------------------------------------------------------------------------
\* The statistics: one result per frame, and all of them add up to total.
LEMMA AccountingInit == Init => AccountingInv
<1> SUFFICES ASSUME Init
             PROVE  AccountingInv
  OBVIOUS
<1>1. from \in Nat /\ limit \in Nat
  BY TraceAssumption DEF Init
<1>2. \A r \in FrameCheckResult : stats[r] = 0
  BY DEF Init
<1>3. StatsSum = 0
  BY <1>2 DEF StatsSum, FrameCheckResult, Returned
<1> QED
  BY <1>1, <1>3 DEF Init, AccountingInv

LEMMA AccountingStep ==
  TypedPipeline /\ AccountingInv /\ [Next]_vars => AccountingInv'
<1> SUFFICES ASSUME TypeOK, PipelineInv, AccountingInv, [Next]_vars
             PROVE  AccountingInv'
  BY DEF TypedPipeline
<1>1. from \in Nat /\ limit \in Nat
  BY TraceFacts
<1>2. CASE Seek
  BY <1>2 DEF Seek, AccountingInv, StatsSum, inputs, window, report
<1>3. CASE Fetch
  BY <1>1, <1>3 DEF Fetch, AccountingInv, StatsSum, TypeOK, inputs, report
<1>4. CASE RunFrame
  BY <1>4 DEF RunFrame, AccountingInv, StatsSum, inputs, window, report
<1>5. CASE Account
  <2>1. res \in FrameCheckResult /\ stats \in [FrameCheckResult -> Nat]
    BY DEF TypeOK
  <2>2. stats' = [stats EXCEPT ![res] = @ + 1]
    BY <1>5 DEF Account, Accounts
  <2>3. StatsSum' = StatsSum + 1
    BY <2>1, <2>2 DEF StatsSum, FrameCheckResult, Returned
  <2>4. /\ count' = count - 1 /\ total' = total + 1
        /\ UNCHANGED <<offset, from, limit>>
        /\ at = "account" /\ at' \in {"done", "loop"}
    BY <1>5 DEF Account, Accounts, inputs
  <2>5. total \in Nat /\ count \in Nat /\ offset \in Nat
    BY DEF TypeOK
  <2> QED
    BY <1>1, <2>3, <2>4, <2>5 DEF AccountingInv
<1>6. CASE Leave
  BY <1>6 DEF Leave, AccountingInv, StatsSum, inputs, window, report
<1>7. CASE Interrupt
  BY <1>7 DEF Interrupt, AccountingInv, StatsSum, inputs, window, report
<1>8. CASE UNCHANGED vars
  BY <1>8 DEF vars, AccountingInv, StatsSum, inputs, window, report
<1> QED
  BY <1>2, <1>3, <1>4, <1>5, <1>6, <1>7, <1>8 DEF Next, MainStep

\* The report adds up for every trace and every sequence of results.
THEOREM AccountingCorrect == Spec => []AccountingInv
<1>1. TypedPipeline /\ AccountingInv /\ [Next]_vars
        => (TypedPipeline /\ AccountingInv)'
  BY PipelineStep, AccountingStep
<1> QED
  BY <1>1, PipelineInit, AccountingInit, PTL DEF Spec

-----------------------------------------------------------------------------
\* Only Account touches the calls, their tally and the covered ids.
LEMMA ReportFrozen ==
  ASSUME TypeOK, Seek \/ Fetch \/ RunFrame \/ Leave \/ Interrupt \/ UNCHANGED vars
  PROVE  UNCHANGED <<inputs, report, total>>
  BY DEF Seek, Fetch, RunFrame, Leave, Interrupt, vars, inputs, report, window

\* What Account appends: the call just made, at position total + 1.
LEMMA AppendCall ==
  ASSUME TypeOK, CallsInv, Account
  PROVE  /\ Len(log) = total /\ total \in Nat
         /\ Len(log') = total + 1 /\ total' = total + 1
         /\ log'[total + 1] = [index |-> index, frame |-> cur,
                               nextPc |-> nextPc, res |-> res]
         /\ \A k \in 1 .. total : log'[k] = log[k]
  BY DEF TypeOK, CallsInv, Account, Accounts

LEMMA CallsStep ==
  TypedPipeline /\ AccountingInv /\ CallsInv /\ [Next]_vars => CallsInv'
<1> SUFFICES ASSUME TypeOK, PipelineInv, AccountingInv, CallsInv, [Next]_vars
             PROVE  CallsInv'
  BY DEF TypedPipeline
<1>1. CASE Account
  <2>1. /\ cur = index + 1 /\ offset = index + 1 /\ index \in Nat
        /\ nxt = IF cur < Len(trace) THEN cur + 1 ELSE None
        /\ nextPc = IF nxt # None /\ trace[nxt].std THEN trace[nxt].addr ELSE NoPc
        /\ offset = from + total + 1
    BY <1>1 DEF Account, Accounts, PipelineInv, AccountingInv, TypeOK
  <2>2. from \in Nat /\ total \in Nat /\ Len(trace) \in Nat
    BY TraceFacts DEF TypeOK
  <2>3. cur = from + (total + 1)
    BY <2>1, <2>2
  <2>4. nextPc = IF cur < Len(trace) /\ trace[cur + 1].std
                 THEN trace[cur + 1].addr ELSE NoPc
    BY <2>1, <2>2, <2>3 DEF None
  <2>5. UNCHANGED <<from, trace>>
    BY <1>1 DEF Account, Accounts, inputs
  <2>6. ASSUME NEW k \in 1 .. (total + 1)
        PROVE  LET f == from + k IN
               /\ log'[k].index = f - 1 /\ log'[k].frame = f
               /\ log'[k].nextPc = IF f < Len(trace) /\ trace[f + 1].std
                                   THEN trace[f + 1].addr ELSE NoPc
    <3>1. CASE k = total + 1
      BY <1>1, <2>1, <2>2, <2>3, <2>4, <3>1, AppendCall
    <3>2. CASE k \in 1 .. total
      BY <1>1, <3>2, AppendCall DEF CallsInv
    <3> QED
      BY <2>2, <2>6, <3>1, <3>2
  <2> QED
    BY <1>1, <2>5, <2>6, AppendCall DEF CallsInv
<1>2. CASE ~ Account
  BY <1>2, ReportFrozen DEF Next, MainStep, CallsInv, inputs, report
<1> QED
  BY <1>1, <1>2

\* The calls of RunFrame are the window, frame by frame, with the right
\* program counter expected after each.
THEOREM CallsCorrect == Spec => []CallsInv
<1>1. Init => CallsInv
  BY DEF Init, CallsInv
<1>2. TypedPipeline /\ AccountingInv /\ CallsInv /\ [Next]_vars
        => (TypedPipeline /\ AccountingInv /\ CallsInv)'
  BY PipelineStep, AccountingStep, CallsStep
<1> QED
  BY <1>1, <1>2, PipelineInit, AccountingInit, PTL DEF Spec

-----------------------------------------------------------------------------
LEMMA WindowStep ==
  TypedPipeline /\ AccountingInv /\ CallsInv /\ WindowInv /\ [Next]_vars
    => WindowInv'
<1> SUFFICES ASSUME TypeOK, PipelineInv, AccountingInv, CallsInv, WindowInv,
                    [Next]_vars
             PROVE  WindowInv'
  BY DEF TypedPipeline
<1>1. total \in Nat /\ Len(log) = total /\ from \in Nat /\ limit \in Nat
  BY TraceFacts DEF TypeOK, CallsInv
<1>2. CASE Account
  <2>1. \A r : StopsAt(r)' <=> StopsAt(r)
    BY <1>2 DEF Account, Accounts, StopsAt, inputs
  <2>2. \A k \in 1 .. total : ~ StopsAt(log[k].res)
    BY <1>1, <1>2 DEF WindowInv, Account, Accounts
  <2>3. \A k \in 1 .. total : ~ StopsAt(log'[k].res)
    BY <1>2, <2>2, AppendCall
  <2>4. Len(log') = total + 1 /\ log'[Len(log')].res = res
    BY <1>2, AppendCall
  <2>5. at' = IF StopsAt(res) THEN "done" ELSE "loop"
    BY <1>2 DEF Account, Accounts
  <2>6. log' # <<>>
    BY <1>1, <2>4
  <2> QED
    BY <1>1, <2>1, <2>3, <2>4, <2>5, <2>6 DEF WindowInv
<1>3. CASE Leave
  <2>1. at = "loop" /\ at' = "done" /\ ~ Continue
        /\ UNCHANGED <<trace, from, limit, flags, cur, count, total, offset,
                       log, interrupted>>
    BY <1>3 DEF Leave, inputs, frameVars, window, report
  <2>2. interrupted \/ total = limit \/ from + total = Len(trace)
    BY <1>1, <2>1 DEF Continue, PipelineInv, AccountingInv, TypeOK
  <2> QED
    BY <2>1, <2>2 DEF WindowInv, StopsAt
<1>4. CASE ~ (Account \/ Leave)
  <2>1. UNCHANGED <<inputs, report, total>>
    BY <1>4, ReportFrozen DEF Next, MainStep
  <2>2. \/ UNCHANGED at
        \/ at = "start" /\ at' \in {"loop", "aborted"}
        \/ at = "loop" /\ at' = "run"
        \/ at = "run" /\ at' = "account"
    BY <1>4 DEF Next, MainStep, Seek, Fetch, RunFrame, Interrupt, vars
  <2>3. interrupted => interrupted'
    BY <1>4 DEF Next, MainStep, Seek, Fetch, RunFrame, Interrupt, vars
  <2>4. at = "start" => log = <<>>
    BY <1>1 DEF PipelineInv, TypeOK
  <2> QED
    BY <1>1, <2>1, <2>2, <2>3, <2>4 DEF WindowInv, StopsAt, inputs, report
<1> QED
  BY <1>2, <1>3, <1>4

\* What is tested is the window, cut short only by the user or by an option
\* that the last tested frame, and no earlier one, triggers.
THEOREM WindowCorrect == Spec => []WindowInv
<1>1. Init => CallsInv /\ WindowInv
  BY DEF Init, CallsInv, WindowInv
<1>2. TypedPipeline /\ AccountingInv /\ CallsInv /\ WindowInv /\ [Next]_vars
        => (TypedPipeline /\ AccountingInv /\ CallsInv /\ WindowInv)'
  BY PipelineStep, AccountingStep, CallsStep, WindowStep
<1> QED
  BY <1>1, <1>2, PipelineInit, AccountingInit, PTL DEF Spec

-----------------------------------------------------------------------------
\* The stale instruction id is always one that is covered already.
THEOREM CoverageCorrect == Spec => []CoverageInv
<1>1. Init => CoverageInv
  BY DEF Init, CoverageInv
<1>2. CoverageInv /\ [Next]_vars => CoverageInv'
  <2> SUFFICES ASSUME CoverageInv, [Next]_vars
               PROVE  CoverageInv'
    OBVIOUS
  <2>1. CASE Account
    BY <2>1 DEF Account, Accounts, CoverageInv, returned
  <2>2. CASE RunFrame
    BY <2>2 DEF RunFrame, CoverageInv
  <2>3. CASE Seek
    BY <2>3 DEF Seek, CoverageInv, returned, report
  <2> QED
    BY <2>1, <2>2, <2>3
       DEF Next, MainStep, Fetch, Leave, Interrupt, vars, CoverageInv, returned,
           report
<1> QED
  BY <1>1, <1>2, PTL DEF Spec

-----------------------------------------------------------------------------
\* The calls with one result, before and after one more call.
LEMMA CountStep ==
  ASSUME TypeOK, CallsInv, Account, NEW r
  PROVE  Count(r)' = IF r = res THEN Count(r) + 1 ELSE Count(r)
<1> DEFINE Ks == {k \in DOMAIN log : log[k].res = r}
<1>1. /\ DOMAIN log = 1 .. total /\ DOMAIN log' = 1 .. (total + 1)
      /\ total \in Nat
      /\ log'[total + 1].res = res
      /\ \A k \in 1 .. total : log'[k] = log[k]
  BY AppendCall DEF TypeOK, Account, Accounts
<1>2. IsFiniteSet(Ks)
  <2>1. IsFiniteSet(1 .. total)
    BY <1>1, FS_Interval
  <2>2. Ks \subseteq 1 .. total
    BY <1>1
  <2> QED
    BY <2>1, <2>2, FS_Subset
<1>3. Ks' = IF r = res THEN Ks \cup {total + 1} ELSE Ks
  BY <1>1
<1>4. total + 1 \notin Ks
  BY <1>1
<1>5. Cardinality(Ks \cup {total + 1}) = Cardinality(Ks) + 1
  BY <1>2, <1>4, FS_AddElement
<1> QED
  BY <1>3, <1>5 DEF Count

\* Every line of the report counts the frames with its result.
THEOREM TallyCorrect == Spec => []TallyInv
<1>1. Init => CallsInv /\ TallyInv
  <2> SUFFICES ASSUME Init
               PROVE  CallsInv /\ TallyInv
    OBVIOUS
  <2>1. CallsInv
    BY DEF Init, CallsInv
  <2>2. \A r : {k \in DOMAIN log : log[k].res = r} = {}
    BY DEF Init
  <2>3. \A r : Count(r) = 0
    BY <2>2, FS_EmptySet DEF Count
  <2> QED
    BY <2>1, <2>3 DEF Init, TallyInv
<1>2. TypedPipeline /\ CallsInv /\ TallyInv /\ [Next]_vars => TallyInv'
  <2> SUFFICES ASSUME TypeOK, CallsInv, TallyInv, [Next]_vars
               PROVE  TallyInv'
    BY DEF TypedPipeline
  <2>1. CASE Account
    <3>1. stats' = [stats EXCEPT ![res] = @ + 1]
            /\ stats \in [FrameCheckResult -> Nat]
      BY <2>1 DEF Account, Accounts, TypeOK
    <3>2. ASSUME NEW r \in FrameCheckResult
          PROVE  stats'[r] = Count(r)'
      BY <2>1, <3>1, CountStep DEF TallyInv
    <3> QED
      BY <3>2 DEF TallyInv
  <2>2. CASE ~ Account
    BY <2>2, ReportFrozen DEF Next, MainStep, TallyInv, Count, report
  <2> QED
    BY <2>1, <2>2
<1>3. TypedPipeline /\ AccountingInv /\ CallsInv /\ TallyInv /\ [Next]_vars
        => (TypedPipeline /\ AccountingInv /\ CallsInv /\ TallyInv)'
  BY <1>2, PipelineStep, AccountingStep, CallsStep
<1> QED
  BY <1>1, <1>3, PipelineInit, AccountingInit, PTL DEF Spec

-----------------------------------------------------------------------------
(***************************************************************************)
(* Why the loop ends: between two accounted frames main takes a fixed      *)
(* number of steps, and every accounted frame is one less of the trace and *)
(* of the limit.                                                           *)
(***************************************************************************)
FramesLeft == Len(trace) - (from + total)
StagesLeft ==
  CASE at = "start"   -> 4
    [] at = "loop"    -> 3
    [] at = "run"     -> 2
    [] at = "account" -> 1
    [] OTHER          -> 0

LEMMA ProgressStep ==
  ASSUME TypeOK, PipelineInv, AccountingInv, MainStep
  PROVE  \/ /\ 0 <= FramesLeft' /\ FramesLeft' < FramesLeft
            /\ 0 <= count' /\ count' < count
         \/ /\ FramesLeft' = FramesLeft /\ count' = count
            /\ StagesLeft' < StagesLeft
<1>1. /\ Len(trace) \in Nat /\ from \in Nat /\ total \in Nat /\ offset \in Nat
      /\ count \in Nat /\ index \in Nat /\ cur \in 0 .. Len(trace)
  BY TraceFacts DEF TypeOK
<1>2. UNCHANGED <<trace, from>>
  BY DEF MainStep, Seek, Fetch, RunFrame, Account, Accounts, Leave, inputs
<1>3. CASE Account
  <2>1. at = "account" /\ total' = total + 1 /\ count' = count - 1
    BY <1>3 DEF Account, Accounts
  <2>2. cur = index + 1 /\ offset = index + 1 /\ count > 0
    BY <2>1 DEF PipelineInv
  <2>3. offset = from + total + 1
    BY <2>1 DEF AccountingInv
  <2>4. FramesLeft = Len(trace) - (from + total)
          /\ FramesLeft' = Len(trace) - (from + (total + 1))
    BY <1>2, <2>1 DEF FramesLeft
  <2>5. from + total < Len(trace)
    BY <1>1, <2>2, <2>3
  <2> QED
    BY <1>1, <2>1, <2>2, <2>4, <2>5
<1>4. CASE Seek \/ Fetch \/ RunFrame \/ Leave
  <2>1. UNCHANGED <<total, count>>
    BY <1>4 DEF Seek, Fetch, RunFrame, Leave, window
  <2>2. FramesLeft' = FramesLeft
    BY <1>2, <2>1 DEF FramesLeft
  <2>3. \/ at = "start" /\ at' \in {"loop", "aborted"}
        \/ at = "loop" /\ at' \in {"run", "done"}
        \/ at = "run" /\ at' = "account"
    BY <1>4 DEF Seek, Fetch, RunFrame, Leave
  <2>4. StagesLeft' < StagesLeft
    BY <2>3 DEF StagesLeft
  <2> QED
    BY <2>1, <2>2, <2>4
<1> QED
  BY <1>3, <1>4 DEF MainStep

\* For every trace, window, combination of options and moment of an interrupt:
\* a step of main uses up a frame of the trace and of the limit, or brings the
\* loop nearer to the end of the frame it is at.
THEOREM LoopProgress ==
  Spec => [][MainStep => \/ /\ 0 <= FramesLeft' /\ FramesLeft' < FramesLeft
                            /\ 0 <= count' /\ count' < count
                         \/ /\ FramesLeft' = FramesLeft /\ count' = count
                            /\ StagesLeft' < StagesLeft]_vars
<1>1. TypeOK /\ PipelineInv /\ AccountingInv /\ [Next]_vars
        => [MainStep => \/ /\ 0 <= FramesLeft' /\ FramesLeft' < FramesLeft
                           /\ 0 <= count' /\ count' < count
                        \/ /\ FramesLeft' = FramesLeft /\ count' = count
                           /\ StagesLeft' < StagesLeft]_vars
  BY ProgressStep
<1> QED
  BY <1>1, PipelineCorrect, AccountingCorrect, PTL DEF Spec
=============================================================================
