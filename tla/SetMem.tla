------------------------------- MODULE SetMem -------------------------------
(***************************************************************************)
(* RizinEmulator::SetMem (rzemu.cpp), what option -n does before any frame *)
(* is tested: one pass over the whole trace that writes the instruction    *)
(* bytes of the frames to memory, skipping frames whose address has been   *)
(* seen before.  One action per branch of the loop body.                   *)
(***************************************************************************)
EXTENDS MemCover, Functions

CONSTANTS
  Traces,  \* sequences of frames, of which std, addr and code matter here
  Addr,    \* the addresses
  Blank    \* what memory reads as where nothing was written

ASSUME TraceAssumption ==
  \A t \in Traces :
    /\ t \in Seq(Range(t))
    /\ \A f \in Range(t) : f.std \in BOOLEAN /\ f.addr \in Nat /\ f.code \in Seq(Nat)

VARIABLES trace, cursor, written, mem, at

vars == <<trace, cursor, written, mem, at>>

Init ==
  /\ trace \in Traces
  /\ cursor = 0 /\ written = {}
  /\ mem = [b \in Addr |-> Blank]
  /\ at = "start"

\* trace.seek(0) throws on a trace without frames; nothing catches it.
Rewind ==
  /\ at = "start"
  /\ at' = IF trace = <<>> THEN "aborted" ELSE "load"
  /\ mem' = [b \in Addr |-> Blank]     \* rz_io_cache_reset
  /\ UNCHANGED <<trace, cursor, written>>

\* get_frame hands out the frame at the cursor and moves past it.
Frame == trace[cursor + 1]
GetFrame ==
  /\ at = "load" /\ cursor < Len(trace)
  /\ cursor' = cursor + 1
  /\ UNCHANGED <<trace, at>>

SkipNonStd ==
  /\ GetFrame
  /\ ~ Frame.std
  /\ UNCHANGED <<written, mem>>

SkipWritten ==
  /\ GetFrame
  /\ Frame.std /\ Frame.addr \in written
  /\ UNCHANGED <<written, mem>>

Write(f, n) ==
  mem' = [b \in Addr |-> IF b \in Extent(f.addr, n)
                         THEN f.code[b - f.addr + 1] ELSE mem[b]]
\* Mutants: forgets the address, writes an address again, loses a byte.
WriteFrameForgets ==
  /\ GetFrame
  /\ Frame.std /\ Frame.addr \notin written
  /\ Write(Frame, Len(Frame.code))
  /\ UNCHANGED written
WriteFrameAgain ==
  /\ GetFrame
  /\ Frame.std
  /\ written' = written \cup {Frame.addr}
  /\ Write(Frame, Len(Frame.code))
WriteFrameShort ==
  /\ GetFrame
  /\ Frame.std /\ Frame.addr \notin written
  /\ written' = written \cup {Frame.addr}
  /\ Write(Frame, Len(Frame.code) - 1)
WriteFrame ==
  /\ GetFrame
  /\ Frame.std /\ Frame.addr \notin written
  /\ written' = written \cup {Frame.addr}
  /\ Write(Frame, Len(Frame.code))

\* Mutant: leaves the reader at the end.
FinishAtEnd ==
  /\ at = "load" /\ cursor = Len(trace)
  /\ at' = "done"
  /\ UNCHANGED <<trace, cursor, written, mem>>
\* The trace is rewound for the loop in main.
Finish ==
  /\ at = "load" /\ cursor = Len(trace)
  /\ cursor' = 0
  /\ at' = "done"
  /\ UNCHANGED <<trace, written, mem>>

Next == Rewind \/ SkipNonStd \/ SkipWritten \/ WriteFrame \/ Finish

Spec == Init /\ [][Next]_vars
FairSpec == Spec /\ WF_vars(Next)

-----------------------------------------------------------------------------
Seen == IF at = "done" THEN Len(trace) ELSE cursor

\* Frame k is the first of the trace at its address.
IsFirst(k) ==
  trace[k].std /\ \A j \in 1 .. (k - 1) : ~ (trace[j].std /\ trace[j].addr = trace[k].addr)

Covers(k, b) == b \in Extent(trace[k].addr, Len(trace[k].code))

TypeOK ==
  /\ trace \in Traces /\ cursor \in 0 .. Len(trace)
  /\ at \in {"start", "load", "done", "aborted"}
  /\ at = "start" => cursor = 0
  /\ written = {trace[k].addr : k \in {j \in 1 .. Seen : trace[j].std}}
  /\ DOMAIN mem = Addr

\* What memory holds after any number of frames: a byte belongs to the last
\* frame covering it among those that are the first at their address, whatever
\* frames at other addresses overlap it and however often a loop repeats.
LoadedInv ==
  \A b \in Addr :
    \/ mem[b] = Blank /\ \A k \in 1 .. Seen : ~ (IsFirst(k) /\ Covers(k, b))
    \/ \E k \in 1 .. Seen :
         /\ IsFirst(k) /\ Covers(k, b)
         /\ \A j \in (k + 1) .. Seen : ~ (IsFirst(j) /\ Covers(j, b))
         /\ mem[b] = trace[k].code[b - trace[k].addr + 1]

\* Code that never changes, however its frames overlap, is complete in memory
\* when testing starts: wherever two frames cover a byte they agree on it, and
\* frames at one address are of one length.
Consistent ==
  \A j, k \in DOMAIN trace :
    trace[j].std /\ trace[k].std =>
      \A b \in Addr : Covers(j, b) /\ Covers(k, b) =>
        trace[j].code[b - trace[j].addr + 1] = trace[k].code[b - trace[k].addr + 1]
SameLength ==
  \A j, k \in DOMAIN trace :
    trace[j].std /\ trace[k].std /\ trace[j].addr = trace[k].addr =>
      Len(trace[j].code) = Len(trace[k].code)
Holds(k) ==
  \A b \in Addr : Covers(k, b) => mem[b] = trace[k].code[b - trace[k].addr + 1]
ConsistentCodeLoaded ==
  at = "done" /\ Consistent /\ SameLength =>
    \A k \in DOMAIN trace : trace[k].std => Holds(k)

\* SetMem ends, and leaves the reader at the first frame.
Loads == <>(at = "aborted" \/ (at = "done" /\ cursor = 0))
=============================================================================
