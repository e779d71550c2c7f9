------------------------------ MODULE MCSetMem ------------------------------
\* Instance of SetMem: every trace of up to MaxFrames frames, whose bytes may
\* overlap, repeat an address with the same bytes or with others, or be none.
EXTENDS SetMem, SequencesExt

CONSTANTS MaxFrames, Codes

MCFrames ==
  [std : {TRUE}, addr : {0, 1}, code : Codes]
    \cup {[std |-> FALSE, addr |-> 0, code |-> <<1>>]}
AllCodes == {<<>>, <<1>>, <<2>>, <<1, 2>>}
MCTraces == {t : t \in BoundedSeq(MCFrames, MaxFrames)}
=============================================================================
