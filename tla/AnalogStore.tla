----------------------------- MODULE AnalogStore -----------------------------
(***************************************************************************)
(* The samples of an analog channel and their min/max pyramid               *)
(* (client/src/stores.cpp, AnalogStore; pyramid.h, EnvPyramid).  The RX     *)
(* thread appends, one store to shared memory per step; the render thread   *)
(* reads up to the count it has loaded, with no lock: a cell is two loads.  *)
(*                                                                         *)
(* Chunks of the pyramid are longer than the store, so that a level is      *)
(* allocated, and zero, from its first cell on.  A frame that was lost      *)
(* leaves a hole, which reads as zero.                                      *)
(***************************************************************************)
EXTENDS Integers, Sequences, FiniteSets, FiniteSetsExt

CONSTANTS
    ASize,     \* capacity in samples, SPC * SLOTS
    AFactor,   \* children of a cell, 16
    ALevels,   \* levels of the pyramid, 8
    Volts,     \* what a sample may be, in units of its resolution
    MaxAnalog  \* bound: samples per DATA_ANALOG

ASSUME AnalogAssumption ==
    /\ ASize \in Nat \ {0} /\ AFactor \in Nat \ {0} /\ ALevels \in Nat \ {0}
    /\ Volts \subseteq Int /\ MaxAnalog \in Nat

VARIABLES
    volt,      \* the samples, 0 where nothing was written
    acount,    \* count_
    wend,      \* written_end_
    mn, mx,    \* env_.mn_, env_.mx_: level -> cell -> value
    alloc,     \* the levels that have a chunk
    job,       \* where append() is: nowhere, at the samples, at a cell
    sent,      \* ghost: the samples the server has sent, lost ones included
    holes,     \* ghost: the lost ones
    rd         \* the render thread in envelope(): nothing, or the min it loaded

analogVars == << volt, acount, wend, mn, mx, alloc, job, sent, holes, rd >>

ALevel == 0 .. ALevels - 1

\* Samples per cell of a level.
ABlock[l \in ALevel] == IF l = 0 THEN AFactor ELSE AFactor * ABlock[l - 1]

\* The cells of a level: more than the samples fill, as in the code.
ACells == 0 .. AFactor * ASize - 1
Zero   == [l \in ALevel |-> [b \in ACells |-> 0]]
NoJob  == [at |-> "none"]
NoRead == [level |-> -1]

AnalogInit ==
    /\ volt = [s \in 0 .. ASize - 1 |-> 0]
    /\ acount = 0 /\ wend = 0 /\ mn = Zero /\ mx = Zero /\ alloc = {}
    /\ job = NoJob /\ sent = 0 /\ holes = {} /\ rd = NoRead

-----------------------------------------------------------------------------
(* The RX thread.                                                          *)

\* The cell c of level l, for an append of samples s .. e - 1.
AtCell(s, e, l, c) == [at |-> "min", s |-> s, e |-> e, level |-> l, cell |-> c]

\* A mutant: only the cells of the first sample.
NextCellUp(j) ==
    IF j.level < ALevels - 1
    THEN AtCell(j.s, j.e, j.level + 1, j.s \div ABlock[j.level + 1])
    ELSE NoJob

\* The loops of append(): the cells of a level its samples are in, then those
\* of the next.
NextCell(j) ==
    IF j.cell < (j.e - 1) \div ABlock[j.level]
    THEN AtCell(j.s, j.e, j.level, j.cell + 1)
    ELSE IF j.level < ALevels - 1
    THEN AtCell(j.s, j.e, j.level + 1, j.s \div ABlock[j.level + 1])
    ELSE NoJob

\* A DATA_ANALOG frame, which may be lost.
AppendFrame ==
    /\ job = NoJob /\ acount = wend
    /\ \E n \in 1 .. MaxAnalog : sent + n <= ASize + 1 /\ sent' = sent + n
    /\ \/ /\ job' = [at |-> "write", s |-> sent, e |-> sent']
          /\ holes' = holes
       \/ /\ job' = NoJob
          /\ holes' = holes \cup (sent .. sent' - 1)
    /\ UNCHANGED << volt, acount, wend, mn, mx, alloc, rd >>

\* The samples, up to the capacity.
WriteSamples ==
    /\ job.at = "write"
    /\ LET s == job.s
           e == IF job.e > ASize THEN ASize ELSE job.e
       IN  IF e <= s
           THEN /\ job' = NoJob
                /\ UNCHANGED << volt, wend >>
           ELSE /\ \E v \in [s .. e - 1 -> Volts] :
                      volt' = [t \in DOMAIN volt |->
                                 IF t \in s .. e - 1 THEN v[t] ELSE volt[t]]
                /\ wend' = IF e > wend THEN e ELSE wend
                /\ job' = AtCell(s, e, 0, s \div AFactor)
    /\ UNCHANGED << acount, mn, mx, alloc, sent, holes, rd >>

\* What a cell is made from: the samples of its block up to the last written,
\* or the cells below, those not written yet included.
Below(l, b) ==
    IF l = 0 THEN {volt[s] : s \in {t \in 0 .. wend - 1 : t \div AFactor = b}}
    ELSE LET children == {c \in ACells : c \div AFactor = b}
         IN  {mn[l - 1][c] : c \in children} \cup {mx[l - 1][c] : c \in children}

\* set_cell(): the minimum, then the maximum.
StoreMin ==
    /\ job.at = "min"
    /\ LET below == Below(job.level, job.cell)
       IN  /\ mn' = [mn EXCEPT ![job.level][job.cell] = Min(below)]
           /\ job' = [at |-> "max", s |-> job.s, e |-> job.e, level |-> job.level,
                      cell |-> job.cell, max |-> Max(below)]
    /\ alloc' = alloc \cup {job.level}
    /\ UNCHANGED << volt, acount, wend, mx, sent, holes, rd >>

StoreMax ==
    /\ job.at = "max"
    /\ mx' = [mx EXCEPT ![job.level][job.cell] = job.max]
    /\ job' = NextCell(job)
    /\ UNCHANGED << volt, acount, wend, mn, alloc, sent, holes, rd >>

\* The count goes last.
PublishCount ==
    /\ job = NoJob /\ acount # wend
    /\ acount' = wend
    /\ UNCHANGED << volt, wend, mn, mx, alloc, job, sent, holes, rd >>

-----------------------------------------------------------------------------
(* The render thread: envelope() at a level, for a sample below the count.  *)

LoadMin ==
    /\ rd = NoRead /\ acount > 0
    /\ \E l \in alloc, s \in 0 .. acount - 1 :
          rd' = [level |-> l, at |-> s, count |-> acount,
                 min |-> mn[l][s \div ABlock[l]], loaded |-> "min"]
    /\ UNCHANGED << volt, acount, wend, mn, mx, alloc, job, sent, holes >>

LoadMax ==
    /\ rd # NoRead /\ rd.loaded = "min"
    /\ rd' = [level |-> rd.level, at |-> rd.at, count |-> rd.count, min |-> rd.min,
              loaded |-> "both", max |-> mx[rd.level][rd.at \div ABlock[rd.level]]]
    /\ UNCHANGED << volt, acount, wend, mn, mx, alloc, job, sent, holes >>

Drawn == /\ rd # NoRead /\ rd.loaded = "both"
         /\ rd' = NoRead
         /\ UNCHANGED << volt, acount, wend, mn, mx, alloc, job, sent, holes >>

AnalogNext == \/ AppendFrame \/ WriteSamples \/ StoreMin \/ StoreMax \/ PublishCount
              \/ LoadMin \/ LoadMax \/ Drawn

AnalogSpec == AnalogInit /\ [][AnalogNext]_analogVars

-----------------------------------------------------------------------------
(* Properties.                                                             *)

\* A glitch is drawn at every zoom: the envelope the render thread has read,
\* its two halves possibly from different updates, spans every sample that was
\* published when it began, lies under the pixel and is not in a hole.
EnvelopeCovers ==
    rd # NoRead /\ rd.loaded = "both" =>
        \A s \in (0 .. rd.count - 1) \ holes : s \div ABlock[rd.level] = rd.at \div ABlock[rd.level]
            => rd.min <= volt[s] /\ volt[s] <= rd.max

\* level-0 cell[b] = min/max over its samples, higher levels combine children
\* (pyramid.h:7): the envelope of a level is that of its samples.
EnvelopeExact ==
    job = NoJob => \A l \in alloc : \A b \in ACells :
        LET vs == {volt[s] : s \in {t \in 0 .. wend - 1 : t \div ABlock[l] = b}}
        IN  vs # {} => mn[l][b] = Min(vs) /\ mx[l][b] = Max(vs)
=============================================================================
