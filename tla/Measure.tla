------------------------------- MODULE Measure -------------------------------
(***************************************************************************)
(* The measurements between the last two markers (client/src/app.cpp,       *)
(* update_measurements): recomputed by a frame of the UI thread when the    *)
(* markers or the sample count changed, else taken from a cache, while the  *)
(* RX thread appends to the capture on screen, trims it and replaces it.    *)
(*                                                                         *)
(* One logic channel; markers at whole samples.  The lines of analog        *)
(* channels and the refusal of intervals above 50M samples are left out.    *)
(***************************************************************************)
EXTENDS Integers, Sequences, FiniteSets, SequencesExt

CONSTANTS
    MaxSamples, \* bound: samples of a capture
    MaxAcqs,    \* bound: captures
    MaxMarkers, \* bound: markers
    Positions,  \* where markers can be
    NoLines     \* a cache without lines

ASSUME MeasAssumption ==
    /\ MaxSamples \in Nat /\ MaxAcqs \in Nat /\ MaxMarkers \in Nat
    /\ Positions \subseteq Nat /\ NoLines \notin Nat

VARIABLES
    shown,   \* the levels captured, trimmed ones included: ghost below trim
    trim,    \* first_live() of the store
    acq,     \* ghost: which capture that is
    markers, \* markers_, the positions
    meas,    \* meas_
    want,    \* update_measurements between its test and its walk, or NoLines
    drawn,   \* ghost: a frame has shown these markers and this capture
    of,      \* ghost: the capture the lines were computed from
    from     \* ghost: first_live() then

measVars == << shown, trim, acq, markers, meas, want, drawn, of, from >>

Waves   == UNION {[1 .. n -> {0, 1}] : n \in 0 .. MaxSamples}
NoCache == [a |-> NoLines, b |-> NoLines, count |-> 0, lines |-> NoLines]
Low(a, b)  == IF a < b THEN a ELSE b
High(a, b) == IF a < b THEN b ELSE a

MeasInit == /\ shown = << >> /\ trim = 0 /\ acq = 0 /\ markers = << >>
            /\ meas = NoCache /\ want = NoLines /\ drawn = FALSE /\ of = 0 /\ from = 0

-----------------------------------------------------------------------------
(* The lines: edges, samples high (the duty), samples in the interval.     *)

\* walk(): the samples at which the level changes, without the left border.
EdgesIn(lo, hi) == {s \in lo + 1 .. hi - 1 : shown[s + 1] # shown[s]}

\* The time high up to the last edge, where that is, and the level after it.
Integrated(lo, hi) ==
    LET upto[s \in lo .. hi - 1] ==
          IF s = lo THEN [high |-> 0, prev |-> lo, cur |-> shown[lo + 1]]
          ELSE IF s \notin EdgesIn(lo, hi) THEN upto[s - 1]
          ELSE LET r == upto[s - 1]
               IN  [high |-> r.high + (IF r.cur = 1 THEN s - r.prev ELSE 0),
                    prev |-> s, cur |-> shown[s + 1]]
    IN  upto[hi - 1]

\* A mutant: the time after the last edge is forgotten.
MeasuredNoTail(a, b, count) ==
    LET lo == High(a, trim)  hi == Low(Low(b, count), Len(shown))
    IN  IF hi <= lo THEN NoLines
        ELSE [edges |-> Cardinality(EdgesIn(lo, hi)), high |-> Integrated(lo, hi).high,
              span |-> hi - lo]

Measured(a, b, count) ==
    LET lo == High(a, trim)  hi == Low(b, count)
        w  == Integrated(lo, Low(hi, Len(shown)))
    IN  IF hi <= lo THEN NoLines
        ELSE IF Len(shown) <= lo  \* replaced by less since: walk() has nothing
             THEN [edges |-> 0, high |-> 0, span |-> hi - lo]
             ELSE [edges |-> Cardinality(EdgesIn(lo, Low(hi, Len(shown)))),
                   high  |-> w.high + (IF w.cur = 1 THEN hi - w.prev ELSE 0),
                   span  |-> hi - lo]

-----------------------------------------------------------------------------
(* A frame: the test, then the walk.  The RX thread may come between.      *)

Last2 == << markers[Len(markers) - 1], markers[Len(markers)] >>
PairLow  == Low(Last2[1], Last2[2])
PairHigh == High(Last2[1], Last2[2])

FrameLook ==
    /\ want = NoLines
    /\ IF Len(markers) < 2
       THEN /\ meas' = NoCache /\ drawn' = TRUE /\ UNCHANGED want
       ELSE IF << PairLow, PairHigh, Len(shown) >> = << meas.a, meas.b, meas.count >>
       THEN /\ drawn' = TRUE /\ UNCHANGED << meas, want >>
       ELSE /\ want' = [a |-> PairLow, b |-> PairHigh, count |-> Len(shown), acq |-> acq]
            /\ UNCHANGED << meas, drawn >>
    /\ UNCHANGED << shown, trim, acq, markers, of, from >>

FrameWalk ==
    /\ want # NoLines /\ want' = NoLines
    /\ meas' = [a |-> want.a, b |-> want.b, count |-> want.count,
                lines |-> Measured(want.a, want.b, want.count)]
    /\ drawn' = (want.acq = acq)
    /\ of' = (IF want.acq = acq THEN acq ELSE 0) /\ from' = trim
    /\ UNCHANGED << shown, trim, acq, markers >>

-----------------------------------------------------------------------------
(* The markers, by the UI thread.                                          *)

Moved(m) == /\ want = NoLines /\ markers' = m /\ drawn' = FALSE
            /\ UNCHANGED << shown, trim, acq, meas, want, of, from >>

\* A click on the canvas.
Place(p) == Len(markers) < MaxMarkers /\ Moved(Append(markers, p))

\* A drag, or a position typed into the table.
Move(i, p) == Moved([markers EXCEPT ![i] = p])

\* A right click, or the button in the table.
Delete(i) == Moved(RemoveAt(markers, i))

ClearAll == markers # << >> /\ Moved(<< >>)

-----------------------------------------------------------------------------
(* The capture on screen, by the RX thread (external to this module: see    *)
(* LogicStore and Acquisition).                                            *)

Stream(v) == /\ Len(shown) < MaxSamples /\ shown' = Append(shown, v)
             /\ UNCHANGED << trim, acq, markers, meas, want, drawn, of, from >>

TrimTo(s) == /\ s > trim /\ s <= Len(shown) /\ trim' = s
             /\ UNCHANGED << shown, acq, markers, meas, want, drawn, of, from >>

\* A swap of the buffers, or the first data of a capture and what follows it.
Replace(w) == /\ acq < MaxAcqs /\ acq' = acq + 1
              /\ shown' = w /\ trim' = 0 /\ drawn' = FALSE
              /\ UNCHANGED << markers, meas, want, of, from >>

MeasNext == \/ FrameLook \/ FrameWalk \/ ClearAll
            \/ \E p \in Positions : Place(p)
            \/ \E i \in DOMAIN markers : Delete(i) \/ \E p \in Positions : Move(i, p)
            \/ \E v \in {0, 1} : Stream(v)
            \/ \E s \in 1 .. MaxSamples : TrimTo(s)
            \/ \E w \in Waves : Replace(w)

MeasSpec == MeasInit /\ [][MeasNext]_measVars

-----------------------------------------------------------------------------
(* Properties.                                                             *)

\* The lines of the last two markers, by counting samples one at a time.
Counted(count) ==
    LET lo == High(PairLow, from)  hi == Low(PairHigh, count)
    IN  IF hi <= lo THEN NoLines
        ELSE [edges |-> Cardinality({s \in lo + 1 .. hi - 1 : shown[s + 1] # shown[s]}),
              high  |-> Cardinality({s \in lo .. hi - 1 : shown[s + 1] = 1}),
              span  |-> hi - lo]

\* The numbers a frame has shown for the last two markers, fresh or cached,
\* are those of the samples between them, up to the count they are cached
\* under, as long as they come from the capture on screen: over markers placed,
\* dragged past each other, deleted and put back, beyond the end and below the
\* window, and samples appended, trimmed or replaced between test and walk.
MeasTruth ==
    drawn /\ of = acq /\ Len(markers) >= 2 => meas.lines = Counted(meas.count)

\* between-marker measurements (cached; recomputed when inputs change)
\* (app.h:267): what a frame shows of a capture as long as the cached count is
\* that capture's.
MeasFresh ==
    drawn /\ Len(markers) >= 2 /\ meas.count = Len(shown) /\ trim = 0 /\ from = 0
    => meas.lines = Counted(meas.count)
=============================================================================
