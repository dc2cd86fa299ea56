--------------------------------- MODULE Vcd ---------------------------------
(***************************************************************************)
(* The value-change dump of a capture (client/src/export.cpp, export_vcd):  *)
(* the edges of the logic channels, merged by sample, under a timescale.    *)
(* A step is one round of the merge loop.  The dump is the sequence of its  *)
(* entries, a time in timescale units and the changes under it.             *)
(***************************************************************************)
EXTENDS Integers, Sequences, TLC

CONSTANTS
    Wires,    \* the logic channels, 1 .. n
    Ends,     \* count() of the store, so many
    Second,   \* what a second is in the finest unit, 10^12 ps
    VcdRates  \* sample rates, none above the finest unit

ASSUME VcdAssumption ==
    /\ Ends \in Nat \ {0} /\ Second \in Nat
    /\ VcdRates \subseteq 1 .. Second

VARIABLES
    wave,      \* the captured levels, wire -> sample -> level
    flive,     \* first_live()
    vrate,     \* the sample rate
    unwritten, \* edges from pos on: the samples of those not written yet
    dump,      \* the file so far
    vpc        \* "merge", "done"

vcdVars == << wave, flive, vrate, unwritten, dump, vpc >>

\* What walk() at level 0 yields: the samples at which the level changes.
Edges(w) == {s \in flive + 1 .. Ends - 1 : wave[w][s] # wave[w][s - 1]}

\* The timescales, in the finest unit.
Scale[d \in 0 .. 12] == IF d = 0 THEN 1 ELSE 10 * Scale[d - 1]

\* The sample period rounded to the finest unit, and the largest timescale
\* that divides it.
Period  == (2 * Second + vrate) \div (2 * vrate)
Coarser == LET d == CHOOSE d \in 0 .. 12 :
                      /\ Period % Scale[d] = 0
                      /\ d = 12 \/ Period % Scale[d + 1] # 0
           IN  Scale[d]
Ticks   == Period \div Coarser

Entry(sample, changes) == [time |-> sample * Ticks, changes |-> changes]

VcdInit ==
    /\ wave \in [Wires -> [0 .. Ends - 1 -> {0, 1}]]
    /\ flive \in 0 .. Ends - 1 /\ vrate \in VcdRates
    /\ unwritten = [w \in Wires |-> Edges(w)]
    /\ dump = << Entry(flive, [w \in Wires |-> wave[w][flive]]) >>
    /\ vpc = "merge"

\* The earliest edge not written yet.
Earliest(s) == /\ \E w \in Wires : s \in unwritten[w]
               /\ \A w \in Wires : \A t \in unwritten[w] : s <= t

\* A mutant: one wire per round.
MergeOne ==
    /\ vpc = "merge"
    /\ \E w \in Wires, s \in 0 .. Ends - 1 :
          /\ s \in unwritten[w] /\ Earliest(s)
          /\ dump' = Append(dump, Entry(s, (w :> wave[w][s])))
          /\ unwritten' = [unwritten EXCEPT ![w] = @ \ {s}]
    /\ UNCHANGED << wave, flive, vrate, vpc >>

\* A round: that edge, of every wire that has it.
Merge ==
    /\ vpc = "merge"
    /\ \E s \in 0 .. Ends - 1 :
          /\ Earliest(s)
          /\ dump' = Append(dump, Entry(s, [w \in {w \in Wires : s \in unwritten[w]}
                                              |-> wave[w][s]]))
          /\ unwritten' = [w \in Wires |-> unwritten[w] \ {s}]
    /\ UNCHANGED << wave, flive, vrate, vpc >>

\* The end of the capture closes the dump.
Close ==
    /\ vpc = "merge" /\ \A w \in Wires : unwritten[w] = {}
    /\ dump' = Append(dump, Entry(Ends, << >>)) /\ vpc' = "done"
    /\ UNCHANGED << wave, flive, vrate, unwritten >>

VcdNext == Merge \/ Close

VcdSpec == VcdInit /\ [][VcdNext]_vcdVars

-----------------------------------------------------------------------------
(* Properties.                                                             *)

\* The level a reader of the dump d gives a wire at a time.
Replayed(d, w, time) ==
    LET at == CHOOSE i \in DOMAIN d :
                 /\ w \in DOMAIN d[i].changes /\ d[i].time <= time
                 /\ \A j \in i + 1 .. Len(d) :
                       w \notin DOMAIN d[j].changes \/ d[j].time > time
    IN  d[at].changes[w]

\* The dump is the capture: times strictly rise, so that no reader drops a
\* change, and every wire has the level of the sample at every sample.
DumpReplays ==
    vpc = "done" =>
        /\ \A i \in 1 .. Len(dump) - 1 : dump[i].time < dump[i + 1].time
        /\ \A w \in Wires, s \in flive .. Ends - 1 :
              Replayed(dump, w, s * Ticks) = wave[w][s]

\* The timescale is exact for any samplerate (export.cpp:136): sample s is at
\* s / rate seconds.
TimescaleExact ==
    \A i \in DOMAIN dump : \E s \in 0 .. Ends :
        dump[i].time * Coarser * vrate = s * Second
=============================================================================
