-------------------------- MODULE Readouts_proofs ---------------------------
(***************************************************************************)
(* Proofs about what is read out of a capture: the dump App::export_vcd    *)
(* writes, for any wires, samples, window and rate up to the finest unit;  *)
(* the measurements between markers, for any markers and any sequence of   *)
(* frames and captures; the words the i2s_ex decoder puts out, for words    *)
(* of any size, slots of any length and any number of slots.               *)
(***************************************************************************)
EXTENDS Vcd, Measure, I2s, FiniteSetTheorems, SequenceTheorems,
        WellFoundedInduction, TLAPS

-----------------------------------------------------------------------------
(* Least elements, and recursive functions from them.                      *)

\* A set of numbers has a least element: this stands for induction over Nat.
LEMMA Least ==
  ASSUME NEW T, T \subseteq Nat, T # {}
  PROVE  \E x \in T : \A y \in T : x <= y
<1> DEFINE R == {ss \in Nat \X Nat : ss[1] < ss[2]}
<1>1. IsWellFoundedOn(R, Nat)
  BY NatLessThanWellFounded DEF OpToRel
<1>2. PICK x \in T : \A y \in T : ~ (<< y, x >> \in R)
  <2> HIDE DEF R
  <2>1. QED BY <1>1, WFMin
<1>3. ASSUME NEW y \in T PROVE x <= y
  <2>1. x \in Nat /\ y \in Nat
    OBVIOUS
  <2>2. y < x => << y, x >> \in R
    BY <2>1
  <2>3. QED BY <1>2, <2>1, <2>2
<1>4. QED BY <1>3

\* What the quotient of whole numbers is.
LEMMA Quotient ==
  ASSUME NEW a \in Nat, NEW k \in Nat \ {0}
  PROVE  /\ a \div k \in Nat
         /\ k * (a \div k) <= a /\ a < k * (a \div k) + k
         /\ a \div k <= a
OBVIOUS

\* A product grows with its factor.
LEMMA TimesGrows ==
  ASSUME NEW k \in Nat, NEW a \in Nat, NEW b \in Nat, a <= b
  PROVE  k * a <= k * b
OBVIOUS

\* The function g on 0 .. n that begins with b and goes on with F.
Recursive(g, n, S, b, F) ==
    /\ g \in [0 .. n -> S] /\ g[0] = b
    /\ \A k \in 1 .. n : g[k] = F[k][g[k - 1]]

\* There is one.
LEMMA Recursion ==
  ASSUME NEW S, NEW b \in S, NEW F \in [Nat -> [S -> S]], NEW n \in Nat
  PROVE  \E g : Recursive(g, n, S, b, F)
<1> DEFINE Def(m, g) == /\ g \in [0 .. m -> S] /\ g[0] = b
                        /\ \A k \in 1 .. m : g[k] = F[k][g[k - 1]]
<1> DEFINE Bad == {m \in Nat : ~ \E g : Def(m, g)}
<1>1. ASSUME Bad # {} PROVE FALSE
  <2>1. PICK m \in Bad : \A k \in Bad : m <= k
    <3>1. Bad \subseteq Nat
      OBVIOUS
    <3> HIDE DEF Bad
    <3>2. QED BY <1>1, <3>1, Least
  <2>2. m \in Nat /\ ~ \E g : Def(m, g)
    OBVIOUS
  <2>3. m # 0
    <3>1. Def(0, [k \in 0 .. 0 |-> b])
      OBVIOUS
    <3>2. QED BY <2>2, <3>1
  <2>4. m - 1 \in Nat /\ m - 1 \notin Bad
    <3> HIDE DEF Bad
    <3>1. QED BY <2>1, <2>2, <2>3
  <2>5. PICK g : Def(m - 1, g)
    <3> HIDE DEF Def
    <3>1. QED BY <2>4
  <2> DEFINE h == [k \in 0 .. m |-> IF k = m THEN F[m][g[m - 1]] ELSE g[k]]
  <2>6. g[m - 1] \in S /\ F[m] \in [S -> S]
    BY <2>2, <2>4, <2>5
  <2>7. F[m][g[m - 1]] \in S
    BY <2>6
  <2>8. h \in [0 .. m -> S]
    <3>1. \A k \in 0 .. m : k # m => k \in 0 .. m - 1
      BY <2>2
    <3>2. QED BY <2>5, <2>7, <3>1
  <2>9. h[m] = F[m][g[m - 1]] /\ \A k \in 0 .. m - 1 : h[k] = g[k]
    <3>1. m \in 0 .. m /\ \A k \in 0 .. m - 1 : k \in 0 .. m /\ k # m
      BY <2>2, <2>4
    <3>2. QED BY <3>1
  <2> HIDE DEF h
  <2>10. ASSUME NEW k \in 1 .. m PROVE h[k] = F[k][h[k - 1]]
    <3>1. m \in Nat /\ k \in Nat /\ 1 <= k /\ k <= m
      BY <2>2
    <3>2. k - 1 \in 0 .. m - 1 /\ h[k - 1] = g[k - 1]
      BY <2>9, <3>1
    <3>3. CASE k = m
      BY <2>9, <3>2, <3>3
    <3>4. CASE k # m
      <4>1. k \in 1 .. m - 1 /\ k \in 0 .. m - 1
        BY <3>1, <3>4
      <4>2. QED BY <2>5, <2>9, <3>2, <4>1
    <3>5. QED BY <3>3, <3>4
  <2>11. h[0] = b
    <3>1. 0 \in 0 .. m - 1
      BY <2>4
    <3>2. QED BY <2>5, <2>9, <3>1
  <2>12. QED BY <2>2, <2>8, <2>10, <2>11
<1>2. PICK g : Def(n, g)
  <2> HIDE DEF Def
  <2>1. QED BY <1>1
<1>3. QED BY <1>2 DEF Recursive

-----------------------------------------------------------------------------
(* Vcd: the timescale.                                                     *)

\* The powers of ten are positive.
LEMMA Scales ==
  Scale[0] = 1 /\ \A d \in 0 .. 12 : Scale[d] \in Nat \ {0}
<1> DEFINE S == Nat \ {0}
<1> DEFINE F == [k \in Nat |-> [x \in S |-> 10 * x]]
<1>1. F \in [Nat -> [S -> S]] /\ 1 \in S
  OBVIOUS
<1>2. \A k \in Nat, x \in S : F[k][x] = 10 * x
  OBVIOUS
<1> HIDE DEF F, S
<1>3. PICK g : Recursive(g, 12, S, 1, F)
  BY <1>1, Recursion
<1>4. \A k \in 0 .. 12 : k # 0 => k \in 1 .. 12 /\ k - 1 \in 0 .. 12 /\ k \in Nat
  OBVIOUS
<1>5. \A k \in 0 .. 12 : k # 0 => g[k] = 10 * g[k - 1]
  <2>1. g \in [0 .. 12 -> S] /\ \A k \in 1 .. 12 : g[k] = F[k][g[k - 1]]
    BY <1>3 DEF Recursive
  <2>2. QED BY <1>2, <1>4, <2>1
<1>6. g = [d \in 0 .. 12 |-> IF d = 0 THEN 1 ELSE 10 * g[d - 1]]
  BY <1>3, <1>5 DEF Recursive
<1> DEFINE f == CHOOSE f : f = [d \in 0 .. 12 |-> IF d = 0 THEN 1 ELSE 10 * f[d - 1]]
<1>7. f = [d \in 0 .. 12 |-> IF d = 0 THEN 1 ELSE 10 * f[d - 1]]
  BY <1>6
<1>8. Scale = f
  BY DEF Scale
<1> HIDE DEF f
<1>9. f[0] = 1 /\ \A k \in 0 .. 12 : k # 0 => f[k] = 10 * f[k - 1]
  BY <1>7
<1> DEFINE Bad == {d \in 0 .. 12 : f[d] \notin Nat \ {0}}
<1>10. ASSUME Bad # {} PROVE FALSE
  <2>1. PICK d \in Bad : \A k \in Bad : d <= k
    <3>1. Bad \subseteq Nat
      OBVIOUS
    <3> HIDE DEF Bad
    <3>2. QED BY <1>10, <3>1, Least
  <2>2. d \in 0 .. 12 /\ d # 0
    BY <1>9
  <2>3. d - 1 \in 0 .. 12 /\ d - 1 \notin Bad
    <3> HIDE DEF Bad
    <3>1. QED BY <2>1, <2>2
  <2>4. f[d - 1] \in Nat \ {0}
    BY <2>3
  <2>5. QED BY <2>2, <2>4, <1>9
<1>11. QED BY <1>8, <1>9, <1>10

\* A sample takes at least one unit of the timescale.
LEMMA TicksPositive ==
  ASSUME vrate \in VcdRates
  PROVE  Ticks \in Nat \ {0}
<1>1. vrate \in Nat \ {0} /\ Second \in Nat /\ vrate <= Second
  BY VcdAssumption
<1>2. Period \in Nat \ {0}
  <2> DEFINE a == 2 * Second + vrate
  <2> DEFINE k == 2 * vrate
  <2> DEFINE q == a \div k
  <2>1. a \in Nat /\ k \in Nat \ {0} /\ k <= a
    BY <1>1
  <2> HIDE DEF a, k
  <2>2. q \in Nat /\ a < k * q + k
    BY <2>1, Quotient
  <2>3. q # 0
    <3>1. k * 0 = 0
      BY <2>1
    <3>2. QED BY <2>1, <2>2, <3>1
  <2>4. QED BY <2>2, <2>3 DEF Period, a, k
<1> DEFINE Fits(d) == Period % Scale[d] = 0 /\ (d = 12 \/ Period % Scale[d + 1] # 0)
<1>3. \E d \in 0 .. 12 : Fits(d)
  <2> DEFINE D == {d \in 0 .. 12 : d = 12 \/ Period % Scale[d + 1] # 0}
  <2>1. D \subseteq Nat /\ 12 \in D
    OBVIOUS
  <2>2. PICK d \in D : \A k \in D : d <= k
    <3> HIDE DEF D
    <3>1. QED BY <2>1, Least
  <2>3. d \in 0 .. 12 /\ (d = 12 \/ Period % Scale[d + 1] # 0)
    OBVIOUS
  <2>4. CASE d = 0
    <3>1. Period % 1 = 0
      BY <1>2
    <3>2. QED BY <2>3, <2>4, <3>1, Scales
  <2>5. CASE d # 0
    <3>1. d - 1 \in 0 .. 12 /\ d - 1 # 12 /\ (d - 1) + 1 = d
      BY <2>3, <2>5
    <3>2. d - 1 \notin D
      <4> HIDE DEF D
      <4>1. QED BY <2>2, <2>3, <3>1
    <3>3. Period % Scale[d] = 0
      BY <3>1, <3>2
    <3>4. QED BY <2>3, <3>3
  <2>6. QED BY <2>4, <2>5
<1> DEFINE c == CHOOSE d \in 0 .. 12 : Fits(d)
<1>4. c \in 0 .. 12 /\ Fits(c)
  <2> HIDE DEF Fits
  <2>1. QED BY <1>3
<1>5. Coarser = Scale[c]
  BY DEF Coarser
<1>6. Period % Scale[c] = 0
  BY <1>4
<1> HIDE DEF c
<1>7. Coarser \in Nat \ {0} /\ Period % Coarser = 0
  BY <1>4, <1>5, <1>6, Scales
<1>8. \A p, k \in Nat \ {0} : p % k = 0 => p \div k \in Nat \ {0}
  OBVIOUS
<1>9. QED BY <1>2, <1>7, <1>8 DEF Ticks

-----------------------------------------------------------------------------
(* Vcd: the inductive invariant.  While the edges are merged the dump is the *)
(* levels at some rising samples, edges the first of which is the left      *)
(* border, and nothing up to the last of them is left to write.             *)

Changes == UNION {[D -> {0, 1}] : D \in SUBSET Wires}
Entries == [time : Nat, changes : Changes]

\* What the i-th entry says, of the sample s.
LevelsAt(s, i) ==
    [w \in IF i = 1 THEN Wires ELSE {w \in Wires : s \in Edges(w)} |-> wave[w][s]]

Rising(at) == \A i, j \in 1 .. Len(at) : i < j => at[i] < at[j]

Written(at) ==
    /\ at \in Seq(flive .. Ends - 1) /\ Len(at) # 0 /\ at[1] = flive /\ Rising(at)
    /\ dump \in Seq(Entries) /\ Len(dump) = Len(at)
    /\ \A i \in 1 .. Len(at) : dump[i] = Entry(at[i], LevelsAt(at[i], i))
    /\ \A w \in Wires : unwritten[w] = {s \in Edges(w) : s > at[Len(at)]}
    /\ \A w \in Wires : \A s \in Edges(w) :
          s > at[Len(at)] \/ \E i \in 2 .. Len(at) : at[i] = s

VcdTypes ==
    /\ wave \in [Wires -> [0 .. Ends - 1 -> {0, 1}]]
    /\ flive \in 0 .. Ends - 1 /\ vrate \in VcdRates
    /\ unwritten \in [Wires -> SUBSET (0 .. Ends - 1)] /\ vpc \in {"merge", "done"}

VcdInv == VcdTypes /\ (vpc = "merge" => \E at : Written(at)) /\ DumpReplays

\* What Append returns.
LEMMA Appended ==
  ASSUME NEW S, NEW v \in Seq(S), NEW e \in S
  PROVE  /\ Append(v, e) \in Seq(S) /\ Len(Append(v, e)) = Len(v) + 1
         /\ Len(v) \in Nat
         /\ \A i \in 1 .. Len(v) : Append(v, e)[i] = v[i]
         /\ Append(v, e)[Len(v) + 1] = e
BY AppendProperties, LenProperties

\* What is known of the levels and the edges.
LEMMA Bounds ==
  ASSUME VcdTypes
  PROVE  /\ Ends \in Nat /\ flive \in Nat /\ flive <= Ends - 1
         /\ \A w \in Wires : Edges(w) \subseteq flive + 1 .. Ends - 1
         /\ \A w \in Wires, s \in 0 .. Ends - 1 : wave[w][s] \in {0, 1}
BY VcdAssumption DEF VcdTypes, Edges

\* What an entry of the dump says.
LEMMA LevelsType ==
  ASSUME VcdTypes, NEW s \in flive .. Ends - 1, NEW i
  PROVE  /\ LevelsAt(s, i) \in Changes
         /\ DOMAIN LevelsAt(s, i) = (IF i = 1 THEN Wires ELSE {w \in Wires : s \in Edges(w)})
         /\ \A w \in DOMAIN LevelsAt(s, i) : LevelsAt(s, i)[w] = wave[w][s]
         /\ Entry(s, LevelsAt(s, i)) \in Entries
<1> DEFINE D == IF i = 1 THEN Wires ELSE {w \in Wires : s \in Edges(w)}
<1>1. s \in 0 .. Ends - 1 /\ s \in Nat
  BY Bounds
<1>2. \A w \in Wires : wave[w][s] \in {0, 1}
  BY <1>1, Bounds
<1>3. D \in SUBSET Wires
  OBVIOUS
<1> HIDE DEF D
<1>4. LevelsAt(s, i) = [w \in D |-> wave[w][s]]
  BY DEF LevelsAt, D
<1>5. LevelsAt(s, i) \in [D -> {0, 1}]
  BY <1>2, <1>3, <1>4
<1>6. LevelsAt(s, i) \in Changes
  BY <1>3, <1>5 DEF Changes
<1>7. s * Ticks \in Nat
  BY <1>1, TicksPositive DEF VcdTypes
<1>8. Entry(s, LevelsAt(s, i)) \in Entries
  BY <1>6, <1>7 DEF Entry, Entries
<1>9. QED BY <1>4, <1>6, <1>8 DEF D

\* Between two samples without an edge a level stays.
LEMMA Flat ==
  ASSUME VcdTypes, NEW w \in Wires, NEW c \in flive .. Ends - 1, NEW s \in c .. Ends - 1,
         \A t \in Edges(w) : ~(c < t /\ t <= s)
  PROVE  wave[w][s] = wave[w][c]
<1> DEFINE T == {t \in c .. s : wave[w][t] # wave[w][c]}
<1>1. SUFFICES ASSUME T # {} PROVE FALSE
  <2>1. s \in c .. s
    BY Bounds
  <2>2. QED BY <2>1
<1>2. T \subseteq Nat
  BY Bounds
<1>3. PICK t \in T : \A u \in T : t <= u
  <2> HIDE DEF T
  <2>1. QED BY <1>1, <1>2, Least
<1>4. t \in c .. s /\ wave[w][t] # wave[w][c] /\ t # c
  OBVIOUS
<1>5. t \in Nat /\ c < t /\ t <= s /\ t - 1 \in c .. s /\ t \in flive + 1 .. Ends - 1
  BY <1>4, Bounds
<1>6. t - 1 \notin T
  <2> HIDE DEF T
  <2>1. QED BY <1>3, <1>5
<1>7. wave[w][t - 1] = wave[w][c]
  BY <1>5, <1>6
<1>8. t \in Edges(w)
  BY <1>4, <1>5, <1>7 DEF Edges
<1>9. QED BY <1>5, <1>8

\* The dump begins with the left border.
LEMMA VcdInitOK == VcdInit => VcdInv
<1> SUFFICES ASSUME VcdInit PROVE VcdInv
  OBVIOUS
<1>1. /\ wave \in [Wires -> [0 .. Ends - 1 -> {0, 1}]]
      /\ flive \in 0 .. Ends - 1 /\ vrate \in VcdRates
      /\ unwritten = [w \in Wires |-> Edges(w)] /\ vpc = "merge"
      /\ dump = << Entry(flive, [w \in Wires |-> wave[w][flive]]) >>
  BY DEF VcdInit
<1>2. VcdTypes
  <2>1. \A w \in Wires : Edges(w) \subseteq 0 .. Ends - 1
    <3>1. \A w \in Wires : Edges(w) \subseteq flive + 1 .. Ends - 1
      BY DEF Edges
    <3>2. flive + 1 .. Ends - 1 \subseteq 0 .. Ends - 1
      BY <1>1, VcdAssumption
    <3>3. QED BY <3>1, <3>2
  <2>2. QED BY <1>1, <2>1 DEF VcdTypes
<1> DEFINE at == << flive >>
<1>3. flive \in flive .. Ends - 1
  BY <1>2, Bounds
<1>4. at \in Seq(flive .. Ends - 1) /\ Len(at) = 1 /\ at[1] = flive /\ 1 .. Len(at) = {1}
  BY <1>3
<1>5. dump = << Entry(flive, LevelsAt(flive, 1)) >>
  BY <1>1 DEF LevelsAt
<1>6. Entry(flive, LevelsAt(flive, 1)) \in Entries
  BY <1>2, <1>3, LevelsType
<1>7. dump \in Seq(Entries) /\ Len(dump) = 1 /\ dump[1] = Entry(flive, LevelsAt(flive, 1))
  BY <1>5, <1>6
<1> HIDE DEF at
<1>8. \A w \in Wires : \A s \in Edges(w) : s > flive
  BY <1>2, Bounds
<1>9. \A w \in Wires : unwritten[w] = {s \in Edges(w) : s > at[Len(at)]}
  BY <1>1, <1>4, <1>8
<1>10. Rising(at)
  BY <1>4 DEF Rising
<1>11. Written(at)
  BY <1>4, <1>7, <1>8, <1>9, <1>10 DEF Written
<1>12. QED BY <1>1, <1>2, <1>11 DEF VcdInv, DumpReplays

\* A step of the merge writes the levels at the next rising sample.
LEMMA MergeOK ==
  ASSUME VcdInv, NEW s \in 0 .. Ends - 1, Earliest(s), vpc = "merge",
         dump' = Append(dump, Entry(s, [w \in {w \in Wires : s \in unwritten[w]} |-> wave[w][s]])),
         unwritten' = [w \in Wires |-> unwritten[w] \ {s}],
         UNCHANGED << wave, flive, vrate, vpc >>
  PROVE  VcdInv'
<1>1. VcdTypes
  BY DEF VcdInv
<1>2. PICK at : Written(at)
  BY DEF VcdInv
<1> DEFINE n == Len(at)
<1>3. /\ at \in Seq(flive .. Ends - 1) /\ n # 0 /\ at[1] = flive /\ Rising(at)
      /\ dump \in Seq(Entries) /\ Len(dump) = n
      /\ \A i \in 1 .. n : dump[i] = Entry(at[i], LevelsAt(at[i], i))
      /\ \A w \in Wires : unwritten[w] = {t \in Edges(w) : t > at[n]}
      /\ \A w \in Wires : \A t \in Edges(w) : t > at[n] \/ \E i \in 2 .. n : at[i] = t
  BY <1>2 DEF Written
<1>4. n \in Nat /\ n \in 1 .. n /\ at[n] \in flive .. Ends - 1 /\ at[n] \in Nat
  <2>1. n \in Nat /\ \A i \in 1 .. n : at[i] \in flive .. Ends - 1
    BY <1>3, LenProperties, ElementOfSeq
  <2>2. n \in 1 .. n
    BY <1>3, <2>1
  <2>3. flive .. Ends - 1 \subseteq Nat
    BY <1>1, Bounds
  <2> HIDE DEF n
  <2>4. QED BY <2>1, <2>2, <2>3
<1>5. PICK w0 \in Wires : s \in unwritten[w0]
  BY DEF Earliest
<1>6. s > at[n] /\ s \in flive .. Ends - 1 /\ s \in Nat /\ s \in flive + 1 .. Ends - 1
  <2>1. s \in Edges(w0) /\ s > at[n]
    BY <1>3, <1>5
  <2>2. QED BY <1>1, <2>1, Bounds
<1>7. \A w \in Wires : s \in unwritten[w] <=> s \in Edges(w)
  BY <1>3, <1>6
<1> DEFINE to == Append(at, s)
<1> DEFINE e == Entry(s, LevelsAt(s, n + 1))
<1>8. dump' = Append(dump, e)
  <2>1. {w \in Wires : s \in unwritten[w]} = {w \in Wires : s \in Edges(w)}
    BY <1>7
  <2>2. n + 1 # 1
    BY <1>3, <1>4
  <2>3. LevelsAt(s, n + 1) = [w \in {w \in Wires : s \in unwritten[w]} |-> wave[w][s]]
    <3> HIDE DEF n
    <3>1. QED BY <2>1, <2>2 DEF LevelsAt
  <2>4. QED BY <2>3
<1>9. e \in Entries
  <2> HIDE DEF n
  <2>1. QED BY <1>1, <1>6, LevelsType
<1> HIDE DEF e
<1> DEFINE d == Append(dump, e)
<1>10. /\ d \in Seq(Entries) /\ Len(d) = n + 1
       /\ \A i \in 1 .. n : d[i] = dump[i] 
       /\ d[n + 1] = e
  <2>1. /\ d \in Seq(Entries) /\ Len(d) = Len(dump) + 1
        /\ \A i \in 1 .. Len(dump) : d[i] = dump[i]
        /\ d[Len(dump) + 1] = e
    BY <1>3, <1>9, Appended
  <2> HIDE DEF d, n
  <2>2. QED BY <1>3, <2>1
<1>11. /\ to \in Seq(flive .. Ends - 1) /\ Len(to) = n + 1
       /\ \A i \in 1 .. n : to[i] = at[i]
       /\ to[n + 1] = s
  BY <1>3, <1>6, Appended
<1> HIDE DEF d, to, n
<1>12. \A i \in 1 .. n + 1 : i = n + 1 \/ i \in 1 .. n
  BY <1>4
<1>13. \A i \in 1 .. n : at[i] \in Nat /\ at[i] <= at[n]
  <2>1. TAKE i \in 1 .. n
  <2>2. at[i] \in flive .. Ends - 1
    BY <1>3, ElementOfSeq DEF n
  <2>3. at[i] \in Nat
    BY <1>1, <2>2, Bounds
  <2>4. CASE i = n
    BY <2>3, <2>4, <1>4
  <2>5. CASE i # n
    <3>1. i < n
      BY <1>4, <2>5
    <3>2. at[i] < at[n]
      BY <1>3, <1>4, <3>1 DEF Rising, n
    <3>3. QED BY <2>3, <3>2, <1>4
  <2>6. QED BY <2>4, <2>5
<1>14. Rising(to)
  <2>1. SUFFICES ASSUME NEW i \in 1 .. n + 1, NEW j \in 1 .. n + 1, i < j
                 PROVE  to[i] < to[j]
    BY <1>11 DEF Rising
  <2>2. i \in 1 .. n /\ i # n + 1
    BY <1>4, <2>1
  <2>3. CASE j \in 1 .. n
    <3>1. at[i] < at[j]
      BY <1>3, <2>1, <2>2, <2>3 DEF Rising, n
    <3>2. QED BY <1>11, <2>2, <2>3, <3>1
  <2>4. CASE j = n + 1
    <3>1. at[i] <= at[n] /\ at[i] \in Nat
      BY <1>13, <2>2
    <3>2. at[i] < s
      BY <1>4, <1>6, <3>1
    <3>3. QED BY <1>11, <2>2, <2>4, <3>2
  <2>5. QED BY <1>12, <2>3, <2>4
<1>15. \A i \in 1 .. n + 1 : d[i] = Entry(to[i], LevelsAt(to[i], i))
  <2>1. TAKE i \in 1 .. n + 1
  <2>2. CASE i \in 1 .. n
    BY <2>2, <1>3, <1>10, <1>11
  <2>3. CASE i = n + 1
    BY <2>3, <1>10, <1>11 DEF e
  <2>4. QED BY <1>12, <2>2, <2>3
<1>16. \A w \in Wires : unwritten[w] \ {s} = {t \in Edges(w) : t > s}
  <2>1. TAKE w \in Wires
  <2>2. \A t \in unwritten[w] : s <= t
    BY DEF Earliest
  <2>3. \A t \in Edges(w) : t \in Nat
    BY <1>1, Bounds
  <2>4. ASSUME NEW t \in unwritten[w] \ {s} PROVE t \in Edges(w) /\ t > s
    <3>1. t \in Edges(w) /\ s <= t /\ t # s
      BY <1>3, <2>2
    <3>2. QED BY <3>1, <2>3, <1>6
  <2>5. ASSUME NEW t \in Edges(w), t > s PROVE t \in unwritten[w] \ {s}
    <3>1. t \in Nat /\ t > at[n] /\ t # s
      BY <1>4, <1>6, <2>3, <2>5
    <3>2. QED BY <1>3, <3>1
  <2>6. QED BY <2>4, <2>5
<1>17. \A w \in Wires : \A t \in Edges(w) : t > s \/ \E i \in 2 .. n + 1 : to[i] = t
  <2>1. SUFFICES ASSUME NEW w \in Wires, NEW t \in Edges(w), ~(t > s)
                 PROVE  \E i \in 2 .. n + 1 : to[i] = t
    OBVIOUS
  <2>2. CASE t > at[n]
    <3>1. t \notin unwritten[w] \ {s} /\ t \in unwritten[w]
      BY <1>3, <1>16, <2>1, <2>2
    <3>2. t = s /\ n + 1 \in 2 .. n + 1
      BY <1>4, <3>1
    <3>3. QED BY <1>11, <3>2
  <2>3. CASE ~(t > at[n])
    <3>1. PICK i \in 2 .. n : at[i] = t
      BY <1>3, <2>3
    <3>2. i \in 1 .. n /\ i \in 2 .. n + 1
      BY <1>4
    <3>3. QED BY <1>11, <3>1, <3>2
  <2>4. QED BY <2>2, <2>3
<1>18. VcdTypes'
  <2>1. unwritten' \in [Wires -> SUBSET (0 .. Ends - 1)]
    BY <1>1 DEF VcdTypes
  <2>2. QED BY <1>1, <2>1 DEF VcdTypes
<1>19. (\A w : Edges(w)' = Edges(w)) /\ \A t, i : Entry(t, LevelsAt(t, i))' = Entry(t, LevelsAt(t, i))
  BY DEF Edges, Entry, LevelsAt, Ticks, Coarser, Period
<1>20. Written(to)'
  <2>1. dump' = d
    BY <1>8 DEF d
  <2>2. \A w \in Wires : unwritten'[w] = {t \in Edges(w) : t > s}
    BY <1>16
  <2>3. n + 1 # 0 /\ 1 \in 1 .. n
    BY <1>3, <1>4
  <2>4. to[1] = flive
    BY <1>3, <1>11, <2>3
  <2>5. dump' \in Seq(Entries) /\ Len(dump') = n + 1
    BY <2>1, <1>10
  <2>6. \A i \in 1 .. n + 1 : dump'[i] = Entry(to[i], LevelsAt(to[i], i))
    BY <2>1, <1>15
  <2>7. \A i : Entry(to[i], LevelsAt(to[i], i))' = Entry(to[i], LevelsAt(to[i], i))
    BY <1>19
  <2>8. \A w : Edges(w)' = Edges(w)
    BY <1>19
  <2>9. flive' = flive
    OBVIOUS
  <2>10. \A w \in Wires : unwritten'[w] = {t \in Edges(w)' : t > to[Len(to)]}
    BY <2>2, <2>8, <1>11
  <2>11. \A w \in Wires : \A t \in Edges(w)' : t > to[Len(to)] \/ \E i \in 2 .. Len(to) : to[i] = t
    BY <1>11, <1>17, <2>8
  <2>12. \A i \in 1 .. Len(to) : dump'[i] = Entry(to[i], LevelsAt(to[i], i))'
    BY <1>11, <2>6, <2>7
  <2>13. /\ to \in Seq(flive' .. Ends - 1) /\ Len(to) # 0 /\ to[1] = flive' /\ Len(dump') = Len(to)
    BY <1>11, <2>3, <2>4, <2>5, <2>9
  <2>14. QED BY <1>14, <2>5, <2>10, <2>11, <2>12, <2>13 DEF Written
<1>21. vpc' = "merge"
  OBVIOUS
<1>22. QED BY <1>18, <1>20, <1>21 DEF VcdInv, DumpReplays

\* A dump of all edges, closed, is the capture.
LEMMA Replays ==
  ASSUME VcdTypes, NEW at, Written(at), \A w \in Wires : unwritten[w] = {},
         NEW d, d = Append(dump, Entry(Ends, << >>))
  PROVE  /\ \A i \in 1 .. Len(d) - 1 : d[i].time < d[i + 1].time
         /\ \A w \in Wires, s \in flive .. Ends - 1 : Replayed(d, w, s * Ticks) = wave[w][s]
<1> DEFINE n == Len(at)
<1> DEFINE T(x) == x * Ticks
<1>1. /\ at \in Seq(flive .. Ends - 1) /\ n # 0 /\ at[1] = flive /\ Rising(at)
      /\ dump \in Seq(Entries) /\ Len(dump) = n
      /\ \A i \in 1 .. n : dump[i] = Entry(at[i], LevelsAt(at[i], i))
      /\ \A w \in Wires : \A t \in Edges(w) : \E i \in 2 .. n : at[i] = t
  BY DEF Written
<1>2. Ticks \in Nat \ {0}
  BY TicksPositive DEF VcdTypes
<1>9. \A x, y \in Nat : (x < y <=> T(x) < T(y)) /\ T(x) \in Nat
  <2>1. ASSUME NEW x \in Nat, NEW y \in Nat PROVE x < y <=> T(x) < T(y)
    <3> DEFINE m == Ticks
    <3>1. m \in Nat \ {0}
      BY <1>2
    <3> HIDE DEF m
    <3>2. ASSUME x < y PROVE x * m < y * m
      <4>1. m * (x + 1) <= m * y
        BY <3>1, <3>2, TimesGrows
      <4>2. m * (x + 1) = x * m + m /\ m * y = y * m /\ x * m \in Nat /\ y * m \in Nat
        BY <3>1
      <4>3. QED BY <3>1, <4>1, <4>2
    <3>3. ASSUME y <= x PROVE y * m <= x * m
      <4>1. m * y <= m * x
        BY <3>1, <3>3, TimesGrows
      <4>2. m * x = x * m /\ m * y = y * m
        BY <3>1
      <4>3. QED BY <4>1, <4>2
    <3>4. x * m \in Nat /\ y * m \in Nat
      BY <3>1
    <3>5. x < y \/ y <= x
      OBVIOUS
    <3>6. QED BY <3>2, <3>3, <3>4, <3>5 DEF m
  <2>2. \A x \in Nat : T(x) \in Nat
    BY <1>2
  <2>3. QED BY <2>1, <2>2
<1>14. /\ \A x, c : Entry(x, c).time = T(x) /\ Entry(x, c).changes = c
      /\ \A x : x * Ticks = T(x)
  BY DEF Entry
<1> HIDE DEF T
<1>3. n \in Nat /\ 1 \in 1 .. n /\ n \in 1 .. n
  <2>1. n \in Nat
    BY <1>1, LenProperties
  <2>2. QED BY <1>1, <2>1
<1>4. \A i \in 1 .. n : at[i] \in flive .. Ends - 1 /\ at[i] \in Nat /\ at[i] < Ends
  <2>1. \A i \in 1 .. n : at[i] \in flive .. Ends - 1
    BY <1>1, ElementOfSeq
  <2>2. \A t \in flive .. Ends - 1 : t \in Nat /\ t < Ends
    BY Bounds
  <2>3. QED BY <2>1, <2>2
<1>5. Rising(at) => \A i, j \in 1 .. n : i < j => at[i] < at[j]
  BY DEF Rising
<1> HIDE DEF n
<1> DEFINE e == Entry(Ends, << >>)
<1>6. e.time = T(Ends) /\ DOMAIN e.changes = {}
  BY <1>14
<1>7. /\ Len(d) = n + 1 /\ DOMAIN d = 1 .. n + 1
      /\ \A i \in 1 .. n : d[i] = dump[i]
      /\ d[n + 1] = e
  <2> HIDE DEF e
  <2>1. d = Append(dump, e)
    BY DEF e
  <2> DEFINE E == Entries \cup {e}
  <2>2. dump \in Seq(E) /\ e \in E
    BY <1>1
  <2> HIDE DEF E
  <2>3. /\ d \in Seq(E) /\ Len(d) = Len(dump) + 1
        /\ \A i \in 1 .. Len(dump) : d[i] = dump[i]
        /\ d[Len(dump) + 1] = e
    BY <2>1, <2>2, Appended
  <2>4. DOMAIN d = 1 .. Len(d)
    BY <2>3, LenProperties
  <2>5. QED BY <1>1, <2>3, <2>4
<1>8. ASSUME NEW i \in 1 .. n
      PROVE  /\ d[i].time = T(at[i])
             /\ DOMAIN d[i].changes = (IF i = 1 THEN Wires ELSE {w \in Wires : at[i] \in Edges(w)})
             /\ \A w \in DOMAIN d[i].changes : d[i].changes[w] = wave[w][at[i]]
  <2>1. d[i] = Entry(at[i], LevelsAt(at[i], i))
    BY <1>1, <1>7
  <2>2. d[i].time = T(at[i]) /\ d[i].changes = LevelsAt(at[i], i)
    BY <1>14, <2>1
  <2>3. at[i] \in flive .. Ends - 1
    BY <1>4
  <2>4. /\ DOMAIN LevelsAt(at[i], i) = (IF i = 1 THEN Wires ELSE {w \in Wires : at[i] \in Edges(w)})
        /\ \A w \in DOMAIN LevelsAt(at[i], i) : LevelsAt(at[i], i)[w] = wave[w][at[i]]
    <3>1. PICK s \in flive .. Ends - 1 : s = at[i]
      BY <2>3
    <3>2. /\ DOMAIN LevelsAt(s, i) = (IF i = 1 THEN Wires ELSE {w \in Wires : s \in Edges(w)})
          /\ \A w \in DOMAIN LevelsAt(s, i) : LevelsAt(s, i)[w] = wave[w][s]
      BY LevelsType
    <3>3. QED BY <3>1, <3>2
  <2>5. QED BY <2>2, <2>4
<1>10. Ends \in Nat
  BY Bounds
<1> HIDE DEF e
<1>11. ASSUME NEW i \in 1 .. Len(d) - 1 PROVE d[i].time < d[i + 1].time
  <2>0. i \in 1 .. n
    BY <1>3, <1>7
  <2>1. i \in 1 .. n /\ d[i].time = T(at[i]) /\ at[i] \in Nat
    BY <2>0, <1>4, <1>8
  <2>2. CASE i = n
    <3>1. T(at[i]) < T(Ends)
      BY <1>4, <1>9, <1>10, <2>1
    <3>2. QED BY <1>6, <1>7, <2>1, <2>2, <3>1
  <2>3. CASE i # n
    <3>1. i + 1 \in 1 .. n /\ i < i + 1
      BY <1>3, <2>1, <2>3
    <3>2. at[i] < at[i + 1]
      BY <1>1, <1>5, <2>1, <3>1
    <3>3. T(at[i]) < T(at[i + 1])
      BY <1>4, <1>9, <2>1, <3>1, <3>2
    <3>4. QED BY <1>8, <2>1, <3>1, <3>3
  <2>4. QED BY <2>2, <2>3
<1>12. ASSUME NEW w \in Wires, NEW s \in flive .. Ends - 1
       PROVE  Replayed(d, w, s * Ticks) = wave[w][s]
  <2> DEFINE I == {i \in 1 .. n : w \in DOMAIN d[i].changes /\ at[i] <= s}
  <2> DEFINE P(i) == /\ w \in DOMAIN d[i].changes /\ d[i].time <= T(s)
                     /\ \A j \in i + 1 .. Len(d) :
                           w \notin DOMAIN d[j].changes \/ d[j].time > T(s)
  <2> DEFINE k == CHOOSE i \in DOMAIN d : P(i)
  <2>1. Replayed(d, w, s * Ticks) = d[k].changes[w]
    BY DEF Replayed, T
  <2>2. s \in Nat /\ s < Ends /\ flive \in Nat
    BY Bounds
  <2>3. ASSUME NEW i \in 1 .. n PROVE d[i].time <= T(s) <=> at[i] <= s
    <3>1. d[i].time = T(at[i]) /\ at[i] \in Nat
      BY <1>4, <1>8
    <3>2. s < at[i] <=> T(s) < T(at[i])
      BY <1>9, <2>2, <3>1
    <3>3. T(at[i]) \in Nat /\ T(s) \in Nat
      BY <1>9, <2>2, <3>1
    <3>4. T(at[i]) <= T(s) <=> ~(T(s) < T(at[i]))
      BY <3>3
    <3>5. at[i] <= s <=> ~(s < at[i])
      BY <2>2, <3>1
    <3>6. T(at[i]) <= T(s) <=> at[i] <= s
      BY <3>2, <3>4, <3>5
    <3>7. QED BY <3>1, <3>6
  <2>4. 1 \in I
    <3>1. w \in DOMAIN d[1].changes
      BY <1>3, <1>8
    <3>2. at[1] <= s
      BY <1>1, <2>2
    <3>3. QED BY <1>3, <3>1, <3>2
  <2>5. PICK m \in I : \A j \in I : j <= m
    <3> DEFINE N == {n - i : i \in I}
    <3>1. N \subseteq Nat /\ N # {}
      BY <1>3, <2>4
    <3>2. PICK y \in N : \A z \in N : y <= z
      <4> HIDE DEF N
      <4>1. QED BY <3>1, Least
    <3>3. PICK m \in I : y = n - m
      OBVIOUS
    <3>4. ASSUME NEW j \in I PROVE j <= m
      <4>1. n - m <= n - j
        BY <3>2, <3>3
      <4>2. m \in 1 .. n /\ j \in 1 .. n
        OBVIOUS
      <4>3. QED BY <1>3, <4>1, <4>2
    <3>5. QED BY <3>4
  <2>6. m \in 1 .. n /\ w \in DOMAIN d[m].changes /\ at[m] <= s
    OBVIOUS
  <2>7. P(m)
    <3>1. ASSUME NEW j \in m + 1 .. Len(d), w \in DOMAIN d[j].changes
          PROVE  d[j].time > T(s)
      <4>1. j # n + 1
        BY <1>6, <1>7, <3>1
      <4>2. j \in 1 .. n /\ ~(j <= m)
        BY <1>3, <1>7, <2>6, <4>1
      <4>3. j \notin I
        <5> HIDE DEF I
        <5>1. QED BY <2>5, <4>2
      <4>4. ~(at[j] <= s)
        BY <3>1, <4>2, <4>3
      <4>5. d[j].time = T(at[j]) /\ T(at[j]) \in Nat /\ T(s) \in Nat
        BY <1>4, <1>8, <1>9, <2>2, <4>2
      <4>6. QED BY <2>3, <4>2, <4>4, <4>5
    <3>2. d[m].time <= T(s)
      BY <2>3, <2>6
    <3>3. QED BY <2>6, <3>1, <3>2
  <2>8. k \in DOMAIN d /\ P(k)
    <3>1. m \in DOMAIN d
      BY <1>3, <1>7, <2>6
    <3> HIDE DEF P
    <3>2. QED BY <2>7, <3>1
  <2>9. /\ w \in DOMAIN d[k].changes /\ d[k].time <= T(s)
        /\ \A j \in k + 1 .. Len(d) : w \notin DOMAIN d[j].changes \/ d[j].time > T(s)
    BY <2>8
  <2> HIDE DEF k, P, I
  <2>10. k \in 1 .. n
    <3>1. k # n + 1
      BY <1>6, <1>7, <2>9
    <3>2. QED BY <1>3, <1>7, <2>8, <3>1
  <2>11. at[k] <= s /\ at[k] \in flive .. Ends - 1 /\ at[k] \in Nat
    BY <1>4, <2>3, <2>9, <2>10
  <2>12. ASSUME NEW t \in Edges(w), at[k] < t, t <= s PROVE FALSE
    <3>1. PICK i \in 2 .. n : at[i] = t
      BY <1>1
    <3>2. i \in 1 .. n /\ i # 1 /\ i \in Nat /\ k \in Nat
      BY <1>3, <2>10
    <3>3. w \in DOMAIN d[i].changes
      BY <1>8, <3>1, <3>2
    <3>4. d[i].time <= T(s)
      BY <2>3, <2>12, <3>1, <3>2
    <3>5. k < i
      <4>1. ASSUME i < k PROVE FALSE
        <5>1. at[i] < at[k]
          BY <1>1, <1>5, <2>10, <3>2, <4>1
        <5>2. at[i] \in Nat
          BY <1>4, <3>2
        <5>3. QED BY <2>11, <2>12, <3>1, <5>1, <5>2
      <4>2. i # k
        BY <2>11, <2>12, <3>1
      <4>3. QED BY <3>2, <4>1, <4>2
    <3>6. i \in k + 1 .. Len(d)
      BY <1>3, <1>7, <3>2, <3>5
    <3>7. d[i].time \in Nat /\ T(s) \in Nat
      <4>1. d[i].time = T(at[i]) /\ at[i] \in Nat
        BY <1>4, <1>8, <3>2
      <4>2. T(at[i]) \in Nat /\ T(s) \in Nat
        BY <1>9, <2>2, <4>1
      <4>3. QED BY <4>1, <4>2
    <3>8. QED BY <2>9, <3>3, <3>4, <3>6, <3>7
  <2>13. s \in at[k] .. Ends - 1
    BY <2>2, <2>11
  <2>14. wave[w][s] = wave[w][at[k]]
    BY <2>11, <2>12, <2>13, Flat
  <2>15. d[k].changes[w] = wave[w][at[k]]
    BY <1>8, <2>9, <2>10
  <2>16. QED BY <2>1, <2>14, <2>15
<1>13. QED BY <1>11, <1>12

\* The last line closes a dump that replays.
LEMMA CloseOK ==
  ASSUME VcdInv, Close
  PROVE  VcdInv'
<1>1. /\ vpc = "merge" /\ \A w \in Wires : unwritten[w] = {}
      /\ dump' = Append(dump, Entry(Ends, << >>)) /\ vpc' = "done"
      /\ wave' = wave /\ flive' = flive /\ vrate' = vrate /\ unwritten' = unwritten
  BY DEF Close
<1>2. VcdTypes
  BY DEF VcdInv
<1>3. PICK at : Written(at)
  BY <1>1 DEF VcdInv
<1>4. PICK d : d = dump'
  OBVIOUS
<1>5. /\ \A i \in 1 .. Len(d) - 1 : d[i].time < d[i + 1].time
      /\ \A w \in Wires, s \in flive .. Ends - 1 : Replayed(d, w, s * Ticks) = wave[w][s]
  BY <1>1, <1>2, <1>3, <1>4, Replays
<1>6. Ticks' = Ticks
  BY <1>1 DEF Ticks, Coarser, Period
<1>7. DumpReplays'
  <2>1. \A w, t : Replayed(d, w, t) = Replayed(dump', w, t)
    BY <1>4
  <2>2. \A w \in Wires, s \in flive' .. Ends - 1 : Replayed(dump', w, s * Ticks') = wave'[w][s]
    BY <1>1, <1>5, <1>6, <2>1
  <2>3. \A i \in 1 .. Len(dump') - 1 : dump'[i].time < dump'[i + 1].time
    BY <1>4, <1>5
  <2>4. QED BY <2>2, <2>3 DEF DumpReplays
<1>8. VcdTypes'
  BY <1>1, <1>2 DEF VcdTypes
<1>9. vpc' # "merge"
  BY <1>1
<1>10. QED BY <1>7, <1>8, <1>9 DEF VcdInv

\* In every state a closed dump is the capture: times strictly rise and a
\* reader gets the level of every sample (App::export_vcd).
THEOREM DumpsReplay == VcdSpec => []DumpReplays
<1>1. VcdInit => VcdInv
  BY VcdInitOK
<1>2. VcdInv /\ [VcdNext]_vcdVars => VcdInv'
  <2> SUFFICES ASSUME VcdInv, [VcdNext]_vcdVars PROVE VcdInv'
    OBVIOUS
  <2>1. CASE Merge
    <3>1. PICK s \in 0 .. Ends - 1 :
             /\ Earliest(s)
             /\ dump' = Append(dump, Entry(s, [w \in {w \in Wires : s \in unwritten[w]}
                                                 |-> wave[w][s]]))
             /\ unwritten' = [w \in Wires |-> unwritten[w] \ {s}]
      BY <2>1 DEF Merge
    <3>2. vpc = "merge" /\ UNCHANGED << wave, flive, vrate, vpc >>
      BY <2>1 DEF Merge
    <3>3. QED BY <3>1, <3>2, MergeOK
  <2>2. CASE Close
    BY <2>2, CloseOK
  <2>3. CASE UNCHANGED vcdVars
    <3>1. /\ wave' = wave /\ flive' = flive /\ vrate' = vrate
          /\ unwritten' = unwritten /\ dump' = dump /\ vpc' = vpc
      BY <2>3 DEF vcdVars
    <3>2. /\ (\A w : Edges(w)' = Edges(w)) /\ Ticks' = Ticks
          /\ \A s, c : Entry(s, c)' = Entry(s, c)
      BY <3>1 DEF Edges, Entry, Ticks, Coarser, Period
    <3>3. \A s, i : LevelsAt(s, i)' = LevelsAt(s, i)
      BY <3>1, <3>2 DEF LevelsAt
    <3>4. VcdTypes'
      BY <3>1 DEF VcdInv, VcdTypes
    <3>5. vpc' = "merge" => \E at : Written(at)'
      BY <3>1, <3>2, <3>3 DEF VcdInv, Written
    <3>6. DumpReplays'
      BY <3>1, <3>2 DEF VcdInv, DumpReplays
    <3>7. QED BY <3>4, <3>5, <3>6 DEF VcdInv
  <2>4. QED BY <2>1, <2>2, <2>3 DEF VcdNext
<1>3. VcdInv => DumpReplays
  BY DEF VcdInv
<1>4. QED BY <1>1, <1>2, <1>3, PTL DEF VcdSpec

-----------------------------------------------------------------------------
(* Measure: the time high that is integrated over the edges.               *)

HighIn(lo, s) == {t \in lo .. s : shown[t + 1] = 1}

\* The record of the integration with the time after its last edge.
Total(r, s) == r.high + (IF r.cur = 1 THEN s + 1 - r.prev ELSE 0)

Step(lo, hi, f, s) ==
    IF s = lo THEN [high |-> 0, prev |-> lo, cur |-> shown[lo + 1]]
    ELSE IF s \notin EdgesIn(lo, hi) THEN f[s - 1]
    ELSE LET r == f[s - 1]
         IN  [high |-> r.high + (IF r.cur = 1 THEN s - r.prev ELSE 0),
              prev |-> s, cur |-> shown[s + 1]]

\* The samples of an interval are levels.
LEMMA Levels ==
  ASSUME shown \in Seq({0, 1}), NEW lo \in Nat, NEW hi \in Nat, lo < hi, hi <= Len(shown)
  PROVE  \A s \in lo .. hi - 1 : shown[s + 1] \in {0, 1}
<1>1. Len(shown) \in Nat
  BY LenProperties
<1>2. \A s \in lo .. hi - 1 : s + 1 \in 1 .. Len(shown)
  BY <1>1
<1>3. \A i \in 1 .. Len(shown) : shown[i] \in {0, 1}
  BY ElementOfSeq
<1>4. QED BY <1>2, <1>3

\* The integration defines a record at every sample.
LEMMA UptoExists ==
  ASSUME shown \in Seq({0, 1}), NEW lo \in Nat, NEW hi \in Nat, lo < hi, hi <= Len(shown)
  PROVE  \E f : f = [s \in lo .. hi - 1 |-> Step(lo, hi, f, s)]
<1> DEFINE R == [high : Int, prev : Int, cur : {0, 1}]
<1> DEFINE b == [high |-> 0, prev |-> lo, cur |-> shown[lo + 1]]
<1> DEFINE next(s, r) == IF s \notin EdgesIn(lo, hi) THEN r
                         ELSE [high |-> r.high + (IF r.cur = 1 THEN s - r.prev ELSE 0),
                               prev |-> s, cur |-> shown[s + 1]]
<1> DEFINE F == [k \in Nat |-> [r \in R |-> next(lo + k, r)]]
<1>1. \A s \in lo .. hi - 1 : shown[s + 1] \in {0, 1}
  BY Levels
<1>2. b \in R
  <2>1. lo \in lo .. hi - 1
    OBVIOUS
  <2>2. QED BY <1>1, <2>1
<1>3. ASSUME NEW s \in Int, NEW r \in R PROVE next(s, r) \in R
  <2>1. CASE s \notin EdgesIn(lo, hi)
    BY <2>1
  <2>2. CASE s \in EdgesIn(lo, hi)
    <3>1. s \in lo .. hi - 1
      BY <2>2 DEF EdgesIn
    <3>2. shown[s + 1] \in {0, 1}
      BY <1>1, <3>1
    <3>3. r.high + (IF r.cur = 1 THEN s - r.prev ELSE 0) \in Int
      OBVIOUS
    <3>4. QED BY <2>2, <3>2, <3>3
  <2>3. QED BY <2>1, <2>2
<1> HIDE DEF R, b, next
<1>4. F \in [Nat -> [R -> R]] /\ \A k \in Nat, r \in R : F[k][r] = next(lo + k, r)
  <2>1. \A k \in Nat, r \in R : next(lo + k, r) \in R
    BY <1>3
  <2>2. QED BY <2>1
<1> HIDE DEF F
<1> DEFINE n == hi - 1 - lo
<1>5. n \in Nat
  OBVIOUS
<1> HIDE DEF n
<1>6. PICK g : Recursive(g, n, R, b, F)
  BY <1>2, <1>4, <1>5, Recursion
<1>7. /\ g \in [0 .. n -> R] /\ g[0] = b
      /\ \A k \in 1 .. n : g[k] = F[k][g[k - 1]]
  BY <1>6 DEF Recursive
<1> DEFINE f == [s \in lo .. hi - 1 |-> g[s - lo]]
<1>8. \A s \in lo .. hi - 1 : f[s] = g[s - lo]
  OBVIOUS
<1> HIDE DEF f
<1>9. ASSUME NEW s \in lo .. hi - 1 PROVE f[s] = Step(lo, hi, f, s)
  <2>1. CASE s = lo
    <3>1. s - lo = 0
      BY <2>1
    <3>2. f[s] = b
      BY <1>7, <1>8, <3>1
    <3>3. QED BY <2>1, <3>2 DEF Step, b
  <2>2. CASE s # lo
    <3> DEFINE k == s - lo
    <3>1. k \in 1 .. n /\ k \in Nat /\ k - 1 \in 0 .. n /\ lo + k = s
      BY <2>2, <1>5 DEF n
    <3>2. s - 1 \in lo .. hi - 1 /\ (s - 1) - lo = k - 1
      BY <2>2
    <3>3. f[s] = g[k]
      BY <1>8
    <3>4. f[s - 1] = g[k - 1]
      BY <1>8, <3>2
    <3> HIDE DEF k
    <3>5. g[k] = next(s, g[k - 1])
      <4>1. g[k - 1] \in R
        BY <1>7, <3>1
      <4>2. g[k] = F[k][g[k - 1]]
        BY <1>7, <3>1
      <4>3. QED BY <1>4, <3>1, <4>1, <4>2
    <3>6. QED BY <2>2, <3>3, <3>4, <3>5 DEF Step, next
  <2>3. QED BY <2>1, <2>2
<1>10. f = [s \in lo .. hi - 1 |-> Step(lo, hi, f, s)]
  <2>1. f = [s \in lo .. hi - 1 |-> f[s]]
    BY DEF f
  <2>2. QED BY <1>9, <2>1
<1>11. QED BY <1>10

\* One more sample is high, or is not.
LEMMA HighGrows ==
  ASSUME shown \in Seq({0, 1}), NEW lo \in Nat, NEW s \in Nat, lo < s
  PROVE  /\ Cardinality(HighIn(lo, s - 1)) \in Nat
         /\ Cardinality(HighIn(lo, s)) =
              Cardinality(HighIn(lo, s - 1)) + IF shown[s + 1] = 1 THEN 1 ELSE 0
<1>1. IsFiniteSet(HighIn(lo, s - 1)) /\ s \notin HighIn(lo, s - 1)
  <2>1. IsFiniteSet(lo .. s - 1)
    BY FS_Interval
  <2>2. HighIn(lo, s - 1) \in SUBSET (lo .. s - 1) /\ s \notin lo .. s - 1
    BY DEF HighIn
  <2>3. QED BY <2>1, <2>2, FS_Subset
<1>2. HighIn(lo, s) = IF shown[s + 1] = 1 THEN HighIn(lo, s - 1) \cup {s} ELSE HighIn(lo, s - 1)
  <2>1. \A t : t \in lo .. s <=> t \in lo .. s - 1 \/ t = s
    OBVIOUS
  <2>2. QED BY <2>1 DEF HighIn
<1>3. Cardinality(HighIn(lo, s - 1)) \in Nat
  BY <1>1, FS_CardinalityType
<1>4. Cardinality(HighIn(lo, s - 1) \cup {s}) = Cardinality(HighIn(lo, s - 1)) + 1
  BY <1>1, FS_AddElement
<1>5. QED BY <1>2, <1>3, <1>4

\* With the time after the last edge it is the number of samples that are high.
LEMMA IntegratedIs ==
  ASSUME shown \in Seq({0, 1}), NEW lo \in Nat, NEW hi \in Nat, lo < hi, hi <= Len(shown)
  PROVE  LET w == Integrated(lo, hi)
         IN  w.high + (IF w.cur = 1 THEN hi - w.prev ELSE 0)
               = Cardinality({s \in lo .. hi - 1 : shown[s + 1] = 1})
<1> DEFINE f == CHOOSE f : f = [s \in lo .. hi - 1 |-> Step(lo, hi, f, s)]
<1>1. f = [s \in lo .. hi - 1 |-> Step(lo, hi, f, s)]
  BY UptoExists
<1>2. Integrated(lo, hi) = f[hi - 1]
  BY DEF Integrated, Step
<1> HIDE DEF f
<1>3. \A s \in lo .. hi - 1 : f[s] = Step(lo, hi, f, s)
  BY <1>1
<1>4. \A s \in lo .. hi - 1 : shown[s + 1] \in {0, 1}
  BY Levels
<1> DEFINE P(s) == /\ f[s].high \in Int /\ f[s].prev \in Int /\ f[s].cur = shown[s + 1]
                   /\ Total(f[s], s) = Cardinality(HighIn(lo, s))
<1> DEFINE Bad == {s \in lo .. hi - 1 : ~ P(s)}
<1>5. ASSUME Bad # {} PROVE FALSE
  <2>1. PICK s \in Bad : \A t \in Bad : s <= t
    <3>1. Bad \subseteq Nat
      OBVIOUS
    <3> HIDE DEF Bad
    <3>2. QED BY <1>5, <3>1, Least
  <2>2. s \in lo .. hi - 1 /\ ~ P(s) /\ s \in Nat
    OBVIOUS
  <2>3. CASE s = lo
    <3>1. f[s] = [high |-> 0, prev |-> lo, cur |-> shown[lo + 1]]
      BY <1>3, <2>2, <2>3 DEF Step
    <3>2. HighIn(lo, s) = IF shown[s + 1] = 1 THEN {s} ELSE {}
      <4>1. lo .. s = {s}
        BY <2>3
      <4>2. QED BY <4>1 DEF HighIn
    <3>3. Cardinality(HighIn(lo, s)) = IF shown[s + 1] = 1 THEN 1 ELSE 0
      BY <3>2, FS_Singleton, FS_EmptySet
    <3>4. Total(f[s], s) = IF shown[s + 1] = 1 THEN 1 ELSE 0
      BY <2>3, <3>1 DEF Total
    <3>5. P(s)
      BY <2>3, <3>1, <3>3, <3>4
    <3>6. QED BY <2>2, <3>5
  <2>4. CASE s # lo
    <3>1. s - 1 \in lo .. hi - 1 /\ lo < s /\ (s - 1) + 1 = s /\ s \in lo + 1 .. hi - 1
      BY <2>2, <2>4
    <3>2. P(s - 1)
      <4>1. s - 1 \notin Bad
        <5> HIDE DEF Bad
        <5>1. QED BY <2>1, <2>2, <3>1
      <4> HIDE DEF P
      <4>2. QED BY <3>1, <4>1
    <3> DEFINE r == f[s - 1]
    <3> DEFINE c == Cardinality(HighIn(lo, s - 1))
    <3>3. r.high \in Int /\ r.prev \in Int /\ r.cur = shown[s] /\ Total(r, s - 1) = c
      BY <3>1, <3>2
    <3>4. c \in Nat /\ Cardinality(HighIn(lo, s)) = c + IF shown[s + 1] = 1 THEN 1 ELSE 0
      BY <2>2, <3>1, HighGrows
    <3>5. r.high + (IF r.cur = 1 THEN s - r.prev ELSE 0) = c
      <4>1. PICK m : m = s - 1
        OBVIOUS
      <4> HIDE DEF r, c
      <4>2. m + (1 - r.prev) = s - r.prev
        BY <2>2, <3>1, <3>3, <4>1
      <4>3. Total(r, m) = r.high + (IF r.cur = 1 THEN s - r.prev ELSE 0)
        BY <4>2 DEF Total
      <4>4. QED BY <3>3, <4>1, <4>3
    <3>6. shown[s] \in {0, 1} /\ shown[s + 1] \in {0, 1}
      BY <1>4, <2>2, <3>1
    <3>7. f[s] = IF shown[s + 1] = shown[s] THEN r
                 ELSE [high |-> r.high + (IF r.cur = 1 THEN s - r.prev ELSE 0),
                       prev |-> s, cur |-> shown[s + 1]]
      <4>1. s \in EdgesIn(lo, hi) <=> shown[s + 1] # shown[s]
        BY <3>1 DEF EdgesIn
      <4>2. QED BY <1>3, <2>2, <2>4, <4>1 DEF Step
    <3> HIDE DEF r, c
    <3>8. CASE shown[s + 1] = shown[s]
      <4>1. f[s] = r
        BY <3>7, <3>8
      <4>2. Total(r, s) = c + IF shown[s + 1] = 1 THEN 1 ELSE 0
        BY <2>2, <3>3, <3>5, <3>6, <3>8 DEF Total
      <4>3. P(s)
        BY <3>3, <3>4, <3>8, <4>1, <4>2
      <4>4. QED BY <2>2, <4>3
    <3>9. CASE shown[s + 1] # shown[s]
      <4>1. f[s] = [high |-> c, prev |-> s, cur |-> shown[s + 1]]
        BY <3>5, <3>7, <3>9
      <4>2. Total(f[s], s) = c + IF shown[s + 1] = 1 THEN 1 ELSE 0
        BY <2>2, <3>4, <4>1 DEF Total
      <4>3. P(s)
        BY <2>2, <3>4, <4>1, <4>2
      <4>4. QED BY <2>2, <4>3
    <3>10. QED BY <3>8, <3>9
  <2>5. QED BY <2>3, <2>4
<1>6. hi - 1 \in lo .. hi - 1 /\ (hi - 1) + 1 = hi
  OBVIOUS
<1>7. P(hi - 1)
  <2> HIDE DEF P
  <2>1. QED BY <1>5, <1>6
<1>8. Total(f[hi - 1], hi - 1) = Cardinality(HighIn(lo, hi - 1))
  BY <1>7
<1>9. f[hi - 1].high + (IF f[hi - 1].cur = 1 THEN hi - f[hi - 1].prev ELSE 0)
        = Cardinality({s \in lo .. hi - 1 : shown[s + 1] = 1})
  <2>1. Total(f[hi - 1], hi - 1)
          = f[hi - 1].high + (IF f[hi - 1].cur = 1 THEN hi - f[hi - 1].prev ELSE 0)
    <3>1. PICK m : m = hi - 1
      OBVIOUS
    <3>2. PICK r : r = f[m]
      OBVIOUS
    <3>3. r.prev \in Int /\ m \in Int
      BY <1>7, <3>1, <3>2
    <3>4. m + (1 - r.prev) = hi - r.prev
      BY <3>1, <3>3
    <3>5. Total(r, m) = r.high + (IF r.cur = 1 THEN hi - r.prev ELSE 0)
      BY <3>4 DEF Total
    <3>6. QED BY <3>1, <3>2, <3>5
  <2>2. QED BY <1>8, <2>1 DEF HighIn
<1>10. QED BY <1>2, <1>9

\* The lines of an interval, by counting samples one at a time.
CountedIn(a, b, count, low) ==
    LET lo == High(a, low)  hi == Low(b, count)
    IN  IF hi <= lo THEN NoLines
        ELSE [edges |-> Cardinality({s \in lo + 1 .. hi - 1 : shown[s + 1] # shown[s]}),
              high  |-> Cardinality({s \in lo .. hi - 1 : shown[s + 1] = 1}),
              span  |-> hi - lo]

\* The walk over the edges counts what counting the samples would.
LEMMA MeasuredIs ==
  ASSUME shown \in Seq({0, 1}), NEW a \in Nat, NEW b \in Nat, NEW count \in Nat,
         count <= Len(shown), trim \in Nat
  PROVE  Measured(a, b, count) = CountedIn(a, b, count, trim)
<1> DEFINE lo == High(a, trim)
<1> DEFINE hi == Low(b, count)
<1>1. lo \in Nat /\ hi \in Nat /\ hi <= count /\ Len(shown) \in Nat
  BY LenProperties DEF High, Low
<1>2. Low(hi, Len(shown)) = hi
  <2> HIDE DEF hi
  <2>1. hi <= Len(shown)
    BY <1>1
  <2>2. QED BY <1>1, <2>1 DEF Low
<1>3. CASE hi <= lo
  BY <1>3 DEF Measured, CountedIn
<1>4. CASE ~(hi <= lo)
  <2> HIDE DEF lo, hi
  <2> DEFINE w == Integrated(lo, hi)
  <2>1. ~(Len(shown) <= lo) /\ lo < hi /\ hi <= Len(shown)
    BY <1>1, <1>4
  <2>2. w.high + (IF w.cur = 1 THEN hi - w.prev ELSE 0)
          = Cardinality({s \in lo .. hi - 1 : shown[s + 1] = 1})
    BY <1>1, <2>1, IntegratedIs
  <2> HIDE DEF w
  <2>3. Measured(a, b, count) =
          [edges |-> Cardinality(EdgesIn(lo, hi)),
           high  |-> w.high + (IF w.cur = 1 THEN hi - w.prev ELSE 0),
           span  |-> hi - lo]
    BY <1>2, <1>4, <2>1 DEF Measured, lo, hi, w
  <2>4. CountedIn(a, b, count, trim) =
          [edges |-> Cardinality(EdgesIn(lo, hi)),
           high  |-> Cardinality({s \in lo .. hi - 1 : shown[s + 1] = 1}),
           span  |-> hi - lo]
    BY <1>4 DEF CountedIn, EdgesIn, lo, hi
  <2>5. QED BY <2>2, <2>3, <2>4
<1>5. QED BY <1>3, <1>4

\* What is counted does not change with samples that come behind.
LEMMA CountedStays ==
  ASSUME shown \in Seq({0, 1}), shown' = shown \/ (\E v \in {0, 1} : shown' = Append(shown, v)),
         NEW a \in Nat, NEW b \in Nat, NEW count \in Nat, NEW low \in Nat, count <= Len(shown)
  PROVE  CountedIn(a, b, count, low)' = CountedIn(a, b, count, low)
<1> DEFINE lo == High(a, low)
<1> DEFINE hi == Low(b, count)
<1>1. lo \in Nat /\ hi \in Nat /\ hi <= count /\ Len(shown) \in Nat
  BY LenProperties DEF High, Low
<1>2. \A i \in 1 .. Len(shown) : shown'[i] = shown[i]
  BY AppendProperties
<1>3. lo' = lo /\ hi' = hi
  BY DEF High, Low
<1> HIDE DEF lo, hi
<1>4. \A s \in lo .. hi - 1 : s + 1 \in 1 .. Len(shown) /\ shown'[s + 1] = shown[s + 1]
  BY <1>1, <1>2
<1>5. \A s \in lo + 1 .. hi - 1 : s \in lo .. hi - 1 /\ s - 1 \in lo .. hi - 1 /\ (s - 1) + 1 = s
  BY <1>1
<1>6. \A s \in lo + 1 .. hi - 1 : shown'[s + 1] = shown[s + 1] /\ shown'[s] = shown[s]
  BY <1>4, <1>5
<1>7. {s \in lo .. hi - 1 : shown'[s + 1] = 1} = {s \in lo .. hi - 1 : shown[s + 1] = 1}
  BY <1>4
<1>8. {s \in lo + 1 .. hi - 1 : shown'[s + 1] # shown'[s]}
        = {s \in lo + 1 .. hi - 1 : shown[s + 1] # shown[s]}
  BY <1>6
<1>9. QED BY <1>7, <1>8 DEF CountedIn, lo, hi, High, Low

-----------------------------------------------------------------------------
(* Measure: the inductive invariant.                                       *)

MeasTypes ==
    /\ shown \in Seq({0, 1}) /\ trim \in Nat /\ acq \in Nat /\ markers \in Seq(Nat)
    /\ of \in 0 .. acq /\ from \in Nat /\ drawn \in BOOLEAN

\* Between the test and the walk the markers stay; the capture may be replaced.
Wanted ==
    want = NoLines \/
        /\ Len(markers) >= 2 /\ want.a = PairLow /\ want.b = PairHigh
        /\ want.count \in Nat /\ want.acq \in 0 .. acq
        /\ want.acq = acq => want.count <= Len(shown)

\* The lines in the cache are right for the interval and count they are cached
\* under, if they are from the capture on screen.
Cached ==
    of = acq /\ meas.a # NoLines =>
        /\ meas.a \in Nat /\ meas.b \in Nat /\ meas.count \in Nat
        /\ meas.count <= Len(shown)
        /\ meas.lines = CountedIn(meas.a, meas.b, meas.count, from)

\* What a frame has shown is the cache for the last two markers.
Shown ==
    drawn /\ of = acq /\ Len(markers) >= 2 => meas.a = PairLow /\ meas.b = PairHigh

MeasInv == MeasTypes /\ Wanted /\ Cached /\ Shown

\* The last two markers are positions.
LEMMA Pair ==
  ASSUME markers \in Seq(Nat), Len(markers) >= 2
  PROVE  PairLow \in Nat /\ PairHigh \in Nat
<1>1. Len(markers) \in Nat
  BY LenProperties
<1>2. Len(markers) - 1 \in 1 .. Len(markers) /\ Len(markers) \in 1 .. Len(markers)
  BY <1>1
<1>3. markers[Len(markers) - 1] \in Nat /\ markers[Len(markers)] \in Nat
  BY <1>2, ElementOfSeq
<1> DEFINE x == markers[Len(markers) - 1]
<1> DEFINE y == markers[Len(markers)]
<1>4. Last2[1] = x /\ Last2[2] = y
  BY DEF Last2
<1> HIDE DEF x, y
<1>5. x \in Nat /\ y \in Nat
  BY <1>3 DEF x, y
<1>6. QED BY <1>4, <1>5 DEF PairLow, PairHigh, Low, High

\* Steps that leave the markers, the cache and the walk alone.
LEMMA Kept ==
  ASSUME MeasInv, MeasTypes', acq' = acq, of' = of, from' = from,
         shown' = shown \/ (\E v \in {0, 1} : shown' = Append(shown, v)),
         markers' = markers, meas' = meas, want' = want, drawn' = drawn
  PROVE  MeasInv'
<1>1. MeasTypes /\ Wanted /\ Cached /\ Shown
  BY DEF MeasInv
<1>2. shown \in Seq({0, 1}) /\ from \in Nat
  BY <1>1 DEF MeasTypes
<1>3. Len(shown) \in Nat /\ Len(shown') \in Nat /\ Len(shown) <= Len(shown')
  <2>1. Len(shown) \in Nat
    BY <1>2, LenProperties
  <2>2. CASE shown' = shown
    BY <2>1, <2>2
  <2>3. CASE \E v \in {0, 1} : shown' = Append(shown, v)
    <3>1. Len(shown') = Len(shown) + 1
      BY <1>2, <2>3, AppendProperties
    <3>2. QED BY <2>1, <3>1
  <2>4. QED BY <2>2, <2>3
<1>4. PairLow' = PairLow /\ PairHigh' = PairHigh
  BY DEF PairLow, PairHigh, Last2
<1>5. Wanted'
  <2>1. want.count \in Nat /\ want.count <= Len(shown) => want.count <= Len(shown')
    BY <1>3
  <2>2. QED BY <1>1, <1>4, <2>1 DEF Wanted
<1>6. Cached'
  <2>1. SUFFICES ASSUME of = acq, meas.a # NoLines
        PROVE /\ meas.a \in Nat /\ meas.b \in Nat /\ meas.count \in Nat
              /\ meas.count <= Len(shown')
              /\ meas.lines = CountedIn(meas.a, meas.b, meas.count, from)'
    BY DEF Cached
  <2>2. /\ meas.a \in Nat /\ meas.b \in Nat /\ meas.count \in Nat
        /\ meas.count <= Len(shown)
        /\ meas.lines = CountedIn(meas.a, meas.b, meas.count, from)
    BY <1>1, <2>1 DEF Cached
  <2>3. PICK a \in Nat, b \in Nat, count \in Nat, low \in Nat :
           a = meas.a /\ b = meas.b /\ count = meas.count /\ low = from
    BY <1>2, <2>2
  <2>4. CountedIn(a, b, count, low)' = CountedIn(a, b, count, low)
    BY <1>2, <2>2, <2>3, CountedStays
  <2>5. CountedIn(meas.a, meas.b, meas.count, from)' = CountedIn(a, b, count, low)'
    BY <2>3 DEF CountedIn
  <2>6. meas.count <= Len(shown')
    BY <1>3, <2>2
  <2>7. CountedIn(meas.a, meas.b, meas.count, from) = CountedIn(a, b, count, low)
    BY <2>3
  <2>8. QED BY <2>2, <2>4, <2>5, <2>6, <2>7
<1>7. Shown'
  BY <1>1, <1>4 DEF Shown
<1>8. QED BY <1>5, <1>6, <1>7 DEF MeasInv

\* Steps that replace the markers or the capture: nothing is shown until the
\* next frame.
LEMMA MovedOK ==
  ASSUME MeasInv, NEW m, m \in Seq(Nat), Moved(m)
  PROVE  MeasInv'
<1>1. MeasTypes /\ Wanted /\ Cached
  BY DEF MeasInv
<1>2. /\ want = NoLines /\ markers' = m /\ drawn' = FALSE /\ shown' = shown /\ trim' = trim
      /\ acq' = acq /\ meas' = meas /\ want' = want /\ of' = of /\ from' = from
  BY DEF Moved
<1>3. MeasTypes'
  BY <1>1, <1>2 DEF MeasTypes
<1>4. Cached'
  BY <1>1, <1>2 DEF Cached, CountedIn
<1>5. Wanted' /\ Shown'
  BY <1>2 DEF Wanted, Shown
<1>6. QED BY <1>3, <1>4, <1>5 DEF MeasInv

\* The test of a frame.
LEMMA LookOK ==
  ASSUME MeasInv, FrameLook
  PROVE  MeasInv'
<1>1. MeasTypes /\ Wanted /\ Cached /\ Shown
  BY DEF MeasInv
<1>2. /\ want = NoLines /\ shown' = shown /\ trim' = trim /\ acq' = acq
      /\ markers' = markers /\ of' = of /\ from' = from
  BY DEF FrameLook
<1>3. Len(shown) \in Nat /\ Len(markers) \in Nat /\ acq \in Nat
  BY <1>1, LenProperties DEF MeasTypes
<1>4. PairLow' = PairLow /\ PairHigh' = PairHigh
  BY <1>2 DEF PairLow, PairHigh, Last2
<1>5. CASE Len(markers) < 2
  <2>1. meas' = NoCache /\ drawn' = TRUE /\ want' = want
    BY <1>5 DEF FrameLook
  <2>2. MeasTypes'
    BY <1>1, <1>2, <2>1 DEF MeasTypes
  <2>3. Cached'
    BY <2>1 DEF Cached, NoCache
  <2>4. Wanted'
    BY <1>2, <2>1 DEF Wanted
  <2>5. Shown'
    BY <1>2, <1>3, <1>5 DEF Shown
  <2>6. QED BY <2>2, <2>3, <2>4, <2>5 DEF MeasInv
<1>6. CASE Len(markers) >= 2 /\ << PairLow, PairHigh, Len(shown) >> = << meas.a, meas.b, meas.count >>
  <2>1. drawn' = TRUE /\ meas' = meas /\ want' = want /\ meas.a = PairLow /\ meas.b = PairHigh
    BY <1>3, <1>6 DEF FrameLook
  <2>2. MeasTypes'
    BY <1>1, <1>2, <2>1 DEF MeasTypes
  <2>3. Cached'
    BY <1>1, <1>2, <2>1 DEF Cached, CountedIn
  <2>4. Wanted'
    BY <1>2, <2>1 DEF Wanted
  <2>5. Shown'
    BY <1>4, <2>1 DEF Shown
  <2>6. QED BY <2>2, <2>3, <2>4, <2>5 DEF MeasInv
<1>7. CASE Len(markers) >= 2 /\ << PairLow, PairHigh, Len(shown) >> # << meas.a, meas.b, meas.count >>
  <2>1. /\ want' = [a |-> PairLow, b |-> PairHigh, count |-> Len(shown), acq |-> acq]
        /\ meas' = meas /\ drawn' = drawn
    BY <1>3, <1>7 DEF FrameLook
  <2>2. MeasTypes'
    BY <1>1, <1>2, <2>1 DEF MeasTypes
  <2>3. Cached'
    BY <1>1, <1>2, <2>1 DEF Cached, CountedIn
  <2>4. Wanted'
    <3>1. acq \in 0 .. acq /\ Len(shown) <= Len(shown)
      BY <1>3
    <3>2. QED BY <1>2, <1>3, <1>4, <1>7, <2>1, <3>1 DEF Wanted
  <2>5. Shown'
    BY <1>1, <1>2, <1>4, <2>1 DEF Shown
  <2>6. QED BY <2>2, <2>3, <2>4, <2>5 DEF MeasInv
<1>8. QED BY <1>3, <1>5, <1>6, <1>7

\* The walk of a frame.
LEMMA WalkOK ==
  ASSUME MeasInv, FrameWalk
  PROVE  MeasInv'
<1>1. MeasTypes /\ Wanted
  BY DEF MeasInv
<1>2. /\ want # NoLines /\ want' = NoLines
      /\ meas' = [a |-> want.a, b |-> want.b, count |-> want.count,
                  lines |-> Measured(want.a, want.b, want.count)]
      /\ drawn' = (want.acq = acq)
      /\ of' = (IF want.acq = acq THEN acq ELSE 0) /\ from' = trim
      /\ shown' = shown /\ trim' = trim /\ acq' = acq /\ markers' = markers
  BY DEF FrameWalk
<1>3. /\ Len(markers) >= 2 /\ want.a = PairLow /\ want.b = PairHigh
      /\ want.count \in Nat /\ want.acq \in 0 .. acq
      /\ want.acq = acq => want.count <= Len(shown)
  BY <1>1, <1>2 DEF Wanted
<1>4. PairLow' = PairLow /\ PairHigh' = PairHigh
  BY <1>2 DEF PairLow, PairHigh, Last2
<1>5. want.a \in Nat /\ want.b \in Nat
  BY <1>1, <1>3, Pair DEF MeasTypes
<1>6. acq \in Nat /\ of' \in 0 .. acq /\ (of' = acq => want.acq = acq)
  BY <1>1, <1>2, <1>3 DEF MeasTypes
<1>7. MeasTypes'
  BY <1>1, <1>2, <1>6 DEF MeasTypes
<1>8. Cached'
  <2>1. SUFFICES ASSUME of' = acq
        PROVE  /\ want.count <= Len(shown)
               /\ Measured(want.a, want.b, want.count)
                    = CountedIn(want.a, want.b, want.count, trim)
    <3>1. meas'.a = want.a /\ meas'.b = want.b /\ meas'.count = want.count
          /\ meas'.lines = Measured(want.a, want.b, want.count)
      BY <1>2
    <3>2. CountedIn(meas.a, meas.b, meas.count, from)'
            = CountedIn(want.a, want.b, want.count, trim)
      BY <1>2, <3>1 DEF CountedIn
    <3>3. QED BY <1>2, <1>3, <1>5, <2>1, <3>1, <3>2 DEF Cached
  <2>2. want.count <= Len(shown)
    BY <1>3, <1>6, <2>1
  <2>3. QED BY <1>1, <1>3, <1>5, <2>2, MeasuredIs DEF MeasTypes
<1>9. Wanted' /\ Shown'
  BY <1>2, <1>3, <1>4 DEF Wanted, Shown
<1>10. QED BY <1>7, <1>8, <1>9 DEF MeasInv

\* Another capture: the lines in the cache are no longer its own.
LEMMA ReplaceOK ==
  ASSUME MeasInv, NEW w \in Waves, Replace(w)
  PROVE  MeasInv'
<1>1. MeasTypes /\ Wanted
  BY DEF MeasInv
<1>2. /\ acq' = acq + 1 /\ shown' = w /\ trim' = 0 /\ drawn' = FALSE
      /\ markers' = markers /\ meas' = meas /\ want' = want /\ of' = of /\ from' = from
  BY DEF Replace
<1>3. acq \in Nat /\ of \in 0 .. acq
  BY <1>1 DEF MeasTypes
<1>4. of' # acq' /\ of' \in 0 .. acq' /\ acq' \in Nat
  BY <1>2, <1>3
<1>5. w \in Seq({0, 1})
  BY DEF Waves
<1>6. MeasTypes'
  BY <1>1, <1>2, <1>4, <1>5 DEF MeasTypes
<1>7. PairLow' = PairLow /\ PairHigh' = PairHigh
  BY <1>2 DEF PairLow, PairHigh, Last2
<1>8. Wanted'
  <2>1. want.acq \in 0 .. acq => want.acq \in 0 .. acq' /\ want.acq # acq'
    BY <1>2, <1>3
  <2>2. QED BY <1>1, <1>2, <1>7, <2>1 DEF Wanted
<1>9. Cached' /\ Shown'
  BY <1>2, <1>4 DEF Cached, Shown
<1>10. QED BY <1>6, <1>8, <1>9 DEF MeasInv

\* The numbers of a frame are those of the samples between the last two markers,
\* for the capture on screen (App::update_measurements).
THEOREM MeasurementsAreTrue == MeasSpec => []MeasTruth
<1>1. MeasInit => MeasInv
  <2> SUFFICES ASSUME MeasInit PROVE MeasInv
    OBVIOUS
  <2>1. /\ shown = << >> /\ trim = 0 /\ acq = 0 /\ markers = << >>
        /\ meas = NoCache /\ want = NoLines /\ drawn = FALSE /\ of = 0 /\ from = 0
    BY DEF MeasInit
  <2>2. MeasTypes
    <3>1. << >> \in Seq({0, 1}) /\ << >> \in Seq(Nat) /\ 0 \in Nat /\ 0 \in 0 .. 0
      OBVIOUS
    <3>2. shown \in Seq({0, 1}) /\ markers \in Seq(Nat)
      BY <2>1, <3>1
    <3>3. trim \in Nat /\ acq \in Nat /\ from \in Nat
      BY <2>1, <3>1
    <3>4. of \in 0 .. acq
      BY <2>1, <3>1
    <3>5. drawn \in BOOLEAN
      BY <2>1
    <3>6. QED BY <3>2, <3>3, <3>4, <3>5 DEF MeasTypes
  <2>3. QED BY <2>1, <2>2 DEF MeasInv, Wanted, Cached, Shown, NoCache
<1>2. MeasInv /\ [MeasNext]_measVars => MeasInv'
  <2> SUFFICES ASSUME MeasInv, [MeasNext]_measVars PROVE MeasInv'
    OBVIOUS
  <2>1. MeasTypes /\ markers \in Seq(Nat) /\ shown \in Seq({0, 1})
    BY DEF MeasInv, MeasTypes
  <2>2. CASE FrameLook
    BY <2>2, LookOK
  <2>3. CASE FrameWalk
    BY <2>3, WalkOK
  <2>4. CASE ClearAll
    <3>1. << >> \in Seq(Nat) /\ Moved(<< >>)
      BY <2>4 DEF ClearAll
    <3>2. QED BY <3>1, MovedOK
  <2>5. ASSUME NEW p \in Positions, Place(p) PROVE MeasInv'
    <3>1. p \in Nat
      BY MeasAssumption
    <3>2. Append(markers, p) \in Seq(Nat) /\ Moved(Append(markers, p))
      BY <2>1, <2>5, <3>1, AppendProperties DEF Place
    <3>3. QED BY <3>2, MovedOK
  <2>6. ASSUME NEW i \in DOMAIN markers, Delete(i) PROVE MeasInv'
    <3>1. Moved(RemoveAt(markers, i))
      BY <2>6 DEF Delete
    <3>2. RemoveAt(markers, i) \in Seq(Nat)
      <4>1. Len(markers) \in Nat /\ i \in 1 .. Len(markers) /\ \A j \in 1 .. Len(markers) : markers[j] \in Nat
        BY <2>1, LenProperties, ElementOfSeq
      <4>2. SubSeq(markers, 1, i - 1) \in Seq(Nat)
        <5>1. \A j \in 1 .. i - 1 : markers[j] \in Nat
          BY <4>1
        <5>2. QED BY <4>1, <5>1, SubSeqProperties
      <4>3. SubSeq(markers, i + 1, Len(markers)) \in Seq(Nat)
        <5>1. \A j \in i + 1 .. Len(markers) : markers[j] \in Nat
          BY <4>1
        <5>2. QED BY <4>1, <5>1, SubSeqProperties
      <4>4. QED BY <4>2, <4>3, ConcatProperties DEF RemoveAt
    <3>3. QED BY <3>1, <3>2, MovedOK
  <2>7. ASSUME NEW i \in DOMAIN markers, NEW p \in Positions, Move(i, p) PROVE MeasInv'
    <3>1. p \in Nat
      BY MeasAssumption
    <3>2. [markers EXCEPT ![i] = p] \in Seq(Nat)
      BY <2>1, <3>1, ExceptSeq
    <3>3. QED BY <2>7, <3>2, MovedOK DEF Move
  <2>8. ASSUME NEW v \in {0, 1}, Stream(v) PROVE MeasInv'
    <3>1. /\ shown' = Append(shown, v) /\ trim' = trim /\ acq' = acq /\ of' = of
          /\ from' = from /\ markers' = markers /\ meas' = meas /\ want' = want
          /\ drawn' = drawn
      BY <2>8 DEF Stream
    <3>2. Append(shown, v) \in Seq({0, 1})
      BY <2>1, AppendProperties
    <3>3. MeasTypes'
      BY <2>1, <3>1, <3>2 DEF MeasTypes
    <3>4. QED BY <3>1, <3>3, Kept
  <2>9. ASSUME NEW s \in 1 .. MaxSamples, TrimTo(s) PROVE MeasInv'
    <3>1. /\ trim' = s /\ shown' = shown /\ acq' = acq /\ of' = of
          /\ from' = from /\ markers' = markers /\ meas' = meas /\ want' = want
          /\ drawn' = drawn
      BY <2>9 DEF TrimTo
    <3>2. s \in Nat
      BY MeasAssumption
    <3>3. MeasTypes'
      BY <2>1, <3>1, <3>2 DEF MeasTypes
    <3>4. QED BY <3>1, <3>3, Kept
  <2>10. ASSUME NEW w \in Waves, Replace(w) PROVE MeasInv'
    BY <2>10, ReplaceOK
  <2>11. CASE UNCHANGED measVars
    <3>1. /\ trim' = trim /\ shown' = shown /\ acq' = acq /\ of' = of
          /\ from' = from /\ markers' = markers /\ meas' = meas /\ want' = want
          /\ drawn' = drawn
      BY <2>11 DEF measVars
    <3>2. MeasTypes'
      BY <2>1, <3>1 DEF MeasTypes
    <3>3. QED BY <3>1, <3>2, Kept
  <2>12. QED BY <2>2, <2>3, <2>4, <2>5, <2>6, <2>7, <2>8, <2>9, <2>10, <2>11 DEF MeasNext
<1>3. MeasInv => MeasTruth
  <2> SUFFICES ASSUME MeasInv, drawn, of = acq, Len(markers) >= 2
               PROVE  meas.lines = Counted(meas.count)
    BY DEF MeasTruth
  <2>1. MeasTypes /\ Cached /\ Shown
    BY DEF MeasInv
  <2>2. meas.a = PairLow /\ meas.b = PairHigh
    BY <2>1 DEF Shown
  <2>3. PairLow \in Nat
    BY <2>1, Pair DEF MeasTypes
  <2>4. meas.a # NoLines
    BY <2>2, <2>3, MeasAssumption
  <2>5. meas.lines = CountedIn(PairLow, PairHigh, meas.count, from)
    BY <2>1, <2>2, <2>4 DEF Cached
  <2>6. QED BY <2>5 DEF Counted, CountedIn
<1>4. QED BY <1>1, <1>2, <1>3, PTL DEF MeasSpec

-----------------------------------------------------------------------------
(* I2s: sequences of bits.                                                 *)

Bits == Seq({0, 1})

\* What the transmitter sends are sequences.
LEMMA StringIs ==
  ASSUME NEW n \in Nat, NEW x \in Strings(n)
  PROVE  x \in Bits /\ Len(x) = n
<1>1. x \in [1 .. n -> {0, 1}]
  BY DEF Strings
<1>2. x \in Seq({0, 1})
  BY <1>1, SeqDef
<1>3. Len(x) = n
  BY <1>1
<1>4. QED BY <1>2, <1>3 DEF Bits

\* A clock moves a bit from the transmitter to the decoder.
LEMMA Clocked ==
  ASSUME NEW x \in Bits, NEW y \in Bits, y # << >>
  PROVE  /\ Head(y) \in {0, 1} /\ Append(x, Head(y)) \in Bits /\ Tail(y) \in Bits
         /\ Append(x, Head(y)) \o Tail(y) = x \o y
<1>1. x \in Seq({0, 1}) /\ y \in Seq({0, 1})
  BY DEF Bits
<1>2. /\ Head(y) \in {0, 1} /\ Tail(y) \in Seq({0, 1}) /\ Len(Tail(y)) = Len(y) - 1
      /\ \A i \in 1 .. Len(Tail(y)) : Tail(y)[i] = y[i + 1]
  BY <1>1, HeadTailProperties
<1>3. Head(y) = y[1] /\ Len(y) \in Nat /\ Len(x) \in Nat /\ Len(y) # 0
  BY <1>1, EmptySeq, LenProperties
<1> DEFINE a == Append(x, Head(y))
<1>4. /\ a \in Seq({0, 1}) /\ Len(a) = Len(x) + 1
      /\ (\A i \in 1 .. Len(x) : a[i] = x[i]) /\ a[Len(x) + 1] = y[1]
  BY <1>1, <1>2, <1>3, AppendProperties
<1> HIDE DEF a
<1> DEFINE t == Tail(y)
<1>5. t \in Seq({0, 1}) /\ Len(t) = Len(y) - 1 /\ \A i \in 1 .. Len(y) - 1 : t[i] = y[i + 1]
  BY <1>2
<1> HIDE DEF t
<1>6. /\ a \o t \in Seq({0, 1}) /\ Len(a \o t) = Len(a) + Len(t)
      /\ \A i \in 1 .. Len(a) + Len(t) : (a \o t)[i] = IF i <= Len(a) THEN a[i] ELSE t[i - Len(a)]
  BY <1>4, <1>5, ConcatProperties
<1>7. /\ x \o y \in Seq({0, 1}) /\ Len(x \o y) = Len(x) + Len(y)
      /\ \A i \in 1 .. Len(x) + Len(y) : (x \o y)[i] = IF i <= Len(x) THEN x[i] ELSE y[i - Len(x)]
  BY <1>1, ConcatProperties
<1>8. Len(a \o t) = Len(x \o y)
  BY <1>3, <1>4, <1>5, <1>6, <1>7
<1>9. ASSUME NEW i \in 1 .. Len(a \o t) PROVE (a \o t)[i] = (x \o y)[i]
  <2>1. i \in 1 .. Len(x) + Len(y) /\ i \in 1 .. Len(a) + Len(t) /\ i \in Nat
    BY <1>6, <1>7, <1>8
  <2>2. CASE i <= Len(x)
    BY <1>3, <1>4, <1>6, <1>7, <2>1, <2>2
  <2>3. CASE i = Len(x) + 1
    BY <1>3, <1>4, <1>6, <1>7, <2>1, <2>3
  <2>4. CASE i > Len(x) + 1
    <3>1. i - Len(a) \in 1 .. Len(y) - 1 /\ i - Len(a) + 1 = i - Len(x)
      BY <1>3, <1>4, <2>1, <2>4
    <3>2. (a \o t)[i] = t[i - Len(a)]
      BY <1>3, <1>4, <1>6, <2>1, <2>4
    <3>3. (x \o y)[i] = y[i - Len(x)]
      BY <1>3, <1>7, <2>1, <2>4
    <3>4. QED BY <1>5, <3>1, <3>2, <3>3
  <2>5. QED BY <1>3, <2>1, <2>2, <2>3, <2>4
<1>10. a \o t = x \o y
  BY <1>6, <1>7, <1>8, <1>9, SeqEqual
<1>11. QED BY <1>2, <1>4, <1>5, <1>10 DEF Bits, a, t

\* Two equal concatenations whose first parts are equally long.
LEMMA Split ==
  ASSUME NEW x \in Bits, NEW y \in Bits, NEW a \in Bits, NEW b \in Bits,
         x \o y = a \o b, Len(x) = Len(a)
  PROVE  x = a /\ y = b
<1>1. x \in Seq({0, 1}) /\ y \in Seq({0, 1}) /\ a \in Seq({0, 1}) /\ b \in Seq({0, 1})
  BY DEF Bits
<1>2. Len(x) \in Nat /\ Len(y) \in Nat /\ Len(b) \in Nat
  BY <1>1, LenProperties
<1>3. /\ Len(x \o y) = Len(x) + Len(y)
      /\ \A i \in 1 .. Len(x) + Len(y) : (x \o y)[i] = IF i <= Len(x) THEN x[i] ELSE y[i - Len(x)]
  BY <1>1, ConcatProperties
<1>4. /\ Len(a \o b) = Len(x) + Len(b)
      /\ \A i \in 1 .. Len(x) + Len(b) : (a \o b)[i] = IF i <= Len(x) THEN a[i] ELSE b[i - Len(x)]
  BY <1>1, ConcatProperties
<1>5. Len(y) = Len(b)
  BY <1>2, <1>3, <1>4
<1>6. \A i \in 1 .. Len(x) : x[i] = a[i]
  BY <1>2, <1>3, <1>4
<1>7. ASSUME NEW i \in 1 .. Len(y) PROVE y[i] = b[i]
  <2> DEFINE j == Len(x) + i
  <2>1. j \in 1 .. Len(x) + Len(y) /\ ~ (j <= Len(x)) /\ j - Len(x) = i
    BY <1>2
  <2> HIDE DEF j
  <2>2. (x \o y)[j] = y[i] /\ (a \o b)[j] = b[i]
    BY <1>3, <1>4, <1>5, <2>1
  <2>3. QED BY <2>2
<1>8. QED BY <1>1, <1>5, <1>6, <1>7, SeqEqual

-----------------------------------------------------------------------------
(* I2s: what is cut out of a slot is the word that was sent in it.         *)

\* The first WordSize bits.
LEMMA Leading ==
  ASSUME NEW d \in Bits, NEW word \in Bits, Len(word) = WordSize, WordSize <= Len(d),
         \A i \in 1 .. WordSize : d[i] = word[i]
  PROVE  (IF Len(d) <= WordSize THEN d ELSE SubSeq(d, 1, WordSize)) = word
<1>1. d \in Seq({0, 1}) /\ word \in Seq({0, 1}) /\ Len(d) \in Nat /\ WordSize \in Nat
  BY I2sAssumption, LenProperties DEF Bits
<1>2. CASE Len(d) <= WordSize
  <2>1. Len(d) = Len(word)
    BY <1>1, <1>2
  <2>2. d = word
    BY <1>1, <2>1, SeqEqual
  <2>3. QED BY <1>2, <2>2
<1>3. CASE ~ (Len(d) <= WordSize)
  <2> DEFINE p == SubSeq(d, 1, WordSize)
  <2>1. \A i \in 1 .. WordSize : d[i] \in {0, 1}
    <3>1. \A i \in 1 .. WordSize : i \in 1 .. Len(d)
      BY <1>1
    <3>2. QED BY <1>1, <3>1, ElementOfSeq
  <2>2. /\ p \in Seq({0, 1}) /\ Len(p) = IF 1 <= WordSize THEN WordSize - 1 + 1 ELSE 0
        /\ \A i \in 1 .. WordSize - 1 + 1 : p[i] = d[1 + i - 1]
    BY <1>1, <2>1, SubSeqProperties
  <2> HIDE DEF p
  <2>3. Len(p) = Len(word)
    BY <1>1, <2>2
  <2>4. \A i \in 1 .. Len(p) : p[i] = word[i]
    <3>1. \A i \in 1 .. WordSize : i \in 1 .. WordSize - 1 + 1 /\ 1 + i - 1 = i
      BY <1>1
    <3>2. QED BY <1>1, <2>2, <2>3, <3>1
  <2>5. p = word
    BY <1>1, <2>2, <2>3, <2>4, SeqEqual
  <2>6. QED BY <1>3, <2>5 DEF p
<1>4. QED BY <1>2, <1>3

\* The last WordSize bits.
LEMMA Trailing ==
  ASSUME NEW d \in Bits, NEW word \in Bits, Len(word) = WordSize, WordSize <= Len(d),
         \A i \in 1 .. WordSize : d[Len(d) - WordSize + i] = word[i]
  PROVE  (IF Len(d) <= WordSize THEN d
          ELSE SubSeq(d, Len(d) - WordSize + 1, Len(d))) = word
<1>1. /\ d \in Seq({0, 1}) /\ word \in Seq({0, 1}) /\ Len(d) \in Nat
      /\ WordSize \in Nat /\ WordSize # 0
  BY I2sAssumption, LenProperties DEF Bits
<1>2. CASE Len(d) <= WordSize
  <2>1. Len(d) = Len(word)
    BY <1>1, <1>2
  <2>2. \A i \in 1 .. Len(d) : d[i] = word[i]
    <3>1. \A i \in 1 .. Len(d) : i \in 1 .. WordSize /\ Len(d) - WordSize + i = i
      BY <1>1, <1>2
    <3>2. QED BY <3>1
  <2>3. d = word
    BY <1>1, <2>1, <2>2, SeqEqual
  <2>4. QED BY <1>2, <2>3
<1>3. CASE ~ (Len(d) <= WordSize)
  <2>1. PICK m : m = Len(d) - WordSize + 1
    OBVIOUS
  <2>2. m \in Int /\ Len(d) - m + 1 = WordSize /\ m <= Len(d) /\ m \in 1 .. Len(d)
    BY <1>1, <1>3, <2>1
  <2> DEFINE p == SubSeq(d, m, Len(d))
  <2>3. \A i \in m .. Len(d) : d[i] \in {0, 1}
    <3>1. \A i \in m .. Len(d) : i \in 1 .. Len(d)
      BY <1>1, <2>2
    <3>2. QED BY <1>1, <3>1, ElementOfSeq
  <2>4. /\ p \in Seq({0, 1}) /\ Len(p) = IF m <= Len(d) THEN Len(d) - m + 1 ELSE 0
        /\ \A i \in 1 .. Len(d) - m + 1 : p[i] = d[m + i - 1]
    BY <1>1, <2>2, <2>3, SubSeqProperties
  <2> HIDE DEF p
  <2>5. Len(p) = WordSize
    BY <2>2, <2>4
  <2>6. \A i \in 1 .. WordSize : p[i] = word[i]
    <3>1. \A i \in 1 .. WordSize : i \in 1 .. Len(d) - m + 1 /\ m + i - 1 = Len(d) - WordSize + i
      BY <1>1, <2>1, <2>2
    <3>2. QED BY <2>4, <3>1
  <2>7. p = word
    BY <1>1, <2>4, <2>5, <2>6, SeqEqual
  <2>8. QED BY <1>3, <2>1, <2>7 DEF p
<1>4. QED BY <1>2, <1>3

\* A word at the beginning of its slot.
LEMMA LeftIs ==
  ASSUME fmt \notin {"i2s", "right"}, NEW word \in Bits, Len(word) = WordSize, NEW pad \in Bits
  PROVE  word \o pad \in Bits /\ Cut(word \o pad) = word
<1> DEFINE d == word \o pad
<1>1. word \in Seq({0, 1}) /\ pad \in Seq({0, 1}) /\ Len(pad) \in Nat /\ WordSize \in Nat
  BY I2sAssumption, LenProperties DEF Bits
<1>2. /\ d \in Seq({0, 1}) /\ Len(d) = Len(word) + Len(pad)
      /\ \A i \in 1 .. Len(word) + Len(pad) : d[i] = IF i <= Len(word) THEN word[i] ELSE pad[i - Len(word)]
  BY <1>1, ConcatProperties
<1> HIDE DEF d
<1>3. d \in Bits /\ WordSize <= Len(d)
  BY <1>1, <1>2 DEF Bits
<1>4. \A i \in 1 .. WordSize : d[i] = word[i]
  BY <1>1, <1>2
<1>5. (IF Len(d) <= WordSize THEN d ELSE SubSeq(d, 1, WordSize)) = word
  BY <1>3, <1>4, Leading
<1>6. Cut(d) = word
  BY <1>5 DEF Cut
<1>7. QED BY <1>3, <1>6 DEF d

\* A word at the end of its slot.
LEMMA RightIs ==
  ASSUME fmt = "right", NEW word \in Bits, Len(word) = WordSize, NEW pad \in Bits
  PROVE  pad \o word \in Bits /\ Cut(pad \o word) = word
<1> DEFINE d == pad \o word
<1>1. word \in Seq({0, 1}) /\ pad \in Seq({0, 1}) /\ Len(pad) \in Nat /\ WordSize \in Nat
  BY I2sAssumption, LenProperties DEF Bits
<1>2. /\ d \in Seq({0, 1}) /\ Len(d) = Len(pad) + Len(word)
      /\ \A i \in 1 .. Len(pad) + Len(word) : d[i] = IF i <= Len(pad) THEN pad[i] ELSE word[i - Len(pad)]
  BY <1>1, ConcatProperties
<1> HIDE DEF d
<1>3. d \in Bits /\ WordSize <= Len(d)
  BY <1>1, <1>2 DEF Bits
<1>4. ASSUME NEW i \in 1 .. WordSize PROVE d[Len(d) - WordSize + i] = word[i]
  <2> DEFINE j == Len(pad) + i
  <2>1. Len(d) - WordSize + i = j
    BY <1>1, <1>2
  <2>2. j \in 1 .. Len(pad) + Len(word) /\ ~ (j <= Len(pad)) /\ j - Len(pad) = i
    BY <1>1
  <2> HIDE DEF j
  <2>3. QED BY <1>2, <2>1, <2>2
<1>5. (IF Len(d) <= WordSize THEN d ELSE SubSeq(d, Len(d) - WordSize + 1, Len(d))) = word
  BY <1>3, <1>4, Trailing
<1>6. Cut(d) = word
  BY <1>5 DEF Cut
<1>7. QED BY <1>3, <1>6 DEF d

\* A word after the last bit of the slot before.
LEMMA DelayedIs ==
  ASSUME fmt = "i2s", NEW c \in {0, 1}, NEW d \in Bits, NEW word \in Bits,
         Len(word) = WordSize, WordSize <= Len(d), \A i \in 1 .. WordSize : d[i] = word[i]
  PROVE  << c >> \o d \in Bits /\ Cut(<< c >> \o d) = word
<1> DEFINE s == << c >> \o d
<1>1. d \in Seq({0, 1}) /\ Len(d) \in Nat /\ << c >> \in Seq({0, 1}) /\ Len(<< c >>) = 1
  BY LenProperties DEF Bits
<1>2. /\ s \in Seq({0, 1}) /\ Len(s) = Len(<< c >>) + Len(d)
      /\ \A i \in 1 .. Len(<< c >>) + Len(d) :
            s[i] = IF i <= Len(<< c >>) THEN << c >>[i] ELSE d[i - Len(<< c >>)]
  BY <1>1, ConcatProperties
<1> HIDE DEF s
<1>3. Len(s) = 1 + Len(d) /\ \A i \in 2 .. 1 + Len(d) : s[i] = d[i - 1]
  BY <1>1, <1>2
<1>4. s # << >>
  BY <1>1, <1>3
<1>5. /\ Tail(s) \in Seq({0, 1}) /\ Len(Tail(s)) = Len(s) - 1
      /\ \A i \in 1 .. Len(Tail(s)) : Tail(s)[i] = s[i + 1]
  BY <1>2, <1>4, HeadTailProperties
<1>6. Len(Tail(s)) = Len(d)
  BY <1>1, <1>3, <1>5
<1>7. ASSUME NEW i \in 1 .. Len(Tail(s)) PROVE Tail(s)[i] = d[i]
  <2>1. i + 1 \in 2 .. 1 + Len(d) /\ i + 1 - 1 = i
    BY <1>1, <1>6
  <2>2. QED BY <1>3, <1>5, <2>1
<1>8. Tail(s) = d
  BY <1>1, <1>5, <1>6, <1>7, SeqEqual
<1>9. (IF Len(d) <= WordSize THEN d ELSE SubSeq(d, 1, WordSize)) = word
  BY Leading
<1>10. Cut(s) = word
  BY <1>4, <1>8, <1>9 DEF Cut
<1>11. QED BY <1>2, <1>10 DEF Bits, s

-----------------------------------------------------------------------------
(* I2s: the inductive invariant.                                           *)

\* What a word may be worth.
Values == {Number(b) : b \in Bits}
Word   == [ch : 0 .. 3, value : Values]

I2sTypeOK ==
    /\ sender \in Senders /\ msbFirst \in BOOLEAN
    /\ wsLeft \in {0, 1} /\ ws \in {0, 1} /\ carry \in {0, 1}
    /\ line \in Bits /\ bits \in Bits /\ lvl \in {-1, 0, 1} /\ slot \in {0, 1, 2}
    /\ words \in Seq(Word) /\ told \in Seq(Word)

\* Before the first edge nothing is collected.
Before == lvl = -1 => bits = << >> /\ words = << >> /\ told = << >> /\ slot = 0

\* Between edges of WS, what was collected with what is still to come is the slot
\* of the one word that is missing.
InSlot ==
    lvl # -1 /\ fmt # "pcm" =>
        /\ Cut(bits \o line) # << >>
        /\ told = Append(words, [ch |-> Side(lvl), value |-> Value(Cut(bits \o line))])

\* In a frame of PCM both words, the second one, or none is missing.
InFrame ==
    lvl # -1 /\ fmt = "pcm" =>
        \/ /\ slot = 0 /\ Len(bits) < WordSize
           /\ \E a, b \in Strings(WordSize) :
                 /\ bits \o line = a \o b
                 /\ told = Append(Append(words, [ch |-> 2, value |-> Value(a)]),
                                  [ch |-> 3, value |-> Value(b)])
        \/ /\ slot = 1 /\ Len(bits) < WordSize /\ Len(bits \o line) = WordSize
           /\ told = Append(words, [ch |-> 3, value |-> Value(bits \o line)])
        \/ slot = 2 /\ bits = << >> /\ line = << >> /\ told = words

I2sInv == I2sTypeOK /\ Before /\ InSlot /\ InFrame

\* A sequence of bits is worth something.
LEMMA ValueIs ==
  ASSUME NEW x \in Bits
  PROVE  Value(x) \in Values
<1>1. x \in Seq({0, 1}) /\ Len(x) \in Nat
  BY LenProperties DEF Bits
<1>2. Reverse(x) \in Bits
  <2> DEFINE r == [i \in 1 .. Len(x) |-> x[(Len(x) - i) + 1]]
  <2>1. \A i \in 1 .. Len(x) : (Len(x) - i) + 1 \in 1 .. Len(x)
    BY <1>1
  <2>2. \A i \in 1 .. Len(x) : x[(Len(x) - i) + 1] \in {0, 1}
    BY <1>1, <2>1, ElementOfSeq
  <2>3. r \in [1 .. Len(x) -> {0, 1}]
    BY <2>2
  <2>4. r \in Seq({0, 1})
    <3> HIDE DEF r
    <3>1. QED BY <1>1, <2>3, SeqDef
  <2>5. QED BY <2>4 DEF Reverse, Bits
<1>3. QED BY <1>2 DEF Value, Values

\* Nothing but the options matters to them.
LEMMA SameOptions ==
  ASSUME UNCHANGED options
  PROVE  /\ (\A x : Value(x)' = Value(x)) /\ (\A x : Cut(x)' = Cut(x))
         /\ (\A x : Side(x)' = Side(x)) /\ fmt' = fmt
         /\ sender' = sender /\ msbFirst' = msbFirst /\ wsLeft' = wsLeft
<1>1. sender' = sender /\ msbFirst' = msbFirst /\ wsLeft' = wsLeft
  BY DEF options
<1>2. fmt' = fmt
  BY <1>1 DEF fmt
<1>3. \A x : Value(x)' = Value(x)
  BY <1>1 DEF Value
<1>4. \A x : Cut(x)' = Cut(x)
  BY <1>2 DEF Cut
<1>5. \A x : Side(x)' = Side(x)
  BY <1>1 DEF Side
<1>6. QED BY <1>1, <1>2, <1>3, <1>4, <1>5

\* What a cut leaves are bits.
LEMMA CutBits ==
  ASSUME NEW x \in Bits
  PROVE  Cut(x) \in Bits
<1> DEFINE data == IF fmt = "i2s" /\ x # << >> THEN Tail(x) ELSE x
<1>1. data \in Seq({0, 1})
  BY HeadTailProperties DEF Bits
<1> HIDE DEF data
<1>2. Len(data) \in Nat /\ WordSize \in Nat /\ \A i \in 1 .. Len(data) : data[i] \in {0, 1}
  BY <1>1, I2sAssumption, LenProperties, ElementOfSeq
<1>3. CASE Len(data) <= WordSize
  <2>1. Cut(x) = data
    BY <1>3 DEF Cut, data
  <2>2. QED BY <1>1, <2>1 DEF Bits
<1>4. CASE ~ (Len(data) <= WordSize)
  <2> DEFINE s(m, n) == SubSeq(data, m, n)
  <2>1. ASSUME NEW m \in Int, NEW n \in Int, 1 <= m, n <= Len(data) PROVE s(m, n) \in Bits
    <3>1. \A i \in m .. n : data[i] \in {0, 1}
      <4>1. \A i \in m .. n : i \in 1 .. Len(data)
        BY <1>2, <2>1
      <4>2. QED BY <1>2, <4>1
    <3>2. QED BY <3>1, SubSeqProperties DEF Bits
  <2>2. Cut(x) = IF fmt = "right" THEN s(Len(data) - WordSize + 1, Len(data)) ELSE s(1, WordSize)
    BY <1>4 DEF Cut, data
  <2> HIDE DEF s
  <2>3. /\ Len(data) - WordSize + 1 \in Int /\ 1 <= Len(data) - WordSize + 1
        /\ Len(data) \in Int /\ WordSize \in Int /\ WordSize <= Len(data)
    BY <1>2, <1>4
  <2>4. s(Len(data) - WordSize + 1, Len(data)) \in Bits
    BY <1>2, <2>1, <2>3
  <2>5. s(1, WordSize) \in Bits
    BY <1>2, <2>1, <2>3
  <2>6. QED BY <2>2, <2>4, <2>5
<1>5. QED BY <1>3, <1>4

\* One more word.
LEMMA OneMore ==
  ASSUME NEW v \in Seq(Word), NEW c \in 0 .. 3, NEW x \in Bits
  PROVE  Append(v, [ch |-> c, value |-> Value(x)]) \in Seq(Word)
<1>1. [ch |-> c, value |-> Value(x)] \in Word
  BY ValueIs DEF Word
<1>2. QED BY <1>1, AppendProperties

-----------------------------------------------------------------------------
(* I2s: the steps.                                                         *)

\* At first nothing is collected.
LEMMA I2sInitOK == I2sInit => I2sInv
<1> SUFFICES ASSUME I2sInit PROVE I2sInv
  OBVIOUS
<1>1. /\ sender \in Senders /\ msbFirst \in BOOLEAN /\ wsLeft \in {0, 1} /\ ws \in {0, 1}
      /\ carry = 0 /\ bits = << >> /\ lvl = -1 /\ slot = 0 /\ words = << >> /\ told = << >>
  BY DEF I2sInit
<1>2. line \in Bits
  BY StringIs DEF I2sInit
<1>3. << >> \in Bits /\ << >> \in Seq(Word)
  BY EmptySeq DEF Bits
<1>4. I2sTypeOK
  BY <1>1, <1>2, <1>3 DEF I2sTypeOK
<1>5. QED BY <1>1, <1>4 DEF I2sInv, Before, InSlot, InFrame

\* What the transmitter puts into a slot is cut down to the word.
LEMMA SlotIs ==
  ASSUME sender \in Senders, fmt # "pcm", carry \in {0, 1},
         NEW word \in Bits, Len(word) = WordSize,
         NEW pad \in Bits, sender = "philips" => Len(pad) >= 1,
         NEW s, s = CASE sender = "philips" -> << carry >> \o Front(word \o pad)
                      [] sender = "i2s"     -> << carry >> \o word \o pad
                      [] sender = "left"    -> word \o pad
                      [] sender = "right"   -> pad \o word
  PROVE  s \in Bits /\ Cut(s) = word
<1>1. /\ word \in Seq({0, 1}) /\ pad \in Seq({0, 1}) /\ Len(pad) \in Nat
      /\ WordSize \in Nat /\ << carry >> \in Seq({0, 1})
  BY I2sAssumption, LenProperties DEF Bits
<1> DEFINE q == word \o pad
<1>2. /\ q \in Seq({0, 1}) /\ Len(q) = Len(word) + Len(pad)
      /\ \A i \in 1 .. Len(word) + Len(pad) : q[i] = IF i <= Len(word) THEN word[i] ELSE pad[i - Len(word)]
  BY <1>1, ConcatProperties
<1>3. \A i \in 1 .. WordSize : q[i] = word[i]
  BY <1>1, <1>2
<1>4. CASE sender = "philips"
  <2> DEFINE d == Front(q)
  <2>1. fmt = "i2s" /\ s = << carry >> \o d
    BY <1>4 DEF fmt
  <2> HIDE DEF q
  <2>2. Len(q) - 1 \in Int /\ WordSize <= Len(q) - 1 /\ Len(q) \in Nat
    BY <1>1, <1>2, <1>4
  <2>3. \A i \in 1 .. Len(q) - 1 : q[i] \in {0, 1}
    <3>1. \A i \in 1 .. Len(q) - 1 : i \in 1 .. Len(q)
      BY <2>2
    <3>2. QED BY <1>2, <3>1, ElementOfSeq
  <2>4. /\ SubSeq(q, 1, Len(q) - 1) \in Seq({0, 1})
        /\ Len(SubSeq(q, 1, Len(q) - 1)) = IF 1 <= Len(q) - 1 THEN Len(q) - 1 - 1 + 1 ELSE 0
        /\ \A i \in 1 .. Len(q) - 1 - 1 + 1 : SubSeq(q, 1, Len(q) - 1)[i] = q[1 + i - 1]
    BY <2>2, <2>3, SubSeqProperties
  <2>5. /\ d \in Seq({0, 1})
        /\ Len(d) = IF 1 <= Len(q) - 1 THEN Len(q) - 1 - 1 + 1 ELSE 0
        /\ \A i \in 1 .. Len(q) - 1 - 1 + 1 : d[i] = q[1 + i - 1]
    BY <2>4 DEF Front
  <2> HIDE DEF d
  <2>6. Len(d) = Len(q) - 1
    BY <2>2, <2>5, I2sAssumption
  <2>7. \A i \in 1 .. WordSize : d[i] = word[i]
    <3>1. \A i \in 1 .. WordSize : i \in 1 .. Len(q) - 1 - 1 + 1 /\ 1 + i - 1 = i
      BY <1>1, <2>2
    <3>2. QED BY <1>3, <2>5, <3>1
  <2>8. d \in Bits /\ WordSize <= Len(d)
    BY <2>2, <2>5, <2>6 DEF Bits
  <2>9. QED BY <2>1, <2>7, <2>8, DelayedIs
<1>5. CASE sender = "i2s"
  <2>1. fmt = "i2s" /\ s = << carry >> \o word \o pad
    BY <1>5 DEF fmt
  <2>2. s = << carry >> \o q
    <3>1. \A c \in Seq({0, 1}) : (c \o word) \o pad = c \o (word \o pad)
      BY <1>1, ConcatAssociative
    <3>2. (<< carry >> \o word) \o pad = << carry >> \o (word \o pad)
      BY <1>1, <3>1
    <3>3. QED BY <2>1, <3>2
  <2> HIDE DEF q
  <2>3. q \in Bits /\ WordSize <= Len(q)
    BY <1>1, <1>2 DEF Bits
  <2>4. QED BY <1>3, <2>1, <2>2, <2>3, DelayedIs
<1>6. CASE sender = "left"
  <2>1. fmt \notin {"i2s", "right"} /\ s = word \o pad
    BY <1>6 DEF fmt
  <2>2. QED BY <2>1, LeftIs
<1>7. CASE sender = "right"
  <2>1. fmt = "right" /\ s = pad \o word
    BY <1>7 DEF fmt
  <2>2. QED BY <2>1, RightIs
<1>8. sender \in {"i2s", "left", "right", "philips"}
  BY I2sAssumption DEF fmt
<1>9. QED BY <1>4, <1>5, <1>6, <1>7, <1>8

\* An edge of WS.
LEMMA WsOK ==
  ASSUME I2sInv, WsEdge, "philips" \in Senders => PhilipsPad >= 1
  PROVE  I2sInv'
<1>1. /\ sender \in Senders /\ msbFirst \in BOOLEAN /\ wsLeft \in {0, 1} /\ ws \in {0, 1}
      /\ carry \in {0, 1} /\ line \in Bits /\ bits \in Bits /\ lvl \in {-1, 0, 1}
      /\ slot \in {0, 1, 2} /\ words \in Seq(Word) /\ told \in Seq(Word)
  BY DEF I2sInv, I2sTypeOK
<1>2. /\ fmt # "pcm" /\ line = << >>
      /\ words' = IF lvl = -1 THEN words ELSE Emitted(Side(lvl), Cut(bits))
      /\ ws' = 1 - ws /\ lvl' = ws' /\ bits' = << >> /\ slot' = slot /\ UNCHANGED options
  BY DEF WsEdge
<1>3. PICK word \in Strings(WordSize),
           n \in (IF sender = "philips" THEN PhilipsPad ELSE 0) .. MaxPad :
         \E pad \in Strings(n) :
          /\ line' = CASE sender = "philips" -> << carry >> \o Front(word \o pad)
                       [] sender = "i2s"     -> << carry >> \o word \o pad
                       [] sender = "left"    -> word \o pad
                       [] sender = "right"   -> pad \o word
          /\ carry' = Last(word \o pad)
          /\ told' = Append(told, [ch |-> Side(ws'), value |-> Value(word)])
  BY DEF WsEdge
<1>4. PICK pad \in Strings(n) :
          /\ line' = CASE sender = "philips" -> << carry >> \o Front(word \o pad)
                       [] sender = "i2s"     -> << carry >> \o word \o pad
                       [] sender = "left"    -> word \o pad
                       [] sender = "right"   -> pad \o word
          /\ carry' = Last(word \o pad)
          /\ told' = Append(told, [ch |-> Side(ws'), value |-> Value(word)])
  BY <1>3
<1>5. n \in Nat /\ (sender = "philips" => n >= 1)
  BY <1>1, I2sAssumption
<1>6. /\ word \in Bits /\ Len(word) = WordSize /\ pad \in Bits /\ Len(pad) = n
  BY <1>5, StringIs, I2sAssumption
<1>7. line' \in Bits /\ Cut(line') = word
  <2>1. PICK s : s = line'
    OBVIOUS
  <2>2. s \in Bits /\ Cut(s) = word
    BY <1>1, <1>2, <1>4, <1>5, <1>6, <2>1, SlotIs
  <2>3. QED BY <2>1, <2>2
<1>8. word # << >>
  BY <1>6, I2sAssumption, EmptySeq
<1>9. carry' \in {0, 1}
  <2> DEFINE q == word \o pad
  <2>1. q \in Seq({0, 1}) /\ Len(q) = Len(word) + Len(pad)
    BY <1>6, ConcatProperties DEF Bits
  <2>2. Len(q) \in 1 .. Len(q)
    BY <1>5, <1>6, <2>1, I2sAssumption
  <2>3. q[Len(q)] \in {0, 1}
    <3> HIDE DEF q
    <3>1. QED BY <2>1, <2>2, ElementOfSeq
  <2>4. QED BY <1>4, <2>3 DEF Last
<1>10. words' = told
  <2>1. CASE lvl = -1
    BY <1>2, <2>1 DEF I2sInv, Before
  <2>2. CASE lvl # -1
    <3>1. bits \o line = bits
      BY <1>1, <1>2, ConcatEmptySeq DEF Bits
    <3>2. Cut(bits) # << >> /\ told = Append(words, [ch |-> Side(lvl), value |-> Value(Cut(bits))])
      BY <1>2, <2>2, <3>1 DEF I2sInv, InSlot
    <3>3. QED BY <1>2, <2>2, <3>2 DEF Emitted
  <2>3. QED BY <2>1, <2>2
<1>11. PICK l : l = ws'
  OBVIOUS
<1>12. l \in {0, 1} /\ lvl' = l /\ lvl' # -1
  BY <1>1, <1>2, <1>11
<1>13. told' = Append(words', [ch |-> Side(l), value |-> Value(word)])
  BY <1>4, <1>10, <1>11
<1>14. Side(l) \in 0 .. 3
  BY DEF Side
<1>15. told' \in Seq(Word)
  BY <1>1, <1>6, <1>10, <1>13, <1>14, OneMore
<1>16. I2sTypeOK'
  <2>1. << >> \in Bits
    BY EmptySeq DEF Bits
  <2>2. /\ sender' \in Senders /\ msbFirst' \in BOOLEAN /\ wsLeft' \in {0, 1}
    BY <1>1, <1>2 DEF options
  <2>3. ws' \in {0, 1} /\ lvl' \in {-1, 0, 1} /\ slot' \in {0, 1, 2} /\ bits' \in Bits
    BY <1>1, <1>2, <1>11, <1>12, <2>1
  <2>4. words' \in Seq(Word)
    BY <1>1, <1>10
  <2>5. QED BY <1>7, <1>9, <1>15, <2>2, <2>3, <2>4 DEF I2sTypeOK
<1>17. /\ fmt' = fmt /\ (\A x : Cut(x)' = Cut(x)) /\ (\A x : Value(x)' = Value(x))
       /\ \A x : Side(x)' = Side(x)
  BY <1>2, SameOptions
<1>18. (bits \o line)' = line'
  BY <1>2, <1>7, ConcatEmptySeq DEF Bits
<1>19. InSlot'
  <2>1. PICK s : s = line'
    OBVIOUS
  <2>2. (bits \o line)' = s /\ Cut(s) = word
    BY <1>7, <1>18, <2>1
  <2>3. Cut(bits \o line)' = word
    BY <1>17, <2>2
  <2>4. Side(lvl)' = Side(l) /\ Value(Cut(bits \o line))' = Value(word)
    BY <1>12, <1>17, <2>3
  <2>5. QED BY <1>8, <1>13, <2>3, <2>4 DEF InSlot
<1>20. Before' /\ InFrame'
  BY <1>2, <1>12, <1>17 DEF Before, InFrame
<1>21. QED BY <1>16, <1>19, <1>20 DEF I2sInv

\* A frame sync of PCM.
LEMMA SyncOK ==
  ASSUME I2sInv, FrameSync
  PROVE  I2sInv'
<1>1. /\ sender \in Senders /\ msbFirst \in BOOLEAN /\ wsLeft \in {0, 1} /\ ws \in {0, 1}
      /\ carry \in {0, 1} /\ line \in Bits /\ bits \in Bits /\ lvl \in {-1, 0, 1}
      /\ slot \in {0, 1, 2} /\ words \in Seq(Word) /\ told \in Seq(Word)
  BY DEF I2sInv, I2sTypeOK
<1>2. /\ fmt = "pcm" /\ line = << >>
      /\ words' = IF lvl = -1 THEN words ELSE Emitted(2 + slot, bits)
      /\ slot' = 0 /\ bits' = << >> /\ lvl' = 1
      /\ UNCHANGED options /\ carry' = carry /\ ws' = ws
  BY DEF FrameSync
<1>3. PICK a \in Strings(WordSize), b \in Strings(WordSize) :
          /\ line' = a \o b
          /\ told' = told \o << [ch |-> 2, value |-> Value(a)], [ch |-> 3, value |-> Value(b)] >>
  BY DEF FrameSync
<1>4. WordSize \in Nat /\ WordSize # 0 /\ 0 < WordSize
  BY I2sAssumption
<1>5. a \in Bits /\ b \in Bits /\ Len(a) = WordSize /\ Len(b) = WordSize
  BY <1>4, StringIs
<1>6. words' = told
  <2>1. CASE lvl = -1
    BY <1>2, <2>1 DEF I2sInv, Before
  <2>2. CASE lvl # -1
    <3>1. InFrame
      BY DEF I2sInv
    <3>2. bits \o line = bits /\ Len(bits) \in Nat
      BY <1>1, <1>2, ConcatEmptySeq, LenProperties DEF Bits
    <3>3. ASSUME NEW x \in Strings(WordSize), NEW y \in Strings(WordSize), bits = x \o y
          PROVE  ~ (Len(bits) < WordSize)
      <4>1. x \in Seq({0, 1}) /\ y \in Seq({0, 1}) /\ Len(x) = WordSize /\ Len(y) = WordSize
        BY <1>4, StringIs DEF Bits
      <4>2. Len(x \o y) = Len(x) + Len(y)
        BY <4>1, ConcatProperties
      <4>3. QED BY <1>4, <3>3, <4>1, <4>2
    <3>4. slot = 2 /\ bits = << >> /\ told = words
      <4>1. CASE /\ slot = 0 /\ Len(bits) < WordSize
                 /\ \E x, y \in Strings(WordSize) : bits \o line = x \o y
        BY <3>2, <3>3, <4>1
      <4>2. CASE slot = 1 /\ Len(bits) < WordSize /\ Len(bits \o line) = WordSize
        BY <1>4, <3>2, <4>2
      <4>3. QED BY <1>2, <2>2, <3>1, <4>1, <4>2 DEF InFrame
    <3>5. QED BY <1>2, <2>2, <3>4 DEF Emitted
  <2>3. QED BY <2>1, <2>2
<1> DEFINE x == [ch |-> 2, value |-> Value(a)]
<1> DEFINE y == [ch |-> 3, value |-> Value(b)]
<1>7. x \in Word /\ y \in Word
  BY <1>5, ValueIs DEF Word
<1>8. told' = told \o << x, y >>
  BY <1>3
<1> HIDE DEF x, y
<1>9. told' = Append(Append(told, x), y) /\ told' \in Seq(Word)
  <2>1. Append(told, x) \in Seq(Word) /\ << x >> \in Seq(Word) /\ << y >> \in Seq(Word)
    BY <1>1, <1>7, AppendProperties
  <2>2. Append(told, x) = told \o << x >>
    BY <1>1, <1>7, AppendIsConcat
  <2>3. Append(Append(told, x), y) = Append(told, x) \o << y >>
    BY <1>7, <2>1, AppendIsConcat
  <2>4. \A s, t \in Seq(Word) : (told \o s) \o t = told \o (s \o t)
    BY <1>1, ConcatAssociative
  <2>5. << x >> \o << y >> = << x, y >>
    <3>1. Append(<< x >>, y) = << x >> \o << y >>
      BY <1>7, <2>1, AppendIsConcat
    <3>2. Append(<< x >>, y) = << x, y >>
      <4> DEFINE v == Append(<< x >>, y)
      <4> DEFINE w == << x, y >>
      <4>1. w \in Seq(Word) /\ Len(w) = 2 /\ w[1] = x /\ w[2] = y
        BY <1>7
      <4>2. Len(<< x >>) = 1 /\ << x >>[1] = x
        OBVIOUS
      <4>3. v \in Seq(Word) /\ Len(v) = 2 /\ v[1] = x /\ v[2] = y
        BY <1>7, <2>1, <4>2, AppendProperties
      <4> HIDE DEF v, w
      <4>4. \A i \in 1 .. 2 : v[i] = w[i]
        BY <4>1, <4>3
      <4>5. v = w
        BY <4>1, <4>3, <4>4, SeqEqual
      <4>6. QED BY <4>5 DEF v, w
    <3>3. QED BY <3>1, <3>2
  <2>6. (told \o << x >>) \o << y >> = told \o << x, y >>
    <3>1. (told \o << x >>) \o << y >> = told \o (<< x >> \o << y >>)
      BY <2>1, <2>4
    <3>2. QED BY <2>5, <3>1
  <2>7. told' = Append(Append(told, x), y)
    BY <1>8, <2>2, <2>3, <2>6
  <2>8. Append(Append(told, x), y) \in Seq(Word)
    BY <1>7, <2>1, AppendProperties
  <2>9. QED BY <2>7, <2>8
<1>10. a \o b \in Bits
  BY <1>5, ConcatProperties DEF Bits
<1>11. << >> \in Bits /\ Len(<< >>) = 0
  BY EmptySeq DEF Bits
<1>12. I2sTypeOK'
  <2>1. sender' \in Senders /\ msbFirst' \in BOOLEAN /\ wsLeft' \in {0, 1}
    BY <1>1, <1>2 DEF options
  <2>2. ws' \in {0, 1} /\ carry' \in {0, 1} /\ lvl' \in {-1, 0, 1} /\ slot' \in {0, 1, 2}
    BY <1>1, <1>2
  <2>3. line' \in Bits /\ bits' \in Bits /\ words' \in Seq(Word) /\ told' \in Seq(Word)
    BY <1>1, <1>2, <1>3, <1>6, <1>9, <1>10, <1>11
  <2>4. QED BY <2>1, <2>2, <2>3 DEF I2sTypeOK
<1>13. fmt' = fmt /\ \A s : Value(s)' = Value(s)
  BY <1>2, SameOptions
<1>14. InFrame'
  <2>1. (bits \o line)' = a \o b
    <3>1. \A s \in Bits : << >> \o s = s
      BY ConcatEmptySeq DEF Bits
    <3>2. QED BY <1>2, <1>3, <1>10, <3>1
  <2>2. slot' = 0 /\ Len(bits') < WordSize
    BY <1>2, <1>4, <1>11
  <2>3. told' = Append(Append(words', [ch |-> 2, value |-> Value(a)]), [ch |-> 3, value |-> Value(b)])
    BY <1>6, <1>9 DEF x, y
  <2>4. Value(a)' = Value(a) /\ Value(b)' = Value(b)
    BY <1>13
  <2>5. QED BY <2>1, <2>2, <2>3, <2>4 DEF InFrame
<1>15. Before' /\ InSlot'
  BY <1>2, <1>13 DEF Before, InSlot
<1>16. QED BY <1>12, <1>14, <1>15 DEF I2sInv

\* A clock edge.
LEMMA ClockOK ==
  ASSUME I2sInv, Clock
  PROVE  I2sInv'
<1>1. /\ sender \in Senders /\ msbFirst \in BOOLEAN /\ wsLeft \in {0, 1} /\ ws \in {0, 1}
      /\ carry \in {0, 1} /\ line \in Bits /\ bits \in Bits /\ lvl \in {-1, 0, 1}
      /\ slot \in {0, 1, 2} /\ words \in Seq(Word) /\ told \in Seq(Word)
  BY DEF I2sInv, I2sTypeOK
<1>2. /\ line # << >> /\ line' = Tail(line) /\ UNCHANGED options
      /\ carry' = carry /\ ws' = ws /\ lvl' = lvl /\ told' = told
  BY DEF Clock
<1> DEFINE got == Append(bits, Head(line))
<1>3. /\ lvl = -1 => bits' = bits /\ slot' = slot /\ words' = words
      /\ lvl # -1 /\ fmt = "pcm" /\ Len(got) >= WordSize =>
            words' = Emitted(2 + slot, got) /\ slot' = slot + 1 /\ bits' = << >>
      /\ lvl # -1 /\ ~ (fmt = "pcm" /\ Len(got) >= WordSize) =>
            bits' = got /\ slot' = slot /\ words' = words
  BY DEF Clock
<1>4. /\ got \in Bits /\ Tail(line) \in Bits /\ got \o Tail(line) = bits \o line
      /\ Len(got) = Len(bits) + 1 /\ Len(bits) \in Nat /\ got # << >>
  <2>1. Head(line) \in {0, 1}
    BY <1>1, <1>2, Clocked
  <2>2. Len(got) = Len(bits) + 1 /\ Len(bits) \in Nat /\ got # << >>
    BY <1>1, <2>1, AppendProperties, LenProperties DEF Bits
  <2>3. QED BY <1>1, <1>2, <2>2, Clocked
<1> HIDE DEF got
<1>5. /\ fmt' = fmt /\ (\A s : Cut(s)' = Cut(s)) /\ (\A s : Value(s)' = Value(s))
      /\ \A s : Side(s)' = Side(s)
  BY <1>2, SameOptions
<1>6. sender' \in Senders /\ msbFirst' \in BOOLEAN /\ wsLeft' \in {0, 1}
  BY <1>1, <1>2 DEF options
<1>7. WordSize \in Nat /\ WordSize # 0
  BY I2sAssumption
<1>8. ASSUME bits' \in Bits, slot' \in {0, 1, 2}, words' \in Seq(Word)
      PROVE  I2sTypeOK'
  BY <1>1, <1>2, <1>4, <1>6, <1>8 DEF I2sTypeOK
<1>9. CASE lvl = -1
  <2>1. bits' = bits /\ slot' = slot /\ words' = words
    BY <1>3, <1>9
  <2>2. I2sTypeOK'
    BY <1>1, <1>8, <2>1
  <2>3. Before'
    BY <1>2, <2>1 DEF I2sInv, Before
  <2>4. QED BY <1>2, <1>9, <2>2, <2>3 DEF I2sInv, InSlot, InFrame
<1>10. CASE lvl # -1 /\ ~ (fmt = "pcm" /\ Len(got) >= WordSize)
  <2>1. bits' = got /\ slot' = slot /\ words' = words
    BY <1>3, <1>10
  <2>2. (bits \o line)' = bits \o line
    BY <1>2, <1>4, <2>1
  <2>3. I2sTypeOK'
    BY <1>1, <1>4, <1>8, <2>1
  <2>4. PICK s : s = bits \o line
    OBVIOUS
  <2>5. (bits \o line)' = s
    BY <2>2, <2>4
  <2>6. InSlot'
    <3>1. CASE fmt = "pcm"
      BY <1>5, <3>1 DEF InSlot
    <3>2. CASE fmt # "pcm"
      <4>1. Cut(s) # << >> /\ told = Append(words, [ch |-> Side(lvl), value |-> Value(Cut(s))])
        BY <1>10, <2>4, <3>2 DEF I2sInv, InSlot
      <4>2. PICK c : c = Cut(s)
        OBVIOUS
      <4>3. Cut(bits \o line)' = c /\ Value(Cut(bits \o line))' = Value(c) /\ Side(lvl)' = Side(lvl)
        <5>1. Cut(bits \o line)' = c
          BY <1>5, <2>5, <4>2
        <5>2. PICK l : l = lvl
          OBVIOUS
        <5>3. lvl' = l /\ Side(l)' = Side(l)
          BY <1>2, <1>5, <5>2
        <5>4. QED BY <1>5, <5>1, <5>2, <5>3
      <4>4. QED BY <1>2, <2>1, <4>1, <4>2, <4>3 DEF InSlot
    <3>3. QED BY <3>1, <3>2
  <2>7. InFrame'
    <3>1. CASE fmt # "pcm"
      BY <1>5, <3>1 DEF InFrame
    <3>2. CASE fmt = "pcm"
      <4>1. Len(bits') < WordSize
        BY <1>4, <1>7, <1>10, <2>1, <3>2
      <4>2. CASE slot = 2 /\ line = << >>
        BY <1>2, <4>2
      <4>3. CASE /\ slot = 0
                 /\ \E a, b \in Strings(WordSize) :
                       /\ bits \o line = a \o b
                       /\ told = Append(Append(words, [ch |-> 2, value |-> Value(a)]),
                                        [ch |-> 3, value |-> Value(b)])
        <5>1. PICK a \in Strings(WordSize), b \in Strings(WordSize) :
                 /\ bits \o line = a \o b
                 /\ told = Append(Append(words, [ch |-> 2, value |-> Value(a)]),
                                  [ch |-> 3, value |-> Value(b)])
          BY <4>3
        <5>2. Value(a)' = Value(a) /\ Value(b)' = Value(b)
          BY <1>5
        <5>3. slot' = 0 /\ told' = told /\ words' = words /\ (bits \o line)' = a \o b
          BY <1>2, <2>1, <2>2, <4>3, <5>1
        <5>4. QED BY <4>1, <5>1, <5>2, <5>3 DEF InFrame
      <4>4. CASE slot = 1 /\ Len(bits \o line) = WordSize
                 /\ told = Append(words, [ch |-> 3, value |-> Value(bits \o line)])
        <5>1. Value(bits \o line)' = Value(s)
          BY <1>5, <2>5
        <5>2. Len(bits \o line)' = WordSize
          BY <2>4, <2>5, <4>4
        <5>3. told' = Append(words', [ch |-> 3, value |-> Value(s)])
          BY <1>2, <2>1, <2>4, <4>4
        <5>4. QED BY <2>1, <4>1, <4>4, <5>1, <5>2, <5>3 DEF InFrame
      <4>5. QED BY <1>10, <3>2, <4>2, <4>3, <4>4 DEF I2sInv, InFrame
    <3>3. QED BY <3>1, <3>2
  <2>8. Before'
    BY <1>2, <1>10 DEF Before
  <2>9. QED BY <2>3, <2>6, <2>7, <2>8 DEF I2sInv
<1>11. CASE lvl # -1 /\ fmt = "pcm" /\ Len(got) >= WordSize
  <2>1. words' = Append(words, [ch |-> 2 + slot, value |-> Value(got)])
        /\ slot' = slot + 1 /\ bits' = << >>
    BY <1>3, <1>4, <1>11 DEF Emitted
  <2>2. << >> \in Bits /\ Len(<< >>) = 0 /\ \A s \in Bits : << >> \o s = s
    BY EmptySeq, ConcatEmptySeq DEF Bits
  <2>3. (bits \o line)' = Tail(line)
    BY <1>2, <1>4, <2>1, <2>2
  <2>4. Before' /\ InSlot'
    BY <1>2, <1>5, <1>11 DEF Before, InSlot
  <2>5. Len(bits') < WordSize
    BY <1>7, <2>1, <2>2
  <2>6. InFrame /\ ~ (slot = 2)
    <3>1. InFrame
      BY DEF I2sInv
    <3>2. slot = 2 => line = << >>
      BY <1>11, <3>1 DEF InFrame
    <3>3. QED BY <1>2, <3>1, <3>2
  <2>7. CASE slot = 0
    <3>1. Len(got) = WordSize
      BY <1>4, <1>7, <1>11, <2>6, <2>7 DEF InFrame
    <3>2. PICK a \in Strings(WordSize), b \in Strings(WordSize) :
             /\ bits \o line = a \o b
             /\ told = Append(Append(words, [ch |-> 2, value |-> Value(a)]),
                              [ch |-> 3, value |-> Value(b)])
      BY <1>11, <2>6, <2>7 DEF InFrame
    <3>3. a \in Bits /\ b \in Bits /\ Len(a) = WordSize /\ Len(b) = WordSize
      BY <1>7, StringIs
    <3>4. got = a /\ Tail(line) = b
      BY <1>4, <3>1, <3>2, <3>3, Split
    <3>5. words' = Append(words, [ch |-> 2, value |-> Value(a)]) /\ slot' = 1
      BY <2>1, <2>7, <3>4
    <3>6. words' \in Seq(Word)
      BY <1>1, <3>3, <3>5, OneMore
    <3>7. (bits \o line)' = b /\ Value(bits \o line)' = Value(b)
      BY <1>5, <2>3, <3>4
    <3>8. told' = Append(words', [ch |-> 3, value |-> Value(b)])
      BY <1>2, <3>2, <3>5
    <3>9. InFrame'
      BY <2>5, <3>3, <3>5, <3>7, <3>8 DEF InFrame
    <3>10. I2sTypeOK'
      BY <1>8, <2>1, <2>2, <3>5, <3>6
    <3>11. QED BY <2>4, <3>9, <3>10 DEF I2sInv
  <2>8. CASE slot = 1
    <3>1. /\ Len(bits) < WordSize /\ Len(bits \o line) = WordSize
          /\ told = Append(words, [ch |-> 3, value |-> Value(bits \o line)])
      BY <1>11, <2>6, <2>8 DEF InFrame
    <3>2. Len(got) = WordSize /\ Len(got \o Tail(line)) = WordSize
      BY <1>4, <1>7, <1>11, <3>1
    <3>3. Len(got \o Tail(line)) = Len(got) + Len(Tail(line)) /\ Len(Tail(line)) \in Nat
      BY <1>4, ConcatProperties, LenProperties DEF Bits
    <3>4. Tail(line) = << >>
      BY <1>4, <1>7, <3>2, <3>3, EmptySeq DEF Bits
    <3>5. got = bits \o line
      <4>1. got \o << >> = got
        BY <1>4, ConcatEmptySeq DEF Bits
      <4>2. QED BY <1>4, <3>4, <4>1
    <3>6. words' = told /\ slot' = 2
      BY <2>1, <2>8, <3>1, <3>5
    <3>7. InFrame'
      BY <1>2, <2>1, <3>4, <3>6 DEF InFrame
    <3>8. I2sTypeOK'
      BY <1>1, <1>8, <2>1, <2>2, <3>6
    <3>9. QED BY <2>4, <3>7, <3>8 DEF I2sInv
  <2>9. QED BY <1>1, <2>6, <2>7, <2>8
<1>12. QED BY <1>9, <1>10, <1>11

\* The words put out are the words sent, of any transmitter, format, word size,
\* padding and bit order, wherever in a slot the capture begins (decode(),
\* _emit_slot, _decode_pcm), as long as a Philips transmitter has a clock to spare.
THEOREM DecodedWords ==
  ASSUME "philips" \in Senders => PhilipsPad >= 1
  PROVE  I2sSpec => []WordsRoundTrip
<1>1. I2sInit => I2sInv
  BY I2sInitOK
<1>2. I2sInv /\ [I2sNext]_i2sVars => I2sInv'
  <2> SUFFICES ASSUME I2sInv, [I2sNext]_i2sVars PROVE I2sInv'
    OBVIOUS
  <2>1. CASE WsEdge
    BY <2>1, WsOK
  <2>2. CASE FrameSync
    BY <2>2, SyncOK
  <2>3. CASE Clock
    BY <2>3, ClockOK
  <2>4. CASE UNCHANGED i2sVars
    <3>1. /\ UNCHANGED options /\ line' = line /\ carry' = carry /\ ws' = ws /\ bits' = bits
          /\ lvl' = lvl /\ slot' = slot /\ words' = words /\ told' = told
      BY <2>4 DEF i2sVars, options
    <3>2. sender' = sender /\ msbFirst' = msbFirst /\ wsLeft' = wsLeft
      BY <3>1 DEF options
    <3>3. I2sTypeOK' /\ Before'
      BY <3>1, <3>2 DEF I2sInv, I2sTypeOK, Before
    <3>4. InSlot'
      BY <3>1, <3>2 DEF I2sInv, InSlot, Cut, Side, Value, fmt
    <3>5. InFrame'
      BY <3>1, <3>2 DEF I2sInv, InFrame, Value, fmt
    <3>6. QED BY <3>3, <3>4, <3>5 DEF I2sInv
  <2>5. QED BY <2>1, <2>2, <2>3, <2>4 DEF I2sNext
<1>3. I2sInv => WordsRoundTrip
  <2> SUFFICES ASSUME I2sInv PROVE WordsRoundTrip
    OBVIOUS
  <2>1. words \in Seq(Word) /\ told \in Seq(Word) /\ bits \in Bits /\ lvl \in {-1, 0, 1}
    BY DEF I2sInv, I2sTypeOK
  <2>2. Len(words) \in Nat /\ Len(told) \in Nat
    BY <2>1, LenProperties
  <2>3. ASSUME NEW t \in Seq(Word), \A i \in 1 .. Len(words) : t[i] = words[i],
               Len(words) <= Len(t), t = told
        PROVE  IsPrefix(words, told)
    <3> DEFINE p(v) == SubSeq(v, 1, Len(words))
    <3>1. ASSUME NEW v \in Seq(Word), Len(words) <= Len(v), \A i \in 1 .. Len(words) : v[i] = words[i]
          PROVE  p(v) = words
      <4>1. \A i \in 1 .. Len(words) : v[i] \in Word
        BY <2>1, <3>1, ElementOfSeq
      <4>2. /\ p(v) \in Seq(Word)
            /\ Len(p(v)) = IF 1 <= Len(words) THEN Len(words) - 1 + 1 ELSE 0
            /\ \A i \in 1 .. Len(words) - 1 + 1 : p(v)[i] = v[1 + i - 1]
        BY <2>2, <4>1, SubSeqProperties
      <4> HIDE DEF p
      <4>3. Len(p(v)) = Len(words)
        BY <2>2, <4>2
      <4>4. \A i \in 1 .. Len(p(v)) : p(v)[i] = words[i]
        <5>1. \A i \in 1 .. Len(words) : i \in 1 .. Len(words) - 1 + 1 /\ 1 + i - 1 = i
          BY <2>2
        <5>2. QED BY <3>1, <4>2, <4>3, <5>1
      <4>5. QED BY <2>1, <4>2, <4>3, <4>4, SeqEqual
    <3>2. p(words) = words /\ p(told) = words
      <4> HIDE DEF p
      <4>1. QED BY <2>1, <2>2, <2>3, <3>1
    <3>3. QED BY <2>3, <3>2 DEF IsPrefix
  <2>4. ASSUME NEW v \in Seq(Word), NEW e \in Word
        PROVE  /\ Append(v, e) \in Seq(Word) /\ Len(Append(v, e)) = Len(v) + 1 /\ Len(v) \in Nat
               /\ \A i \in 1 .. Len(v) : Append(v, e)[i] = v[i]
    BY AppendProperties, LenProperties
  <2>5. ASSUME NEW c \in 0 .. 3, NEW x \in Bits PROVE [ch |-> c, value |-> Value(x)] \in Word
    BY ValueIs DEF Word
  <2>6. CASE lvl = -1
    <3>1. words = << >> /\ told = << >>
      BY <2>6 DEF I2sInv, Before
    <3>2. IsPrefix(words, told)
      <4>1. /\ told \in Seq(Word) /\ Len(words) <= Len(told)
            /\ \A i \in 1 .. Len(words) : told[i] = words[i]
        BY <2>1, <2>2, <3>1
      <4>2. QED BY <2>3, <4>1
    <3>3. QED BY <3>1, <3>2 DEF WordsRoundTrip
  <2>7. CASE lvl # -1 /\ fmt # "pcm"
    <3>1. bits \o line \in Bits
      BY ConcatProperties DEF I2sInv, I2sTypeOK, Bits
    <3>2. Side(lvl) \in 0 .. 3
      BY DEF Side
    <3>3. PICK e \in Word : told = Append(words, e)
      BY <2>5, <2>7, <3>1, <3>2, CutBits DEF I2sInv, InSlot
    <3>4. Len(told) = Len(words) + 1 /\ \A i \in 1 .. Len(words) : told[i] = words[i]
      BY <2>1, <2>4, <3>3
    <3>5. IsPrefix(words, told)
      BY <2>1, <2>2, <2>3, <3>4
    <3>6. QED BY <2>2, <2>7, <3>4, <3>5 DEF WordsRoundTrip
  <2>8. CASE lvl # -1 /\ fmt = "pcm"
    <3>1. InFrame /\ line \in Bits
      BY DEF I2sInv, I2sTypeOK
    <3>2. CASE slot = 2 /\ told = words
      BY <2>1, <2>2, <2>3, <3>2 DEF WordsRoundTrip
    <3>3. CASE /\ slot = 0 /\ Len(bits) < WordSize
               /\ \E a, b \in Strings(WordSize) :
                     /\ bits \o line = a \o b
                     /\ told = Append(Append(words, [ch |-> 2, value |-> Value(a)]),
                                      [ch |-> 3, value |-> Value(b)])
      <4>1. PICK a \in Strings(WordSize), b \in Strings(WordSize) :
               /\ bits \o line = a \o b
               /\ told = Append(Append(words, [ch |-> 2, value |-> Value(a)]),
                                [ch |-> 3, value |-> Value(b)])
        BY <3>3
      <4>2. a \in Bits /\ b \in Bits /\ Len(a) = WordSize /\ Len(b) = WordSize /\ WordSize \in Nat
        BY I2sAssumption, StringIs
      <4>3. PICK d \in Word, e \in Word : told = Append(Append(words, d), e)
        BY <2>5, <4>1, <4>2
      <4>4. /\ Append(words, d) \in Seq(Word) /\ Len(Append(words, d)) = Len(words) + 1
            /\ \A i \in 1 .. Len(words) : Append(words, d)[i] = words[i]
        BY <2>1, <2>4
      <4>5. PICK u \in Seq(Word) : u = Append(words, d)
        BY <4>4
      <4>6. Len(told) = Len(u) + 1 /\ \A i \in 1 .. Len(u) : told[i] = u[i]
        BY <2>4, <4>3, <4>5
      <4>7. Len(words) <= Len(told) /\ \A i \in 1 .. Len(words) : told[i] = words[i]
        <5>1. \A i \in 1 .. Len(words) : i \in 1 .. Len(u)
          BY <2>2, <4>4, <4>5
        <5>2. QED BY <2>2, <4>4, <4>5, <4>6, <5>1
      <4>8. line # << >>
        <5>1. Len(a \o b) = Len(a) + Len(b)
          BY <4>2, ConcatProperties DEF Bits
        <5>2. bits \o << >> = bits /\ Len(bits) \in Nat
          BY <2>1, ConcatEmptySeq, LenProperties DEF Bits
        <5>3. QED BY <3>3, <4>1, <4>2, <5>1, <5>2
      <4>9. QED BY <2>1, <2>3, <4>7, <4>8 DEF WordsRoundTrip
    <3>4. CASE /\ slot = 1 /\ Len(bits) < WordSize /\ Len(bits \o line) = WordSize
               /\ told = Append(words, [ch |-> 3, value |-> Value(bits \o line)])
      <4>1. bits \o line \in Bits
        BY <2>1, <3>1, ConcatProperties DEF Bits
      <4>2. PICK e \in Word : told = Append(words, e)
        BY <2>5, <3>4, <4>1
      <4>3. Len(told) = Len(words) + 1 /\ \A i \in 1 .. Len(words) : told[i] = words[i]
        BY <2>1, <2>4, <4>2
      <4>4. line # << >>
        <5>1. bits \o << >> = bits /\ Len(bits) \in Nat /\ WordSize \in Nat
          BY <2>1, I2sAssumption, ConcatEmptySeq, LenProperties DEF Bits
        <5>2. QED BY <3>4, <5>1
      <4>5. IsPrefix(words, told)
        BY <2>1, <2>2, <2>3, <4>3
      <4>6. QED BY <4>4, <4>5 DEF WordsRoundTrip
    <3>5. QED BY <2>8, <3>1, <3>2, <3>3, <3>4 DEF InFrame
  <2>9. QED BY <2>6, <2>7, <2>8
<1>4. QED BY <1>1, <1>2, <1>3, PTL DEF I2sSpec
=============================================================================
