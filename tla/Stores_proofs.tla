--------------------------- MODULE Stores_proofs ----------------------------
(***************************************************************************)
(* Proofs about the stores the render thread reads: AnalogStore, for any   *)
(* capacity, fan-out and number of levels, any samples and any sequence of *)
(* frames; AnnotationStore, for any rows, annotations and views.           *)
(***************************************************************************)
EXTENDS AnalogStore, AnnotationStore, FiniteSetTheorems, SequenceTheorems,
        WellFoundedInduction, TLAPS

-----------------------------------------------------------------------------
(* Least elements, and what they give without an induction principle.      *)

\* A set of numbers has a least element: this stands for induction over Nat.
LEMMA Least ==
  ASSUME NEW T, T \subseteq Nat, T # {}
  PROVE  \E x \in T : \A y \in T : x <= y
<1> DEFINE R == {ss \in Nat \X Nat : ss[1] < ss[2]}
<1>1. IsWellFoundedOn(R, Nat)
  BY NatLessThanWellFounded DEF OpToRel
<1>2. PICK x \in T : \A y \in T : ~ (<< y, x >> \in R)
  <2> HIDE DEF R
  <2>1. QED BY <1>1, WFMin
<1>3. ASSUME NEW y \in T PROVE x <= y
  <2>1. x \in Nat /\ y \in Nat
    OBVIOUS
  <2>2. y < x => << y, x >> \in R
    BY <2>1
  <2>3. QED BY <1>2, <2>1, <2>2
<1>4. QED BY <1>3

\* A finite sequence of numbers has a smallest one.
LEMMA SmallestOf ==
  ASSUME NEW n \in Nat \ {0}, NEW f \in [1 .. n -> Int]
  PROVE  \E i \in 1 .. n : \A j \in 1 .. n : f[i] <= f[j]
<1> DEFINE Bad == {m \in Nat \ {0} : \E g \in [1 .. m -> Int] :
                      ~ \E i \in 1 .. m : \A j \in 1 .. m : g[i] <= g[j]}
<1>1. SUFFICES ASSUME Bad # {} PROVE FALSE
  OBVIOUS
<1>2. PICK m \in Bad : \A k \in Bad : m <= k
  <2> HIDE DEF Bad
  <2>1. Bad \subseteq Nat
    BY DEF Bad
  <2>2. QED BY <1>1, <2>1, Least
<1>3. m \in Nat \ {0}
  OBVIOUS
<1>4. PICK g \in [1 .. m -> Int] : ~ \E i \in 1 .. m : \A j \in 1 .. m : g[i] <= g[j]
  OBVIOUS
<1>5. m # 1
  <2>1. ASSUME m = 1 PROVE FALSE
    <3>1. 1 \in 1 .. m /\ (\A j \in 1 .. m : j = 1) /\ g[1] <= g[1]
      BY <2>1
    <3>2. QED BY <3>1, <1>4
  <2>2. QED BY <2>1
<1>6. m - 1 \in Nat \ {0} /\ m - 1 \notin Bad
  <2> HIDE DEF Bad
  <2>1. QED BY <1>2, <1>3, <1>5
<1>7. PICK i \in 1 .. m - 1 : \A j \in 1 .. m - 1 : g[i] <= g[j]
  <2>1. [k \in 1 .. m - 1 |-> g[k]] \in [1 .. m - 1 -> Int]
    BY <1>3
  <2>2. QED BY <1>6, <2>1
<1>8. \A j \in 1 .. m : j = m \/ j \in 1 .. m - 1
  BY <1>3
<1>9. i \in 1 .. m /\ m \in 1 .. m /\ g[i] \in Int /\ g[m] \in Int
  BY <1>3, <1>7
<1>10. CASE g[i] <= g[m]
  BY <1>10, <1>4, <1>7, <1>8, <1>9
<1>11. CASE g[m] <= g[i]
  <2>1. ASSUME NEW j \in 1 .. m PROVE g[m] <= g[j]
    <3>1. CASE j = m
      BY <3>1, <1>9
    <3>2. CASE j \in 1 .. m - 1
      <4>1. g[j] \in Int /\ g[i] <= g[j]
        BY <1>7, <3>2
      <4>2. QED BY <4>1, <1>9, <1>11
    <3>3. QED BY <3>1, <3>2, <1>8
  <2>2. QED BY <2>1, <1>4, <1>9
<1>12. QED BY <1>9, <1>10, <1>11

\* A finite set of numbers has a smallest one.
LEMMA SmallestIn ==
  ASSUME NEW S, IsFiniteSet(S), S \subseteq Int, S # {}
  PROVE  \E x \in S : \A y \in S : x <= y
<1> DEFINE n == Cardinality(S)
<1>1. n \in Nat /\ ExistsBijection(1 .. n, S)
  BY FS_CardinalityType
<1>2. n # 0
  BY FS_EmptySet
<1> HIDE DEF n
<1>3. PICK f \in [1 .. n -> S] : \A y \in S : \E i \in 1 .. n : f[i] = y
  BY <1>1 DEF ExistsBijection, Bijection, Surjection
<1>4. f \in [1 .. n -> Int]
  BY <1>3
<1>5. PICK i \in 1 .. n : \A j \in 1 .. n : f[i] <= f[j]
  BY <1>1, <1>2, <1>4, SmallestOf
<1>6. QED
  BY <1>3, <1>5

\* Min and Max of a finite set of numbers are its extremes.
LEMMA Extremes ==
  ASSUME NEW S, IsFiniteSet(S), S \subseteq Int, S # {}
  PROVE  /\ Min(S) \in Int /\ Max(S) \in Int
         /\ \A y \in S : Min(S) <= y /\ y <= Max(S)
<1>1. Min(S) \in S /\ \A y \in S : Min(S) <= y
  BY SmallestIn DEF Min
<1>2. \E x \in S : \A y \in S : x >= y
  <2> DEFINE N == {0 - x : x \in S}
  <2>1. IsFiniteSet(N)
    <3>1. [x \in S |-> 0 - x] \in Surjection(S, N)
      BY DEF Surjection
    <3>2. QED BY <3>1, FS_Surjection
  <2>2. N \subseteq Int /\ N # {}
    OBVIOUS
  <2>3. PICK z \in N : \A y \in N : z <= y
    <3> HIDE DEF N
    <3>1. QED BY <2>1, <2>2, SmallestIn
  <2>4. PICK x \in S : z = 0 - x
    OBVIOUS
  <2>5. ASSUME NEW y \in S PROVE x >= y
    <3>1. 0 - x <= 0 - y
      BY <2>3, <2>4
    <3>2. x \in Int /\ y \in Int
      OBVIOUS
    <3>3. QED BY <3>1, <3>2
  <2>6. QED BY <2>5
<1>3. Max(S) \in S /\ \A y \in S : Max(S) >= y
  BY <1>2 DEF Max
<1>4. QED BY <1>1, <1>3

-----------------------------------------------------------------------------
(* Division, and the blocks it makes.                                      *)

\* What the quotient of whole numbers is.
LEMMA Quotient ==
  ASSUME NEW a \in Nat, NEW k \in Nat \ {0}
  PROVE  /\ a \div k \in Nat
         /\ k * (a \div k) <= a /\ a < k * (a \div k) + k
         /\ a \div k <= a
OBVIOUS

\* A product grows with its factor.
LEMMA TimesGrows ==
  ASSUME NEW k \in Nat, NEW a \in Nat, NEW b \in Nat, a <= b
  PROVE  k * a <= k * b
OBVIOUS

\* The quotient is the only number of which k times it is so close to a.
LEMMA QuotientIs ==
  ASSUME NEW a \in Nat, NEW k \in Nat \ {0}, NEW q \in Nat,
         k * q <= a, a < k * q + k
  PROVE  a \div k = q
<1> DEFINE p == a \div k
<1>1. p \in Nat /\ k * p <= a /\ a < k * p + k
  BY Quotient
<1> HIDE DEF p
<1>2. ASSUME p < q PROVE FALSE
  <2>1. k * (p + 1) <= k * q
    BY <1>1, <1>2, TimesGrows
  <2>2. k * (p + 1) = k * p + k /\ k * q \in Nat /\ k * p \in Nat
    BY <1>1
  <2>3. QED BY <1>1, <2>1, <2>2
<1>3. ASSUME q < p PROVE FALSE
  <2>1. k * (q + 1) <= k * p
    BY <1>1, <1>3, TimesGrows
  <2>2. k * (q + 1) = k * q + k /\ k * q \in Nat /\ k * p \in Nat
    BY <1>1
  <2>3. QED BY <1>1, <2>1, <2>2
<1>4. QED BY <1>1, <1>2, <1>3 DEF p

\* A quotient grows with the dividend.
LEMMA QuotientGrows ==
  ASSUME NEW k \in Nat \ {0}, NEW a \in Nat, NEW b \in Nat, a <= b
  PROVE  a \div k <= b \div k
<1> DEFINE p == a \div k
<1> DEFINE q == b \div k
<1>1. p \in Nat /\ q \in Nat /\ k * p <= a /\ b < k * q + k
  BY Quotient
<1>2. SUFFICES ASSUME q < p PROVE FALSE
  BY <1>1
<1> HIDE DEF p, q
<1>3. k * (q + 1) <= k * p
  BY <1>1, <1>2, TimesGrows
<1>4. k * (q + 1) = k * q + k
  BY <1>1
<1>5. QED
  BY <1>1, <1>3, <1>4

\* Blocks of blocks.
LEMMA QuotientTwice ==
  ASSUME NEW s \in Nat, NEW j \in Nat \ {0}, NEW k \in Nat \ {0}
  PROVE  k * j \in Nat \ {0} /\ s \div (k * j) = (s \div j) \div k
<1> DEFINE p == s \div j
<1> DEFINE q == p \div k
<1>1. p \in Nat /\ j * p <= s /\ s < j * p + j
  BY Quotient
<1> HIDE DEF p
<1>2. q \in Nat /\ k * q <= p /\ p < k * q + k
  BY <1>1, Quotient
<1> HIDE DEF q
<1>3. j * (k * q) <= j * p /\ j * (p + 1) <= j * (k * q + k)
  BY <1>1, <1>2, TimesGrows
<1>4. /\ j * (k * q) = (k * j) * q /\ j * (k * q + k) = (k * j) * q + k * j
      /\ j * (p + 1) = j * p + j /\ k * j \in Nat \ {0}
      /\ j * p \in Nat /\ (k * j) * q \in Nat
  BY <1>1, <1>2
<1>5. (k * j) * q <= s /\ s < (k * j) * q + k * j
  BY <1>1, <1>3, <1>4
<1>6. s \div (k * j) = q
  BY <1>2, <1>4, <1>5, QuotientIs
<1>7. QED BY <1>4, <1>6 DEF p, q

\* The recursive definition of ABlock defines something.
LEMMA BlocksExist ==
  \E g : g = [l \in ALevel |-> IF l = 0 THEN AFactor ELSE AFactor * g[l - 1]]
<1> DEFINE Upto(n, g) == g = [l \in 0 .. n |-> IF l = 0 THEN AFactor ELSE AFactor * g[l - 1]]
<1> DEFINE Bad == {n \in Nat : ~ \E g : Upto(n, g)}
<1>1. ASSUME Bad # {} PROVE FALSE
  <2>1. PICK n \in Bad : \A k \in Bad : n <= k
    <3>1. Bad \subseteq Nat
      OBVIOUS
    <3> HIDE DEF Bad
    <3>2. QED BY <1>1, <3>1, Least
  <2>2. n \in Nat /\ ~ \E g : Upto(n, g)
    OBVIOUS
  <2>3. n # 0
    <3>1. Upto(0, [l \in 0 .. 0 |-> AFactor])
      OBVIOUS
    <3>2. QED BY <2>2, <3>1
  <2>4. PICK g : Upto(n - 1, g)
    <3>1. n - 1 \in Nat /\ n - 1 \notin Bad
      <4> HIDE DEF Bad
      <4>1. QED BY <2>1, <2>2, <2>3
    <3> HIDE DEF Upto
    <3>2. QED BY <3>1
  <2>5. Upto(n, [l \in 0 .. n |-> IF l = 0 THEN AFactor ELSE AFactor * g[l - 1]])
    <3> DEFINE h == [l \in 0 .. n |-> IF l = 0 THEN AFactor ELSE AFactor * g[l - 1]]
    <3>1. \A l \in 0 .. n - 1 : h[l] = g[l]
      BY <2>2, <2>4
    <3>2. \A l \in 0 .. n : l = 0 \/ (l - 1 \in 0 .. n - 1 /\ h[l - 1] = g[l - 1])
      BY <3>1, <2>2
    <3>3. h = [l \in 0 .. n |-> IF l = 0 THEN AFactor ELSE AFactor * h[l - 1]]
      BY <3>2
    <3>4. QED BY <3>3
  <2>6. QED
    <3> HIDE DEF Upto
    <3>1. QED BY <2>2, <2>5
<1>2. ALevels - 1 \in Nat
  BY AnalogAssumption
<1>3. PICK g : Upto(ALevels - 1, g)
  <2> HIDE DEF Upto
  <2>1. QED BY <1>1, <1>2
<1>4. QED BY <1>3 DEF ALevel

\* A block of a level is AFactor blocks of the level below.
LEMMA Blocks ==
  /\ ABlock[0] = AFactor
  /\ \A l \in ALevel : ABlock[l] \in Nat \ {0}
  /\ \A l \in ALevel : l # 0 => l - 1 \in ALevel /\ ABlock[l] = AFactor * ABlock[l - 1]
<1>1. ABlock = [l \in ALevel |-> IF l = 0 THEN AFactor ELSE AFactor * ABlock[l - 1]]
  BY BlocksExist DEF ABlock
<1>2. 0 \in ALevel /\ \A l \in ALevel : l \in Nat /\ (l # 0 => l - 1 \in ALevel)
  BY AnalogAssumption DEF ALevel
<1>3. ABlock[0] = AFactor /\ \A l \in ALevel : l # 0 => ABlock[l] = AFactor * ABlock[l - 1]
  BY <1>1, <1>2
<1> DEFINE Bad == {l \in ALevel : ABlock[l] \notin Nat \ {0}}
<1>4. ASSUME Bad # {} PROVE FALSE
  <2>1. PICK l \in Bad : \A k \in Bad : l <= k
    <3>1. Bad \subseteq Nat
      BY <1>2
    <3> HIDE DEF Bad
    <3>2. QED BY <1>4, <3>1, Least
  <2>2. l # 0
    BY <1>3, AnalogAssumption
  <2>3. l - 1 \in ALevel /\ l - 1 \notin Bad
    <3>1. l - 1 \in ALevel /\ l \in Nat
      BY <1>2, <2>2
    <3> HIDE DEF Bad
    <3>2. QED BY <2>1, <3>1
  <2>4. ABlock[l - 1] \in Nat \ {0}
    BY <2>3
  <2>5. \A m, n \in Nat \ {0} : m * n \in Nat \ {0}
    OBVIOUS
  <2>6. QED BY <2>2, <2>4, <2>5, <1>3, AnalogAssumption
<1>5. QED BY <1>2, <1>3, <1>4

-----------------------------------------------------------------------------
(* AnalogStore: the inductive invariant.                                   *)

\* Where append() is: with the samples s .. e - 1, or with a cell they are in.
Frames == [at : {"write"}, s : Nat, e : Nat]
Cells  == [at : {"min"}, s : Nat, e : Nat, level : ALevel, cell : ACells]
          \cup [at : {"max"}, s : Nat, e : Nat, level : ALevel, cell : ACells, max : Int]
Reads  == [level : ALevel, at : 0 .. ASize - 1, count : Nat, min : Int, loaded : {"min"}]
          \cup [level : ALevel, at : 0 .. ASize - 1, count : Nat, min : Int,
                loaded : {"both"}, max : Int]

AnalogTypeOK ==
    /\ volt \in [0 .. ASize - 1 -> Int]
    /\ acount \in 0 .. ASize /\ wend \in 0 .. ASize /\ sent \in Nat
    /\ mn \in [ALevel -> [ACells -> Int]] /\ mx \in [ALevel -> [ACells -> Int]]
    /\ alloc \subseteq ALevel
    /\ job \in {NoJob} \cup Frames \cup Cells
    /\ rd \in {NoRead} \cup Reads

\* Samples are written and published in the order they are sent; between them
\* are holes only, until the store is full.
Writing(s) == job.at = "write" /\ s >= job.s
Order ==
    /\ acount <= wend /\ wend <= sent
    /\ \A s \in wend .. sent - 1 : s \in holes \/ s >= ASize \/ Writing(s)
    /\ job.at = "write" => acount = wend /\ wend <= job.s /\ job.s < job.e /\ job.e = sent
    /\ job.at \in {"min", "max"} =>
           /\ acount <= job.s /\ job.s < job.e /\ job.e = wend
           /\ \A s \in acount .. job.s - 1 : s \in holes

\* The cell of level l a sample is in.
CellOf(l, s) == s \div ABlock[l]

\* append() is at a cell its samples are in, and has passed those before it.
InRange == job.at \in {"min", "max"} =>
    /\ CellOf(job.level, job.s) <= job.cell
    /\ job.cell <= CellOf(job.level, job.e - 1)
Passed(l, c) ==
    \/ job.at = "none"
    \/ job.at \in {"min", "max"} /\ (l < job.level \/ (l = job.level /\ c < job.cell))

\* The cells span the samples that were published, and those append() has
\* passed the ones that are to be.
Spanned(l, s) == mn[l][CellOf(l, s)] <= volt[s] /\ volt[s] <= mx[l][CellOf(l, s)]
Halfway(l, s) == mn[l][CellOf(l, s)] <= volt[s] /\ volt[s] <= job.max
Cover ==
    \A l \in ALevel, s \in 0 .. wend - 1 : s \notin holes =>
        /\ s < acount \/ Passed(l, CellOf(l, s)) => Spanned(l, s)
        /\ job.at = "max" /\ l = job.level /\ CellOf(l, s) = job.cell => Halfway(l, s)

\* What the render thread has loaded spans what had been published.
Drawing ==
    rd # NoRead =>
        /\ rd.count <= acount /\ rd.at < rd.count
        /\ \A s \in 0 .. rd.count - 1 :
               s \notin holes /\ CellOf(rd.level, s) = CellOf(rd.level, rd.at)
               => rd.min <= volt[s] /\ (rd.loaded = "both" => volt[s] <= rd.max)

-----------------------------------------------------------------------------
(* AnalogStore: types.                                                     *)

\* The fields append() has at each of its places.
LEMMA JobFields ==
  ASSUME AnalogTypeOK
  PROVE  /\ job.at \in {"none", "write", "min", "max"}
         /\ job.at = "none" <=> job = NoJob
         /\ job.at = "write" => job \in Frames /\ job.s \in Nat /\ job.e \in Nat
         /\ job.at \in {"min", "max"} =>
                /\ job \in Cells /\ job.s \in Nat /\ job.e \in Nat
                /\ job.level \in ALevel /\ job.cell \in ACells
         /\ job.at = "max" => job.max \in Int
BY DEF AnalogTypeOK, NoJob, Frames, Cells

\* The fields of what the render thread has loaded.
LEMMA ReadFields ==
  ASSUME AnalogTypeOK, rd # NoRead
  PROVE  /\ rd \in Reads /\ rd.level \in ALevel /\ rd.at \in 0 .. ASize - 1
         /\ rd.count \in Nat /\ rd.min \in Int /\ rd.loaded \in {"min", "both"}
         /\ rd.loaded = "both" => rd.max \in Int
BY DEF AnalogTypeOK, Reads

\* The cells samples are in, and those below a cell, exist.
LEMMA CellsExist ==
  /\ AFactor * ASize \in Nat \ {0}
  /\ ACells \subseteq Nat
  /\ 0 \in ALevel
  /\ \A l \in ALevel : l \in Nat
  /\ \A l \in ALevel, s \in 0 .. ASize - 1 : CellOf(l, s) \in ACells
<1>1. \A m, n \in Nat \ {0} : m * n \in Nat \ {0} /\ n <= m * n
  <2>1. TAKE m, n \in Nat \ {0}
  <2>2. n * 1 <= n * m
    BY TimesGrows
  <2>3. QED BY <2>2
<1>2. AFactor * ASize \in Nat \ {0} /\ ASize <= AFactor * ASize
  BY <1>1, AnalogAssumption
<1>3. ASSUME NEW l \in ALevel, NEW s \in 0 .. ASize - 1 PROVE CellOf(l, s) \in ACells
  <2>1. CellOf(l, s) \in Nat /\ CellOf(l, s) <= s
    BY Quotient, Blocks, AnalogAssumption DEF CellOf
  <2>2. QED BY <2>1, <1>2, AnalogAssumption DEF ACells
<1>4. QED BY <1>2, <1>3, AnalogAssumption DEF ACells, ALevel

\* Later samples are in later cells.
LEMMA CellsGrow ==
  ASSUME NEW l \in ALevel, NEW s \in Nat, NEW t \in Nat
  PROVE  /\ CellOf(l, s) \in Nat
         /\ s <= t => CellOf(l, s) <= CellOf(l, t)
BY Quotient, QuotientGrows, Blocks DEF CellOf

\* The cell of the level above.
LEMMA Parent ==
  ASSUME NEW l \in ALevel, l # 0, NEW s \in Nat
  PROVE  l - 1 \in ALevel /\ CellOf(l, s) = CellOf(l - 1, s) \div AFactor
<1>1. /\ l - 1 \in ALevel /\ ABlock[l] = AFactor * ABlock[l - 1]
      /\ ABlock[l - 1] \in Nat \ {0} /\ AFactor \in Nat \ {0}
  BY Blocks, AnalogAssumption
<1>2. s \div (AFactor * ABlock[l - 1]) = (s \div ABlock[l - 1]) \div AFactor
  BY <1>1, QuotientTwice
<1>3. QED BY <1>1, <1>2 DEF CellOf

\* The values of finitely many cells are finitely many.
LEMMA ImageFinite ==
  ASSUME NEW D, NEW f \in [D -> Int], NEW T, T \subseteq D, IsFiniteSet(T)
  PROVE  IsFiniteSet({f[x] : x \in T}) /\ {f[x] : x \in T} \subseteq Int
<1> DEFINE S == {f[x] : x \in T}
<1>1. [x \in T |-> f[x]] \in Surjection(T, S)
  BY DEF Surjection
<1>2. IsFiniteSet(S)
  <2> HIDE DEF S
  <2>1. QED BY <1>1, FS_Surjection
<1>3. QED BY <1>2

\* What a cell is made from has a minimum and a maximum.
LEMMA BelowIs ==
  ASSUME AnalogTypeOK, Order, InRange, job.at = "min"
  PROVE  LET S == Below(job.level, job.cell)
         IN  /\ Min(S) \in Int /\ Max(S) \in Int
             /\ \A y \in S : Min(S) <= y /\ y <= Max(S)
<1> DEFINE l == job.level
<1> DEFINE b == job.cell
<1> DEFINE S == Below(l, b)
<1>1. l \in ALevel /\ b \in ACells /\ b \in Nat /\ job.s \in Nat /\ job.e \in Nat
  BY JobFields, CellsExist
<1>2. job.s < job.e /\ job.e = wend /\ wend \in 0 .. ASize /\ b <= CellOf(l, job.e - 1)
  BY DEF Order, InRange, AnalogTypeOK
<1>3. CASE l = 0
  <2> DEFINE T == {t \in 0 .. wend - 1 : t \div AFactor = b}
  <2>1. S = {volt[s] : s \in T}
    BY <1>3 DEF Below
  <2>2. T \subseteq 0 .. ASize - 1 /\ IsFiniteSet(T)
    <3>1. IsFiniteSet(0 .. wend - 1) /\ T \subseteq 0 .. wend - 1
      BY <1>2, AnalogAssumption, FS_Interval
    <3>2. IsFiniteSet(T)
      BY <3>1, FS_Subset
    <3>3. QED BY <3>2, <1>2, AnalogAssumption
  <2>3. AFactor * b \in T
    <3>1. b <= (job.e - 1) \div AFactor
      BY <1>2, <1>3, Blocks DEF CellOf
    <3>2. AFactor * ((job.e - 1) \div AFactor) <= job.e - 1 /\ (job.e - 1) \div AFactor \in Nat
      BY <1>1, <1>2, AnalogAssumption, Quotient
    <3>3. AFactor * b <= AFactor * ((job.e - 1) \div AFactor)
      BY <3>1, <3>2, <1>1, AnalogAssumption, TimesGrows
    <3>4. AFactor * b \in Nat /\ AFactor * ((job.e - 1) \div AFactor) \in Nat
      BY <3>2, <1>1, AnalogAssumption
    <3>5. (AFactor * b) \div AFactor = b
      BY <3>4, <1>1, AnalogAssumption, QuotientIs
    <3>6. QED BY <3>2, <3>3, <3>4, <3>5, <1>1, <1>2
  <2> HIDE DEF T
  <2>4. IsFiniteSet(S) /\ S \subseteq Int /\ S # {}
    <3>1. volt \in [0 .. ASize - 1 -> Int]
      BY DEF AnalogTypeOK
    <3>2. IsFiniteSet({volt[s] : s \in T}) /\ {volt[s] : s \in T} \subseteq Int
      BY <3>1, <2>2, ImageFinite
    <3>3. QED BY <3>2, <2>1, <2>3
  <2> HIDE DEF S
  <2>5. QED BY <2>4, Extremes DEF S
<1>4. CASE l # 0
  <2> DEFINE T == {c \in ACells : c \div AFactor = b}
  <2>1. S = {mn[l - 1][c] : c \in T} \cup {mx[l - 1][c] : c \in T}
    BY <1>4 DEF Below
  <2>2. T \subseteq ACells /\ IsFiniteSet(T)
    <3>1. IsFiniteSet(ACells)
      BY CellsExist, FS_Interval DEF ACells
    <3>2. QED BY <3>1, FS_Subset
  <2>3. AFactor * b \in T
    <3>1. CellOf(l, job.e - 1) <= job.e - 1 /\ CellOf(l, job.e - 1) \in Nat
      BY <1>1, <1>2, Quotient, Blocks DEF CellOf
    <3>2. b <= ASize - 1 /\ ASize - 1 \in Nat
      BY <3>1, <1>1, <1>2, AnalogAssumption
    <3>3. AFactor * b <= AFactor * (ASize - 1)
      BY <3>2, <1>1, AnalogAssumption, TimesGrows
    <3>4. /\ AFactor * b \in Nat /\ AFactor * (ASize - 1) = AFactor * ASize - AFactor
          /\ AFactor * ASize \in Nat
      BY <1>1, AnalogAssumption
    <3>5. (AFactor * b) \div AFactor = b
      BY <3>4, <1>1, AnalogAssumption, QuotientIs
    <3>6. AFactor * b \in ACells
      BY <3>3, <3>4, AnalogAssumption DEF ACells
    <3>7. QED BY <3>5, <3>6
  <2>4. l - 1 \in ALevel /\ mn[l - 1] \in [ACells -> Int] /\ mx[l - 1] \in [ACells -> Int]
    BY <1>1, <1>4, Blocks DEF AnalogTypeOK
  <2> HIDE DEF T
  <2>5. /\ IsFiniteSet({mn[l - 1][c] : c \in T}) /\ {mn[l - 1][c] : c \in T} \subseteq Int
        /\ IsFiniteSet({mx[l - 1][c] : c \in T}) /\ {mx[l - 1][c] : c \in T} \subseteq Int
    BY <2>2, <2>4, ImageFinite
  <2>6. IsFiniteSet(S) /\ S \subseteq Int /\ S # {}
    <3> DEFINE L == {mn[l - 1][c] : c \in T}
    <3> DEFINE H == {mx[l - 1][c] : c \in T}
    <3>1. S = L \cup H /\ L \subseteq Int /\ H \subseteq Int /\ L # {}
      BY <2>1, <2>3, <2>5
    <3>2. IsFiniteSet(L) /\ IsFiniteSet(H)
      BY <2>5
    <3> HIDE DEF L, H, S
    <3>3. IsFiniteSet(L \cup H)
      BY <3>2, FS_Union
    <3>4. QED BY <3>1, <3>3
  <2> HIDE DEF S
  <2>7. QED BY <2>6, Extremes DEF S
<1>5. QED BY <1>3, <1>4

\* The loops of append(): the next cell of the level, the first of the next one,
\* or the end.
LEMMA NextIs ==
  ASSUME AnalogTypeOK, Order, InRange, job.at \in {"min", "max"}
  PROVE  LET l == job.level
             last == CellOf(l, job.e - 1)
         IN  \/ /\ job.cell < last
                /\ NextCell(job) = AtCell(job.s, job.e, l, job.cell + 1)
                /\ job.cell + 1 \in ACells
             \/ /\ job.cell = last /\ l + 1 \in ALevel
                /\ NextCell(job) = AtCell(job.s, job.e, l + 1, CellOf(l + 1, job.s))
                /\ CellOf(l + 1, job.s) \in ACells
             \/ /\ job.cell = last /\ l = ALevels - 1
                /\ NextCell(job) = NoJob
<1> DEFINE l == job.level
<1> DEFINE last == CellOf(l, job.e - 1)
<1>1. /\ l \in ALevel /\ job.cell \in ACells /\ job.s \in Nat /\ job.e \in Nat
      /\ job.s < job.e /\ job.e = wend /\ wend \in 0 .. ASize /\ job.cell <= last
  BY JobFields DEF Order, InRange, AnalogTypeOK
<1>2. job.s \in 0 .. ASize - 1 /\ job.e - 1 \in 0 .. ASize - 1
  BY <1>1, AnalogAssumption
<1>3. last \in ACells /\ last \in Nat /\ job.cell \in Nat /\ l \in Nat
  BY <1>1, <1>2, CellsExist
<1>4. CASE job.cell < last
  <2>1. job.cell + 1 \in ACells
    BY <1>4, <1>3, CellsExist DEF ACells
  <2>2. NextCell(job) = AtCell(job.s, job.e, l, job.cell + 1)
    BY <1>4 DEF NextCell, CellOf
  <2>3. QED BY <1>4, <2>1, <2>2
<1>5. CASE job.cell = last
  <2>1. ~(job.cell < (job.e - 1) \div ABlock[job.level])
    BY <1>5, <1>3 DEF CellOf
  <2>2. CASE l < ALevels - 1
    <3>1. l + 1 \in ALevel
      BY <2>2, <1>1, AnalogAssumption DEF ALevel
    <3>2. CellOf(l + 1, job.s) \in ACells
      BY <3>1, <1>2, CellsExist
    <3>3. NextCell(job) = AtCell(job.s, job.e, l + 1, CellOf(l + 1, job.s))
      BY <2>1, <2>2 DEF NextCell, CellOf
    <3>4. QED BY <1>5, <3>1, <3>2, <3>3
  <2>3. CASE ~(l < ALevels - 1)
    <3>1. l = ALevels - 1
      BY <2>3, <1>1, AnalogAssumption DEF ALevel
    <3>2. NextCell(job) = NoJob
      BY <2>1, <2>3 DEF NextCell
    <3>3. QED BY <1>5, <3>1, <3>2
  <2>4. QED BY <2>2, <2>3
<1>6. QED BY <1>1, <1>3, <1>4, <1>5

\* The part of a frame that fits, and what the samples are then.
LEMMA WriteIs ==
  ASSUME AnalogTypeOK, Order, WriteSamples
  PROVE  \/ /\ job' = NoJob /\ volt' = volt /\ wend' = wend
            /\ ASize <= job.s
         \/ \E e \in 1 .. ASize :
               /\ job.s < e /\ e <= job.e /\ (e < job.e => e = ASize)
               /\ wend' = e
               /\ job' = AtCell(job.s, e, 0, CellOf(0, job.s))
               /\ volt' \in [0 .. ASize - 1 -> Int]
               /\ \A t \in 0 .. ASize - 1 : t < job.s => volt'[t] = volt[t]
<1> DEFINE e == IF job.e > ASize THEN ASize ELSE job.e
<1>1. /\ job.s \in Nat /\ job.e \in Nat /\ ASize \in Nat \ {0}
      /\ acount = wend /\ wend <= job.s /\ wend \in Nat /\ job.e = sent
  BY JobFields, AnalogAssumption DEF Order, WriteSamples, AnalogTypeOK
<1>2. e \in Nat /\ e <= ASize /\ e <= job.e /\ (e < job.e => e = ASize)
  BY <1>1
<1>3. CASE e <= job.s
  <2>1. job' = NoJob /\ volt' = volt /\ wend' = wend
    BY <1>3 DEF WriteSamples
  <2>2. job.s < job.e
    BY DEF WriteSamples, Order
  <2>3. ASize <= job.s
    BY <2>2, <1>1, <1>3
  <2>4. QED BY <2>1, <2>3
<1>4. CASE ~(e <= job.s)
  <2>1. /\ \E v \in [job.s .. e - 1 -> Volts] :
              volt' = [t \in DOMAIN volt |-> IF t \in job.s .. e - 1 THEN v[t] ELSE volt[t]]
        /\ wend' = IF e > wend THEN e ELSE wend
        /\ job' = AtCell(job.s, e, 0, job.s \div AFactor)
    BY <1>4 DEF WriteSamples
  <2>2. job' = AtCell(job.s, e, 0, CellOf(0, job.s))
    BY <2>1, Blocks DEF CellOf
  <2>3. wend' = e
    <3>1. wend' = IF e > wend THEN e ELSE wend
      BY <2>1
    <3> HIDE DEF e
    <3>2. e > wend
      BY <1>1, <1>2, <1>4
    <3>3. QED BY <3>1, <3>2
  <2>4. PICK v \in [job.s .. e - 1 -> Volts] :
              volt' = [t \in DOMAIN volt |-> IF t \in job.s .. e - 1 THEN v[t] ELSE volt[t]]
    BY <2>1
  <2>5. DOMAIN volt = 0 .. ASize - 1 /\ \A t \in 0 .. ASize - 1 : volt[t] \in Int
    BY DEF AnalogTypeOK
  <2>6. \A t \in job.s .. e - 1 : v[t] \in Int
    BY AnalogAssumption
  <2>7. volt' \in [0 .. ASize - 1 -> Int]
    BY <2>4, <2>5, <2>6
  <2>8. \A t \in 0 .. ASize - 1 : t < job.s => volt'[t] = volt[t]
    BY <2>4, <2>5, <1>1
  <2>9. e \in 1 .. ASize /\ job.s < e
    BY <1>1, <1>2, <1>4
  <2> HIDE DEF e
  <2>10. QED
    BY <1>2, <2>2, <2>3, <2>7, <2>8, <2>9
<1>5. QED BY <1>3, <1>4

\* An empty store.
LEMMA InitTypes == AnalogInit => AnalogTypeOK
BY CellsExist, AnalogAssumption DEF AnalogInit, AnalogTypeOK, Zero

\* Every step keeps the types.
LEMMA TypesStep ==
  ASSUME AnalogTypeOK, Order, InRange, [AnalogNext]_analogVars
  PROVE  AnalogTypeOK'
<1> USE DEF AnalogTypeOK
<1>1. CASE AppendFrame
  <2>1. sent' \in Nat /\ sent \in Nat
    BY <1>1 DEF AppendFrame
  <2>2. job' \in {NoJob} \cup Frames
    BY <1>1, <2>1 DEF AppendFrame, Frames
  <2>3. QED BY <1>1, <2>1, <2>2 DEF AppendFrame
<1>2. CASE WriteSamples
  <2>1. UNCHANGED << acount, mn, mx, alloc, sent, holes, rd >>
    BY <1>2 DEF WriteSamples
  <2>2. CASE job' = NoJob /\ volt' = volt /\ wend' = wend
    BY <2>1, <2>2
  <2>3. ASSUME NEW e \in 1 .. ASize, job.s < e, wend' = e,
               job' = AtCell(job.s, e, 0, CellOf(0, job.s)),
               volt' \in [0 .. ASize - 1 -> Int]
        PROVE  AnalogTypeOK'
    <3>1. job.s \in Nat /\ e \in Nat
      BY <1>2, JobFields, AnalogAssumption DEF WriteSamples
    <3>2. 0 \in ALevel /\ CellOf(0, job.s) \in ACells
      BY <3>1, <2>3, CellsExist, AnalogAssumption
    <3>3. job' \in Cells
      BY <2>3, <3>1, <3>2 DEF Cells, AtCell
    <3>4. wend' \in 0 .. ASize
      BY <2>3, AnalogAssumption
    <3>5. QED BY <2>1, <2>3, <3>3, <3>4
  <2>4. QED BY <2>2, <2>3, <1>2, WriteIs
<1>3. CASE StoreMin
  <2> DEFINE S == Below(job.level, job.cell)
  <2>1. Min(S) \in Int /\ Max(S) \in Int
    BY <1>3, BelowIs DEF StoreMin
  <2>2. /\ mn' = [mn EXCEPT ![job.level][job.cell] = Min(S)]
        /\ job' = [at |-> "max", s |-> job.s, e |-> job.e, level |-> job.level,
                   cell |-> job.cell, max |-> Max(S)]
        /\ alloc' = alloc \cup {job.level}
        /\ UNCHANGED << volt, acount, wend, mx, sent, holes, rd >>
    BY <1>3 DEF StoreMin
  <2>3. job.level \in ALevel /\ job.cell \in ACells /\ job.s \in Nat /\ job.e \in Nat
    BY <1>3, JobFields DEF StoreMin
  <2> HIDE DEF S
  <2>4. mn' \in [ALevel -> [ACells -> Int]]
    BY <2>1, <2>2, <2>3
  <2>5. job' \in Cells
    BY <2>1, <2>2, <2>3 DEF Cells
  <2>6. QED BY <2>2, <2>3, <2>4, <2>5
<1>4. CASE StoreMax
  <2>1. /\ mx' = [mx EXCEPT ![job.level][job.cell] = job.max]
        /\ job' = NextCell(job)
        /\ UNCHANGED << volt, acount, wend, mn, alloc, sent, holes, rd >>
    BY <1>4 DEF StoreMax
  <2>2. /\ job.level \in ALevel /\ job.cell \in ACells /\ job.s \in Nat /\ job.e \in Nat
        /\ job.max \in Int
    BY <1>4, JobFields DEF StoreMax
  <2>3. mx' \in [ALevel -> [ACells -> Int]]
    BY <2>1, <2>2
  <2>4. job' \in {NoJob} \cup Cells
    BY <1>4, <2>1, <2>2, NextIs DEF StoreMax, AtCell, Cells
  <2>5. QED BY <2>1, <2>3, <2>4
<1>5. CASE PublishCount
  BY <1>5 DEF PublishCount
<1>6. CASE LoadMin
  <2>1. PICK l \in alloc, s \in 0 .. acount - 1 :
          rd' = [level |-> l, at |-> s, count |-> acount,
                 min |-> mn[l][s \div ABlock[l]], loaded |-> "min"]
    BY <1>6 DEF LoadMin
  <2>2. l \in ALevel /\ s \in 0 .. ASize - 1 /\ acount \in Nat
    BY AnalogAssumption
  <2>3. mn[l][s \div ABlock[l]] \in Int
    BY <2>2, CellsExist DEF CellOf
  <2>4. rd' \in Reads
    BY <2>1, <2>2, <2>3 DEF Reads
  <2>5. QED BY <1>6, <2>4 DEF LoadMin
<1>7. CASE LoadMax
  <2>1. rd' = [level |-> rd.level, at |-> rd.at, count |-> rd.count, min |-> rd.min,
               loaded |-> "both", max |-> mx[rd.level][rd.at \div ABlock[rd.level]]]
    BY <1>7 DEF LoadMax
  <2>2. rd.level \in ALevel /\ rd.at \in 0 .. ASize - 1 /\ rd.count \in Nat /\ rd.min \in Int
    BY <1>7, ReadFields DEF LoadMax
  <2>3. mx[rd.level][rd.at \div ABlock[rd.level]] \in Int
    BY <2>2, CellsExist DEF CellOf
  <2>4. rd' \in Reads
    BY <2>1, <2>2, <2>3 DEF Reads
  <2>5. QED BY <1>7, <2>4 DEF LoadMax
<1>8. CASE Drawn
  BY <1>8 DEF Drawn
<1>9. CASE UNCHANGED analogVars
  BY <1>9 DEF analogVars
<1>10. QED
  BY <1>1, <1>2, <1>3, <1>4, <1>5, <1>6, <1>7, <1>8, <1>9 DEF AnalogNext

-----------------------------------------------------------------------------
(* The order of samples, and where append() is.                            *)

\* Every step keeps the order of writing and publishing.
LEMMA OrderStep ==
  ASSUME AnalogTypeOK, Order, InRange, [AnalogNext]_analogVars
  PROVE  Order'
<1>1. /\ acount \in Nat /\ wend \in Nat /\ sent \in Nat /\ acount <= wend /\ wend <= sent
      /\ ASize \in Nat \ {0}
  BY AnalogAssumption DEF AnalogTypeOK, Order
<1>2. CASE AppendFrame
  <2>1. /\ job = NoJob /\ acount = wend /\ sent < sent' /\ sent' \in Nat
        /\ UNCHANGED << acount, wend >>
    BY <1>2, <1>1 DEF AppendFrame
  <2>2. \A s \in wend .. sent - 1 : s \in holes \/ s >= ASize
    BY <2>1 DEF Order, Writing, NoJob
  <2>3. CASE job' = [at |-> "write", s |-> sent, e |-> sent'] /\ holes' = holes
    <3>1. job'.at = "write" /\ job'.s = sent /\ job'.e = sent'
      BY <2>3
    <3>2. ASSUME NEW s \in wend .. sent' - 1
          PROVE  s \in holes' \/ s >= ASize \/ Writing(s)'
      <4>1. s \in Int /\ wend <= s /\ (s < sent \/ s >= sent)
        BY <1>1, <2>1
      <4>2. CASE s < sent
        BY <4>1, <4>2, <1>1, <2>2, <2>3
      <4>3. CASE s >= sent
        BY <4>3, <3>1 DEF Writing
      <4>4. QED BY <4>1, <4>2, <4>3
    <3>3. /\ acount' <= wend' /\ wend' <= sent'
          /\ acount' = wend' /\ wend' <= sent /\ sent < sent'
      BY <1>1, <2>1
    <3>4. \A s \in wend' .. sent' - 1 : s \in holes' \/ s >= ASize \/ Writing(s)'
      BY <2>1, <3>2
    <3>5. QED BY <3>1, <3>3, <3>4 DEF Order
  <2>4. CASE job' = NoJob /\ holes' = holes \cup (sent .. sent' - 1)
    <3>1. ASSUME NEW s \in wend .. sent' - 1 PROVE s \in holes' \/ s >= ASize
      <4>1. s \in Int /\ wend <= s /\ s <= sent' - 1 /\ (s < sent \/ s >= sent)
        <5>1. PICK m \in Nat : m = sent'
          BY <2>1
        <5>2. s \in wend .. m - 1
          BY <5>1
        <5>3. s \in Int /\ wend <= s /\ s <= m - 1 /\ (s < sent \/ s >= sent)
          BY <5>2, <1>1
        <5>4. QED BY <5>1, <5>3
      <4>2. CASE s < sent
        <5>1. s \in wend .. sent - 1
          BY <4>1, <4>2, <1>1
        <5>2. s \in holes \/ s >= ASize
          BY <5>1, <2>2
        <5>3. QED BY <5>2, <2>4
      <4>3. CASE s >= sent
        <5>1. s \in sent .. sent' - 1
          <6>1. PICK m \in Nat : m = sent'
            BY <2>1
          <6>2. s \in Int /\ s <= m - 1 /\ s >= sent
            BY <4>1, <4>3, <6>1
          <6>3. s \in sent .. m - 1
            BY <6>2, <1>1
          <6>4. QED BY <6>1, <6>3
        <5>2. QED BY <5>1, <2>4
      <4>4. QED BY <4>1, <4>2, <4>3
    <3>2. acount' <= wend' /\ wend' <= sent' /\ job'.at = "none"
      BY <1>1, <2>1, <2>4 DEF NoJob
    <3>3. \A s \in wend' .. sent' - 1 : s \in holes' \/ s >= ASize
      BY <2>1, <3>1
    <3>4. QED BY <3>2, <3>3 DEF Order
  <2>5. QED BY <1>2, <2>3, <2>4 DEF AppendFrame
<1>3. CASE WriteSamples
  <2>1. UNCHANGED << acount, sent, holes >> /\ job.at = "write"
    BY <1>3 DEF WriteSamples
  <2>2. /\ job.s \in Nat /\ job.e \in Nat /\ acount = wend /\ wend <= job.s
        /\ job.s < job.e /\ job.e = sent
    BY <2>1, JobFields DEF Order
  <2>3. \A s \in wend .. sent - 1 : s \in holes \/ s >= ASize \/ s >= job.s
    BY DEF Order, Writing
  <2>4. CASE job' = NoJob /\ wend' = wend /\ ASize <= job.s
    <3>1. \A s \in wend .. sent - 1 : s \in holes \/ s >= ASize
      BY <1>1, <2>2, <2>3, <2>4
    <3>2. QED BY <1>1, <2>1, <2>2, <2>4, <3>1 DEF Order, NoJob
  <2>5. ASSUME NEW e \in 1 .. ASize, job.s < e, e <= job.e, e < job.e => e = ASize,
               wend' = e, job' = AtCell(job.s, e, 0, CellOf(0, job.s))
        PROVE  Order'
    <3>1. job'.at = "min" /\ job'.s = job.s /\ job'.e = e
      BY <2>5 DEF AtCell
    <3>2. \A s \in e .. sent - 1 : s \in holes \/ s >= ASize
      BY <1>1, <2>2, <2>5
    <3>3. \A s \in acount .. job.s - 1 : s \in holes
      BY <1>1, <2>2, <2>3, <2>5
    <3>4. QED BY <1>1, <2>1, <2>2, <2>5, <3>1, <3>2, <3>3 DEF Order
  <2>6. QED BY <1>3, <2>4, <2>5, WriteIs
<1>4. CASE StoreMin
  <2>1. /\ job'.at = "max" /\ job'.s = job.s /\ job'.e = job.e /\ job.at = "min"
        /\ UNCHANGED << acount, wend, sent, holes >>
    BY <1>4 DEF StoreMin
  <2>2. QED BY <2>1 DEF Order, Writing
<1>5. CASE StoreMax
  <2>1. job.at = "max" /\ UNCHANGED << acount, wend, sent, holes >> /\ job' = NextCell(job)
    BY <1>5 DEF StoreMax
  <2>2. job' = NoJob \/ (job'.at = "min" /\ job'.s = job.s /\ job'.e = job.e)
    BY <2>1, NextIs DEF AtCell
  <2>3. QED BY <2>1, <2>2 DEF Order, Writing, NoJob
<1>6. CASE PublishCount
  BY <1>1, <1>6 DEF PublishCount, Order, Writing, NoJob
<1>7. CASE LoadMin \/ LoadMax \/ Drawn \/ UNCHANGED analogVars
  BY <1>7 DEF LoadMin, LoadMax, Drawn, analogVars, Order, Writing
<1>8. QED
  BY <1>2, <1>3, <1>4, <1>5, <1>6, <1>7 DEF AnalogNext

\* Every step keeps append() at a cell of its samples.
LEMMA RangeStep ==
  ASSUME AnalogTypeOK, Order, InRange, [AnalogNext]_analogVars
  PROVE  InRange'
<1>1. CASE AppendFrame
  <2>1. job' = NoJob \/ job'.at = "write"
    BY <1>1 DEF AppendFrame
  <2>2. QED BY <2>1 DEF InRange, NoJob
<1>2. CASE WriteSamples
  <2>1. CASE job' = NoJob
    BY <2>1 DEF InRange, NoJob
  <2>2. ASSUME NEW e \in 1 .. ASize, job.s < e,
               job' = AtCell(job.s, e, 0, CellOf(0, job.s))
        PROVE  InRange'
    <3>1. job.s \in Nat /\ e \in Nat /\ e - 1 \in Nat /\ job.s <= e - 1
      BY <1>2, <2>2, JobFields, AnalogAssumption DEF WriteSamples
    <3>2. CellOf(0, job.s) \in Nat /\ CellOf(0, job.s) <= CellOf(0, e - 1)
      BY <3>1, CellsExist, CellsGrow
    <3>3. /\ job'.at = "min" /\ job'.s = job.s /\ job'.e = e /\ job'.level = 0
          /\ job'.cell = CellOf(0, job.s)
      BY <2>2 DEF AtCell
    <3>4. QED BY <3>2, <3>3 DEF InRange, CellOf
  <2>3. QED BY <1>2, <2>1, <2>2, WriteIs
<1>3. CASE StoreMin
  <2>1. /\ job'.at = "max" /\ job'.s = job.s /\ job'.e = job.e /\ job.at = "min"
        /\ job'.level = job.level /\ job'.cell = job.cell
    BY <1>3 DEF StoreMin
  <2>2. QED BY <2>1 DEF InRange, CellOf
<1>4. CASE StoreMax
  <2> DEFINE l == job.level
  <2>1. job.at = "max" /\ job' = NextCell(job)
    BY <1>4 DEF StoreMax
  <2>2. /\ job.s \in Nat /\ job.e \in Nat /\ job.s < job.e /\ l \in ALevel
        /\ job.cell \in Nat
    BY <2>1, JobFields, CellsExist DEF Order
  <2>3. /\ CellOf(l, job.s) <= job.cell /\ job.cell <= CellOf(l, job.e - 1)
        /\ CellOf(l, job.s) \in Nat /\ CellOf(l, job.e - 1) \in Nat
    BY <2>1, <2>2, CellsGrow DEF InRange
  <2>4. CASE /\ job.cell < CellOf(l, job.e - 1)
             /\ NextCell(job) = AtCell(job.s, job.e, l, job.cell + 1)
    <3>1. /\ job'.at = "min" /\ job'.s = job.s /\ job'.e = job.e /\ job'.level = l
          /\ job'.cell = job.cell + 1
      BY <2>1, <2>4 DEF AtCell
    <3>2. CellOf(l, job.s) <= job.cell + 1 /\ job.cell + 1 <= CellOf(l, job.e - 1)
      BY <2>2, <2>3, <2>4
    <3>3. QED BY <3>1, <3>2 DEF InRange, CellOf
  <2>5. CASE /\ l + 1 \in ALevel
             /\ NextCell(job) = AtCell(job.s, job.e, l + 1, CellOf(l + 1, job.s))
    <3>1. /\ job'.at = "min" /\ job'.s = job.s /\ job'.e = job.e /\ job'.level = l + 1
          /\ job'.cell = CellOf(l + 1, job.s)
      BY <2>1, <2>5 DEF AtCell
    <3>2. /\ CellOf(l + 1, job.s) \in Nat
          /\ CellOf(l + 1, job.s) <= CellOf(l + 1, job.e - 1)
      BY <2>2, <2>5, CellsGrow
    <3>3. QED BY <3>1, <3>2 DEF InRange, CellOf
  <2>6. CASE NextCell(job) = NoJob
    BY <2>1, <2>6 DEF InRange, NoJob
  <2>7. QED BY <2>1, <2>4, <2>5, <2>6, NextIs
<1>5. CASE PublishCount \/ LoadMin \/ LoadMax \/ Drawn \/ UNCHANGED analogVars
  BY <1>5 DEF PublishCount, LoadMin, LoadMax, Drawn, analogVars, InRange, CellOf
<1>6. QED
  BY <1>1, <1>2, <1>3, <1>4, <1>5 DEF AnalogNext

-----------------------------------------------------------------------------
(* The cells span the samples.                                             *)

\* A sample that was written, and its cells, exist.
LEMMA SampleFacts ==
  ASSUME AnalogTypeOK, NEW l \in ALevel, NEW s \in 0 .. wend - 1
  PROVE  /\ s \in Nat /\ s \in 0 .. ASize - 1 /\ s < wend
         /\ CellOf(l, s) \in ACells /\ CellOf(l, s) \in Nat
         /\ volt[s] \in Int
         /\ mn[l][CellOf(l, s)] \in Int /\ mx[l][CellOf(l, s)] \in Int
<1>1. wend \in 0 .. ASize /\ ASize \in Nat
  BY AnalogAssumption DEF AnalogTypeOK
<1>2. s \in Nat /\ s \in 0 .. ASize - 1 /\ s < wend
  BY <1>1
<1>3. CellOf(l, s) \in ACells /\ CellOf(l, s) \in Nat
  BY <1>2, CellsExist
<1>4. QED BY <1>2, <1>3 DEF AnalogTypeOK

\* The minimum and the maximum append() takes from below a cell span the
\* samples of the cell.
LEMMA BelowSpans ==
  ASSUME AnalogTypeOK, Order, InRange, Cover, job.at = "min",
         NEW s \in 0 .. wend - 1, s \notin holes, CellOf(job.level, s) = job.cell
  PROVE  LET S == Below(job.level, job.cell)
         IN  Min(S) <= volt[s] /\ volt[s] <= Max(S)
<1> DEFINE l == job.level
<1> DEFINE S == Below(l, job.cell)
<1>1. /\ Min(S) \in Int /\ Max(S) \in Int
      /\ \A y \in S : Min(S) <= y /\ y <= Max(S)
  BY BelowIs
<1>2. l \in ALevel /\ s \in Nat /\ s \in 0 .. ASize - 1 /\ volt[s] \in Int
  BY JobFields, SampleFacts
<1>3. CASE l = 0
  <2>1. s \div AFactor = job.cell
    BY <1>3, Blocks DEF CellOf
  <2>2. volt[s] \in S
    BY <1>3, <2>1 DEF Below
  <2> HIDE DEF S
  <2>3. QED BY <1>1, <2>2 DEF S
<1>4. CASE l # 0
  <2> DEFINE c == CellOf(l - 1, s)
  <2>1. l - 1 \in ALevel /\ job.cell = c \div AFactor /\ l - 1 < l
    BY <1>2, <1>4, Parent, CellsExist
  <2>2. c \in ACells /\ mn[l - 1][c] \in Int /\ mx[l - 1][c] \in Int
    BY <2>1, SampleFacts
  <2>3. Passed(l - 1, c)
    BY <2>1 DEF Passed
  <2>4. mn[l - 1][c] <= volt[s] /\ volt[s] <= mx[l - 1][c]
    BY <2>1, <2>3 DEF Cover, Spanned
  <2> HIDE DEF c
  <2>5. mn[l - 1][c] \in S /\ mx[l - 1][c] \in S
    BY <1>4, <2>1, <2>2 DEF Below
  <2> HIDE DEF S
  <2>6. Min(S) <= mn[l - 1][c] /\ mx[l - 1][c] <= Max(S)
    BY <1>1, <2>5
  <2>7. Min(S) <= volt[s] /\ volt[s] <= Max(S)
    BY <1>1, <1>2, <2>2, <2>4, <2>6
  <2>8. QED BY <2>7 DEF S
<1>5. QED BY <1>3, <1>4

\* Every step keeps the cells spanning the samples.
LEMMA CoverStep ==
  ASSUME AnalogTypeOK, Order, InRange, Cover, [AnalogNext]_analogVars
  PROVE  Cover'
<1>1. CASE AppendFrame
  <2>1. /\ job = NoJob /\ acount = wend /\ holes \subseteq holes'
        /\ job'.at \in {"none", "write"} /\ UNCHANGED << volt, acount, wend, mn, mx >>
    BY <1>1 DEF AppendFrame, NoJob
  <2>2. ASSUME NEW l \in ALevel, NEW s \in 0 .. wend - 1, s \notin holes'
        PROVE  Spanned(l, s)'
    <3>1. Passed(l, CellOf(l, s))
      BY <2>1 DEF Passed, NoJob
    <3>2. Spanned(l, s)
      BY <2>1, <2>2, <3>1 DEF Cover
    <3>3. QED BY <2>1, <3>2 DEF Spanned, CellOf
  <2>3. QED BY <2>1, <2>2 DEF Cover
<1>2. CASE WriteSamples
  <2>1. /\ UNCHANGED << acount, mn, mx, holes >> /\ job.at = "write"
        /\ acount = wend /\ wend <= job.s /\ job.e = sent
        /\ job.s \in Nat /\ job.e \in Nat /\ wend \in Nat
    BY <1>2, JobFields DEF WriteSamples, Order, AnalogTypeOK
  <2>2. ASSUME NEW l \in ALevel, NEW s \in 0 .. wend - 1, s \notin holes
        PROVE  Spanned(l, s) /\ s \in 0 .. ASize - 1 /\ s < job.s
    <3>1. s < acount /\ s \in 0 .. ASize - 1 /\ s < job.s
      BY <2>1, SampleFacts
    <3>2. QED BY <2>2, <3>1 DEF Cover
  <2>3. CASE job' = NoJob /\ volt' = volt /\ wend' = wend
    <3>1. \A l \in ALevel, s \in 0 .. wend - 1 : s \notin holes => Spanned(l, s)'
      BY <2>1, <2>2, <2>3 DEF Spanned, CellOf
    <3>2. QED BY <2>1, <2>3, <3>1 DEF Cover, NoJob
  <2>4. ASSUME NEW e \in 1 .. ASize, job.s < e, e <= job.e,
               wend' = e, job' = AtCell(job.s, e, 0, CellOf(0, job.s)),
               \A t \in 0 .. ASize - 1 : t < job.s => volt'[t] = volt[t]
        PROVE  Cover'
    <3>1. job'.at = "min" /\ job'.level = 0 /\ job'.cell = CellOf(0, job.s)
      BY <2>4 DEF AtCell
    <3>2. ASSUME NEW l \in ALevel, NEW s \in 0 .. e - 1, s \notin holes,
                 s < acount \/ Passed(l, CellOf(l, s))'
          PROVE  Spanned(l, s)'
      <4>1. s \in Nat /\ e \in Nat /\ ASize \in Nat /\ s < ASize
        BY AnalogAssumption
      <4>2. CASE s < acount
        <5>1. s \in 0 .. wend - 1
          BY <4>1, <4>2, <2>1
        <5>2. Spanned(l, s) /\ volt'[s] = volt[s]
          BY <5>1, <3>2, <2>2, <2>4
        <5>3. QED BY <5>2, <2>1 DEF Spanned, CellOf
      <4>3. CASE ~(s < acount)
        <5>1. s \in wend .. sent - 1
          BY <4>1, <4>3, <2>1, <2>4
        <5>2. s >= job.s
          BY <5>1, <3>2, <4>1 DEF Order, Writing
        <5>3. /\ CellOf(0, job.s) <= CellOf(0, s) /\ CellOf(0, job.s) \in Nat
              /\ CellOf(0, s) \in Nat
          BY <5>2, <4>1, <2>1, CellsGrow, CellsExist
        <5>4. Passed(l, CellOf(l, s))'
          BY <4>3, <3>2
        <5>5. l = 0 /\ CellOf(l, s) < CellOf(0, job.s)
          BY <5>4, <3>1, CellsExist DEF Passed, CellOf
        <5>6. QED BY <5>3, <5>5
      <4>4. QED BY <4>2, <4>3
    <3>3. QED BY <2>1, <2>4, <3>1, <3>2 DEF Cover, CellOf
  <2>5. QED BY <1>2, <2>3, <2>4, WriteIs
<1>3. CASE StoreMin
  <2> DEFINE k == job.level
  <2> DEFINE S == Below(k, job.cell)
  <2>1. /\ job.at = "min" /\ mn' = [mn EXCEPT ![k][job.cell] = Min(S)]
        /\ job'.at = "max" /\ job'.level = k /\ job'.cell = job.cell /\ job'.max = Max(S)
        /\ UNCHANGED << volt, acount, wend, mx, holes >>
    BY <1>3 DEF StoreMin
  <2>2. k \in ALevel /\ job.cell \in ACells
    BY <2>1, JobFields
  <2>3. Min(S) \in Int /\ Max(S) \in Int
    BY <2>1, BelowIs
  <2>4. ASSUME NEW l \in ALevel, NEW s \in 0 .. wend - 1, s \notin holes
        PROVE  /\ s < acount \/ Passed(l, CellOf(l, s))' => Spanned(l, s)'
               /\ l = k /\ CellOf(l, s) = job.cell => Halfway(l, s)'
    <3>1. CASE l = k /\ CellOf(l, s) = job.cell
      <4>1. Min(S) <= volt[s] /\ volt[s] <= Max(S)
        BY <2>1, <2>4, <3>1, BelowSpans
      <4> HIDE DEF S
      <4>2. mn'[l][CellOf(l, s)] = Min(S)
        BY <2>1, <2>2, <3>1 DEF AnalogTypeOK
      <4>3. Halfway(l, s)'
        BY <4>1, <4>2, <2>1 DEF Halfway, CellOf
      <4>4. ~ Passed(l, CellOf(l, s))'
        <5>1. l \in Nat /\ CellOf(l, s) \in Nat
          BY CellsExist, SampleFacts
        <5>2. QED BY <5>1, <2>1, <3>1 DEF Passed, CellOf
      <4>5. s < acount => Spanned(l, s)
        BY <2>4 DEF Cover
      <4>6. s < acount => Spanned(l, s)'
        BY <4>1, <4>2, <4>5, <2>1 DEF Spanned, CellOf
      <4>7. QED BY <4>3, <4>4, <4>6
    <3>2. CASE ~(l = k /\ CellOf(l, s) = job.cell)
      <4> HIDE DEF S
      <4>1. mn'[l][CellOf(l, s)] = mn[l][CellOf(l, s)]
        BY <2>1, <2>2, <3>2, SampleFacts DEF AnalogTypeOK
      <4>2. Passed(l, CellOf(l, s))' => Passed(l, CellOf(l, s))
        BY <2>1 DEF Passed, CellOf
      <4>3. Spanned(l, s) => Spanned(l, s)'
        BY <4>1, <2>1 DEF Spanned, CellOf
      <4>4. QED BY <3>2, <4>2, <4>3, <2>4 DEF Cover
    <3>3. QED BY <3>1, <3>2
  <2> HIDE DEF S
  <2>5. QED BY <2>1, <2>4 DEF Cover, CellOf
<1>4. CASE StoreMax
  <2> DEFINE k == job.level
  <2>1. /\ job.at = "max" /\ mx' = [mx EXCEPT ![k][job.cell] = job.max]
        /\ job' = NextCell(job)
        /\ UNCHANGED << volt, acount, wend, mn, holes >>
    BY <1>4 DEF StoreMax
  <2>2. /\ k \in ALevel /\ k \in Nat /\ job.cell \in ACells /\ job.cell \in Nat
        /\ job.s \in Nat /\ job.e \in Nat /\ job.s < job.e /\ job.e = wend
        /\ acount \in Nat
    <3>1. acount \in Nat
      BY DEF AnalogTypeOK
    <3>2. job.s < job.e /\ job.e = wend
      BY <2>1 DEF Order
    <3>3. QED BY <2>1, <3>1, <3>2, JobFields, CellsExist
  <2>3. job'.at # "max"
    BY <2>1, NextIs DEF AtCell, NoJob
  <2>4. ASSUME NEW l \in ALevel, NEW s \in 0 .. wend - 1, s \notin holes,
               s < acount \/ Passed(l, CellOf(l, s))'
        PROVE  Spanned(l, s)'
    <3> DEFINE c == CellOf(l, s)
    <3>1. l \in Nat /\ c \in Nat /\ c \in ACells /\ s \in Nat
      BY CellsExist, SampleFacts
    <3>2. CASE l = k /\ c = job.cell
      <4>1. Halfway(l, s)
        BY <2>1, <2>4, <3>2 DEF Cover
      <4>2. mx'[l][c] = job.max
        BY <2>1, <2>2, <3>2 DEF AnalogTypeOK
      <4>3. QED BY <4>1, <4>2, <2>1 DEF Halfway, Spanned, CellOf
    <3>3. CASE ~(l = k /\ c = job.cell)
      <4>1. mx'[l][c] = mx[l][c]
        BY <2>1, <2>2, <3>1, <3>3 DEF AnalogTypeOK
      <4>2. Spanned(l, s) => Spanned(l, s)'
        BY <4>1, <2>1 DEF Spanned, CellOf
      <4>3. CASE s < acount
        BY <4>2, <4>3, <2>4 DEF Cover
      <4>4. CASE ~(s < acount)
        <5>1. s >= job.s /\ s <= job.e - 1 /\ job.e - 1 \in Nat
          <6>1. \A t \in acount .. job.s - 1 : t \in holes
            BY <2>1 DEF Order
          <6>2. ~(s \in acount .. job.s - 1)
            BY <6>1, <2>4
          <6>3. QED BY <6>2, <4>4, <3>1, <2>2
        <5>2. \A m \in ALevel : /\ CellOf(m, job.s) <= CellOf(m, s)
                                /\ CellOf(m, s) <= CellOf(m, job.e - 1)
                                /\ CellOf(m, job.s) \in Nat /\ CellOf(m, s) \in Nat
                                /\ CellOf(m, job.e - 1) \in Nat
          BY <5>1, <3>1, <2>2, CellsGrow
        <5>3. Passed(l, c)'
          BY <2>4, <4>4
        <5>4. l < k \/ (l = k /\ c < job.cell)
          <6>1. CASE job'.at = "min" /\ job'.level = k /\ job'.cell = job.cell + 1
            <7>1. l < k \/ (l = k /\ c < job.cell + 1)
              BY <5>3, <6>1 DEF Passed, CellOf
            <7>2. QED BY <7>1, <3>1, <3>3, <2>2
          <6>2. CASE /\ job'.at = "min" /\ job'.level = k + 1 /\ k + 1 \in ALevel
                     /\ job'.cell = CellOf(k + 1, job.s) /\ job.cell = CellOf(k, job.e - 1)
            <7>1. l < k + 1 \/ (l = k + 1 /\ c < CellOf(k + 1, job.s))
              BY <5>3, <6>2 DEF Passed, CellOf
            <7>2. CASE l = k
              <8>1. c <= job.cell
                BY <7>2, <6>2, <5>2
              <8>2. QED BY <8>1, <7>2, <3>1, <3>3, <2>2
            <7>3. CASE l = k + 1
              BY <7>1, <7>3, <6>2, <5>2, <3>1, <2>2
            <7>4. QED BY <7>1, <7>2, <7>3, <3>1, <2>2
          <6>3. CASE job.cell = CellOf(k, job.e - 1) /\ k = ALevels - 1
            <7>1. l <= k
              BY <6>3, AnalogAssumption DEF ALevel
            <7>2. CASE l = k
              <8>1. c <= job.cell
                BY <7>2, <6>3, <5>2
              <8>2. QED BY <8>1, <7>2, <3>1, <3>3, <2>2
            <7>3. QED BY <7>1, <7>2, <3>1, <2>2
          <6>4. QED BY <6>1, <6>2, <6>3, <2>1, NextIs DEF AtCell
        <5>5. Passed(l, c)
          BY <5>4, <2>1 DEF Passed
        <5>6. QED BY <5>5, <4>2, <2>4 DEF Cover
      <4>5. QED BY <4>3, <4>4
    <3>4. QED BY <3>2, <3>3
  <2>5. QED BY <2>1, <2>3, <2>4 DEF Cover
<1>5. CASE PublishCount
  <2>1. job = NoJob /\ UNCHANGED << volt, wend, mn, mx, job, holes >>
    BY <1>5 DEF PublishCount
  <2>2. \A l \in ALevel, s \in 0 .. wend - 1 : s \notin holes => Spanned(l, s)
    BY <2>1 DEF Cover, Passed, NoJob
  <2>3. \A l \in ALevel, s \in 0 .. wend - 1 : s \notin holes => Spanned(l, s)'
    BY <2>1, <2>2 DEF Spanned, CellOf
  <2>4. QED BY <2>1, <2>3 DEF Cover, NoJob
<1>6. CASE LoadMin \/ LoadMax \/ Drawn \/ UNCHANGED analogVars
  <2>1. UNCHANGED << volt, acount, wend, mn, mx, job, holes >>
    BY <1>6 DEF LoadMin, LoadMax, Drawn, analogVars
  <2>2. QED BY <2>1 DEF Cover, Spanned, Halfway, Passed, CellOf
<1>7. QED
  BY <1>1, <1>2, <1>3, <1>4, <1>5, <1>6 DEF AnalogNext

\* Every step keeps what is loaded spanning what had been published.
LEMMA DrawingStep ==
  ASSUME AnalogTypeOK, Order, Cover, Drawing, [AnalogNext]_analogVars
  PROVE  Drawing'
<1>1. CASE rd' = rd
  <2>1. SUFFICES ASSUME rd # NoRead PROVE Drawing'
    BY <1>1 DEF Drawing
  <2>2. /\ rd.count \in Nat /\ rd.level \in ALevel /\ acount \in Nat /\ wend \in Nat
        /\ rd.count <= acount /\ acount <= wend
    BY <2>1, ReadFields DEF Drawing, Order, AnalogTypeOK
  <2>3. acount <= acount'
    BY <2>2 DEF AnalogNext, AppendFrame, WriteSamples, StoreMin, StoreMax, PublishCount,
                LoadMin, LoadMax, Drawn, analogVars
  <2>4. holes \subseteq holes'
    BY DEF AnalogNext, AppendFrame, WriteSamples, StoreMin, StoreMax, PublishCount,
                LoadMin, LoadMax, Drawn, analogVars
  <2>5. ASSUME NEW s \in 0 .. rd.count - 1 PROVE volt'[s] = volt[s]
    <3>1. CASE WriteSamples
      <4>1. wend <= job.s /\ job.s \in Nat
        BY <3>1, JobFields DEF WriteSamples, Order
      <4>2. s \in 0 .. ASize - 1 /\ s < job.s
        BY <4>1, <2>2, AnalogAssumption DEF AnalogTypeOK
      <4>3. QED BY <3>1, <4>2, WriteIs
    <3>2. CASE ~ WriteSamples
      BY <3>2 DEF AnalogNext, AppendFrame, StoreMin, StoreMax, PublishCount,
                  LoadMin, LoadMax, Drawn, analogVars
    <3>3. QED BY <3>1, <3>2
  <2>6. acount' \in Nat
    BY <2>2 DEF AnalogNext, AppendFrame, WriteSamples, StoreMin, StoreMax, PublishCount,
                LoadMin, LoadMax, Drawn, analogVars
  <2>7. rd.count <= acount'
    BY <2>2, <2>3, <2>6
  <2>8. QED BY <1>1, <2>1, <2>4, <2>5, <2>7 DEF Drawing, CellOf
<1>2. CASE LoadMin
  <2>1. PICK l \in alloc, t \in 0 .. acount - 1 :
          rd' = [level |-> l, at |-> t, count |-> acount,
                 min |-> mn[l][t \div ABlock[l]], loaded |-> "min"]
    BY <1>2 DEF LoadMin
  <2>2. /\ l \in ALevel /\ acount \in Nat /\ wend \in Nat /\ acount <= wend
        /\ UNCHANGED << volt, acount, holes >>
    BY <1>2 DEF LoadMin, AnalogTypeOK, Order
  <2>3. /\ rd'.level = l /\ rd'.at = t /\ rd'.count = acount
        /\ rd'.min = mn[l][CellOf(l, t)] /\ rd'.loaded = "min"
    BY <2>1 DEF CellOf
  <2>4. ASSUME NEW s \in 0 .. acount - 1, s \notin holes, CellOf(l, s) = CellOf(l, t)
        PROVE  mn[l][CellOf(l, t)] <= volt[s]
    <3>1. s \in 0 .. wend - 1 /\ s < acount
      BY <2>2
    <3>2. QED BY <3>1, <2>2, <2>4 DEF Cover, Spanned
  <2>5. t < acount /\ acount <= acount
    BY <2>2
  <2>6. QED BY <2>2, <2>3, <2>4, <2>5 DEF Drawing, CellOf
<1>3. CASE LoadMax
  <2> DEFINE l == rd.level
  <2>1. /\ rd # NoRead /\ rd.loaded = "min" /\ UNCHANGED << volt, acount, holes >>
        /\ rd' = [level |-> rd.level, at |-> rd.at, count |-> rd.count, min |-> rd.min,
                  loaded |-> "both", max |-> mx[rd.level][rd.at \div ABlock[rd.level]]]
    BY <1>3 DEF LoadMax
  <2>2. /\ rd'.level = l /\ rd'.at = rd.at /\ rd'.count = rd.count
        /\ rd'.min = rd.min /\ rd'.max = mx[l][CellOf(l, rd.at)]
    BY <2>1 DEF CellOf
  <2>3. /\ l \in ALevel /\ acount \in Nat /\ wend \in Nat /\ acount <= wend
        /\ rd.count <= acount /\ rd.count \in Nat /\ rd.at < rd.count
    BY <2>1, ReadFields DEF AnalogTypeOK, Order, Drawing
  <2>4. ASSUME NEW s \in 0 .. rd.count - 1, s \notin holes, CellOf(l, s) = CellOf(l, rd.at)
        PROVE  rd.min <= volt[s] /\ volt[s] <= mx[l][CellOf(l, rd.at)]
    <3>1. s \in 0 .. wend - 1 /\ s < acount
      BY <2>3
    <3>2. Spanned(l, s)
      BY <3>1, <2>3, <2>4 DEF Cover
    <3>3. QED BY <2>1, <2>4, <3>2 DEF Spanned, Drawing
  <2>5. QED BY <2>1, <2>2, <2>3, <2>4 DEF Drawing, CellOf
<1>4. CASE Drawn
  BY <1>4 DEF Drawn, Drawing
<1>5. QED
  <2>1. CASE AppendFrame \/ WriteSamples \/ StoreMin \/ StoreMax \/ PublishCount
             \/ UNCHANGED analogVars
    BY <2>1, <1>1 DEF AppendFrame, WriteSamples, StoreMin, StoreMax, PublishCount, analogVars
  <2>2. QED BY <2>1, <1>2, <1>3, <1>4 DEF AnalogNext

-----------------------------------------------------------------------------
(* AnalogStore: the theorems.                                              *)

\* The inductive invariant holds in every state.
LEMMA AnalogInvariant == AnalogSpec => [](AnalogTypeOK /\ Order /\ InRange /\ Cover /\ Drawing)
<1> DEFINE I == AnalogTypeOK /\ Order /\ InRange /\ Cover /\ Drawing
<1>1. AnalogInit => I
  <2> SUFFICES ASSUME AnalogInit PROVE I
    OBVIOUS
  <2>1. job.at = "none" /\ rd = NoRead /\ acount = 0 /\ wend = 0 /\ sent = 0
    BY DEF AnalogInit, NoJob
  <2>2. Order /\ InRange /\ Drawing
    BY <2>1 DEF Order, InRange, Drawing
  <2>3. Cover
    BY <2>1 DEF Cover
  <2>4. QED BY <2>2, <2>3, InitTypes
<1>2. I /\ [AnalogNext]_analogVars => I'
  BY TypesStep, OrderStep, RangeStep, CoverStep, DrawingStep
<1>3. QED BY <1>1, <1>2, PTL DEF AnalogSpec

\* The types of the store, of append() between any two of its stores and of the
\* render thread's loads (AnalogStore::append, refresh_pyramid).
THEOREM AnalogTypes == AnalogSpec => []AnalogTypeOK
BY AnalogInvariant, PTL

\* A glitch is drawn at every zoom: whatever the RX thread stores between the
\* two loads of the render thread, what they return spans every sample that was
\* published when the first was made and lies under the pixel.
THEOREM EnvelopesCover == AnalogSpec => []EnvelopeCovers
<1>1. Drawing => EnvelopeCovers
  BY DEF Drawing, EnvelopeCovers, CellOf
<1>2. QED BY <1>1, AnalogInvariant, PTL

-----------------------------------------------------------------------------
(* AnnotationStore: the inductive invariant.                               *)

Anns == [start : Nat, end : Nat, id : Nat]

\* Rows are sorted by start, and no annotation is twice in one.
Sorted(v)   == \A i, j \in 1 .. Len(v) : i <= j => v[i].start <= v[j].start
Distinct(v) == \A i, j \in 1 .. Len(v) : v[i] = v[j] => i = j
Elements(v) == {v[i] : i \in 1 .. Len(v)}

\* A row holds annotations that were added to it, A, all of them numbered
\* below n, and keeps those that end at t, the start of the window, or later.
RowOK(v, A, n, t) ==
    /\ v \in Seq(Anns) /\ Sorted(v) /\ Distinct(v)
    /\ Elements(v) \subseteq A /\ A \subseteq Anns
    /\ \A a \in A : a.start <= a.end /\ a.id < n
    /\ \A a \in A : a.end >= t => a \in Elements(v)

AnnInv ==
    /\ adds \in Nat /\ trimmed \in Nat
    /\ rows \in [RowKeys -> Seq(Anns)] /\ added \in [RowKeys -> SUBSET Anns]
    /\ \A k \in RowKeys : RowOK(rows[k], added[k], adds, trimmed)

-----------------------------------------------------------------------------
(* Searching a row, and putting an annotation into it.                     *)

\* What a row holds.
LEMMA RowTypes ==
  ASSUME NEW v \in Seq(Anns)
  PROVE  /\ Len(v) \in Nat /\ DOMAIN v = 1 .. Len(v)
         /\ \A i \in 1 .. Len(v) : v[i] \in Anns /\ v[i].start \in Nat /\ v[i].end \in Nat
<1>1. Len(v) \in Nat /\ DOMAIN v = 1 .. Len(v)
  OBVIOUS
<1>2. \A i \in 1 .. Len(v) : v[i] \in Anns
  OBVIOUS
<1>3. \A a \in Anns : a.start \in Nat /\ a.end \in Nat
  BY DEF Anns
<1>4. QED BY <1>1, <1>2, <1>3

\* What Min chooses.
LEMMA LeastIs ==
  ASSUME NEW T, T \subseteq Nat, T # {}
  PROVE  Min(T) \in T /\ \A y \in T : Min(T) <= y
BY Least DEF Min

\* The first of the positions I of a sequence of length n, or the one behind it.
LEMMA FirstOf ==
  ASSUME NEW n \in Nat, NEW I, I \subseteq 1 .. n
  PROVE  LET p == Min(I \cup {n + 1})
         IN  /\ p \in 1 .. n + 1 /\ (p \in I \/ p = n + 1)
             /\ \A i \in I : p <= i
<1> DEFINE T == I \cup {n + 1}
<1>1. T \subseteq Nat /\ T # {} /\ T \subseteq 1 .. n + 1
  OBVIOUS
<1> HIDE DEF T
<1>2. Min(T) \in T /\ \A y \in T : Min(T) <= y
  BY <1>1, LeastIs
<1>3. QED BY <1>1, <1>2 DEF T

\* lower_bound on the start of the annotations of a sorted row.
LEMMA StartsAt ==
  ASSUME NEW v \in Seq(Anns), Sorted(v), NEW t \in Nat
  PROVE  LET p == FirstIn(v, LAMBDA x : x.start >= t)
         IN  /\ p \in 1 .. Len(v) + 1
             /\ \A i \in 1 .. Len(v) : i < p <=> v[i].start < t
<1> DEFINE I == {i \in DOMAIN v : v[i].start >= t}
<1> DEFINE p == Min(I \cup {Len(v) + 1})
<1>1. FirstIn(v, LAMBDA x : x.start >= t) = p
  BY DEF FirstIn
<1>2. Len(v) \in Nat /\ DOMAIN v = 1 .. Len(v) /\ I \subseteq 1 .. Len(v)
  OBVIOUS
<1>3. \A i \in 1 .. Len(v) : v[i] \in Anns /\ v[i].start \in Nat
  BY RowTypes
<1>4. \A i \in 1 .. Len(v) : i \in I <=> v[i].start >= t
  BY <1>2
<1> HIDE DEF I
<1>5. /\ p \in 1 .. Len(v) + 1 /\ (p \in I \/ p = Len(v) + 1)
      /\ \A i \in I : p <= i
  BY <1>2, FirstOf
<1> HIDE DEF p
<1>6. ASSUME NEW i \in 1 .. Len(v) PROVE i < p <=> v[i].start < t
  <2>1. CASE i < p
    <3>1. i \notin I
      BY <1>5, <2>1
    <3>2. QED BY <2>1, <3>1, <1>3, <1>4
  <2>2. CASE p <= i
    <3>1. p \in I /\ p \in 1 .. Len(v)
      BY <1>2, <1>5, <2>2
    <3>2. v[p].start >= t /\ v[p].start <= v[i].start /\ v[p].start \in Nat
      BY <1>3, <1>4, <2>2, <3>1 DEF Sorted
    <3>3. QED BY <3>2, <1>3, <1>5, <2>2
  <2>3. QED BY <1>5, <2>1, <2>2
<1>7. QED BY <1>1, <1>5, <1>6

\* What InsertAt returns.
LEMMA Inserted ==
  ASSUME NEW S, NEW v \in Seq(S), NEW a \in S, NEW p \in 1 .. Len(v) + 1
  PROVE  LET w == InsertAt(v, p, a)
         IN  /\ w \in Seq(S) /\ Len(w) = Len(v) + 1
             /\ \A i \in 1 .. Len(v) + 1 :
                   w[i] = IF i < p THEN v[i] ELSE IF i = p THEN a ELSE v[i - 1]
<1> DEFINE l == SubSeq(v, 1, p - 1)
<1> DEFINE r == SubSeq(v, p, Len(v))
<1>1. Len(v) \in Nat /\ p \in Nat /\ \A i \in 1 .. Len(v) : v[i] \in S
  BY LenProperties, ElementOfSeq
<1>2. l \in Seq(S) /\ Len(l) = p - 1 /\ \A i \in 1 .. p - 1 : l[i] = v[i]
  <2>1. \A i \in 1 .. p - 1 : v[i] \in S
    BY <1>1
  <2>2. /\ l \in Seq(S) /\ Len(l) = (IF 1 <= p - 1 THEN p - 1 - 1 + 1 ELSE 0)
        /\ \A i \in 1 .. p - 1 - 1 + 1 : l[i] = v[1 + i - 1]
    BY <1>1, <2>1, SubSeqProperties
  <2> HIDE DEF l
  <2>3. QED BY <1>1, <2>2
<1>3. r \in Seq(S) /\ Len(r) = Len(v) + 1 - p /\ \A i \in 1 .. Len(v) + 1 - p : r[i] = v[p + i - 1]
  <2>1. \A i \in p .. Len(v) : v[i] \in S
    BY <1>1
  <2>2. /\ r \in Seq(S) /\ Len(r) = (IF p <= Len(v) THEN Len(v) - p + 1 ELSE 0)
        /\ \A i \in 1 .. Len(v) - p + 1 : r[i] = v[p + i - 1]
    BY <1>1, <2>1, SubSeqProperties
  <2> HIDE DEF r
  <2>3. Len(r) = Len(v) + 1 - p
    BY <1>1, <2>2
  <2>4. QED BY <1>1, <2>2, <2>3
<1> HIDE DEF l, r
<1>4. << a >> \in Seq(S) /\ Len(<< a >>) = 1 /\ << a >>[1] = a
  OBVIOUS
<1> DEFINE m == << a >>
<1> DEFINE lm == l \o m
<1>5. /\ lm \in Seq(S) /\ Len(lm) = p
      /\ \A i \in 1 .. p : lm[i] = IF i <= p - 1 THEN l[i] ELSE m[i - (p - 1)]
  <2> HIDE DEF m
  <2>1. m \in Seq(S) /\ Len(m) = 1
    BY <1>4 DEF m
  <2>2. /\ lm \in Seq(S) /\ Len(lm) = Len(l) + Len(m)
        /\ \A i \in 1 .. Len(l) + Len(m) : lm[i] = IF i <= Len(l) THEN l[i] ELSE m[i - Len(l)]
    BY <1>2, <2>1, ConcatProperties
  <2>3. Len(l) + Len(m) = p
    BY <1>1, <1>2, <2>1
  <2>4. QED BY <1>2, <2>2, <2>3
<1>6. \A i \in 1 .. p : lm[i] = IF i < p THEN v[i] ELSE a
  <2> HIDE DEF lm
  <2>1. TAKE i \in 1 .. p
  <2>2. CASE i < p
    BY <2>2, <1>1, <1>2, <1>5
  <2>3. CASE i = p
    <3>1. i - (p - 1) = 1 /\ ~(i <= p - 1)
      BY <2>3, <1>1
    <3>2. lm[i] = m[1]
      BY <3>1, <1>5
    <3>3. QED BY <3>2, <2>3, <1>1
  <2>4. QED BY <2>2, <2>3, <1>1
<1> HIDE DEF lm
<1>7. InsertAt(v, p, a) = lm \o r
  BY DEF InsertAt, l, r, lm, m
<1> DEFINE w == lm \o r
<1>8. /\ w \in Seq(S) /\ Len(w) = Len(lm) + Len(r)
      /\ \A i \in 1 .. Len(lm) + Len(r) : w[i] = IF i <= Len(lm) THEN lm[i] ELSE r[i - Len(lm)]
  BY <1>3, <1>5, ConcatProperties
<1> HIDE DEF w
<1>9. Len(lm) + Len(r) = Len(v) + 1 /\ Len(lm) = p
  BY <1>1, <1>3, <1>5
<1>10. ASSUME NEW i \in 1 .. Len(v) + 1
       PROVE  w[i] = IF i < p THEN v[i] ELSE IF i = p THEN a ELSE v[i - 1]
  <2>1. CASE i <= p
    <3>1. w[i] = lm[i] /\ i \in 1 .. p
      BY <2>1, <1>8, <1>9, <1>1
    <3>2. QED BY <3>1, <2>1, <1>6, <1>1
  <2>2. CASE i > p
    <3>1. w[i] = r[i - p]
      BY <2>2, <1>8, <1>9, <1>1
    <3>2. i - p \in 1 .. Len(v) + 1 - p /\ p + (i - p) - 1 = i - 1
      BY <2>2, <1>1
    <3>3. r[i - p] = v[i - 1]
      BY <3>2, <1>3
    <3>4. QED BY <3>1, <3>3, <2>2, <1>1
  <2>3. QED BY <2>1, <2>2, <1>1
<1>11. QED BY <1>7, <1>8, <1>9, <1>10 DEF w

\* add() keeps a row sorted and gives it the annotation.
LEMMA PlacedIs ==
  ASSUME NEW v \in Seq(Anns), Sorted(v), Distinct(v), NEW a \in Anns, a \notin Elements(v)
  PROVE  LET w == Placed(v, a)
         IN  /\ w \in Seq(Anns) /\ Sorted(w) /\ Distinct(w)
             /\ Elements(w) = Elements(v) \cup {a}
<1> DEFINE w == Placed(v, a)
<1> DEFINE n == Len(v)
<1>1. n \in Nat /\ a.start \in Nat /\ \A i \in 1 .. n : v[i] \in Anns /\ v[i].start \in Nat
  <2>1. a.start \in Nat
    BY DEF Anns
  <2>2. QED BY <2>1, RowTypes
<1>2. \E p \in 1 .. n + 1 :
         /\ w \in Seq(Anns) /\ Len(w) = n + 1
         /\ \A i \in 1 .. n + 1 :
               w[i] = IF i < p THEN v[i] ELSE IF i = p THEN a ELSE v[i - 1]
         /\ \A i \in 1 .. n : i < p => v[i].start <= a.start
         /\ \A i \in 1 .. n : i >= p => a.start <= v[i].start
  <2>1. CASE v = << >> \/ a.start >= Last(v).start
    <3>1. w = Append(v, a)
      BY <2>1 DEF Placed
    <3>2. /\ w \in Seq(Anns) /\ Len(w) = n + 1
          /\ (\A i \in 1 .. n : w[i] = v[i]) /\ w[n + 1] = a
      BY <3>1, AppendProperties
    <3>3. \A i \in 1 .. n : v[i].start <= a.start
      <4>1. SUFFICES ASSUME NEW i \in 1 .. n PROVE v[i].start <= a.start
        OBVIOUS
      <4>2. v # << >> /\ n \in 1 .. n
        BY <1>1, EmptySeq
      <4>3. a.start >= v[n].start
        BY <2>1, <4>2 DEF Last
      <4>4. v[i].start <= v[n].start
        BY <4>2, <1>1 DEF Sorted
      <4>5. QED BY <4>2, <4>3, <4>4, <1>1
    <3> HIDE DEF w
    <3>4. \A i \in 1 .. n + 1 :
               w[i] = IF i < n + 1 THEN v[i] ELSE IF i = n + 1 THEN a ELSE v[i - 1]
      BY <3>2, <1>1
    <3>5. n + 1 \in 1 .. n + 1 /\ \A i \in 1 .. n : ~(i >= n + 1)
      BY <1>1
    <3>6. QED BY <3>2, <3>3, <3>4, <3>5
  <2>2. CASE ~(v = << >> \/ a.start >= Last(v).start)
    <3> DEFINE p == FirstIn(v, LAMBDA x : x.start >= a.start)
    <3>1. w = InsertAt(v, p, a)
      BY <2>2 DEF Placed
    <3>2. p \in 1 .. n + 1 /\ \A i \in 1 .. n : i < p <=> v[i].start < a.start
      BY <1>1, StartsAt
    <3> HIDE DEF p
    <3>3. /\ w \in Seq(Anns) /\ Len(w) = n + 1
          /\ \A i \in 1 .. n + 1 :
                w[i] = IF i < p THEN v[i] ELSE IF i = p THEN a ELSE v[i - 1]
      <4> HIDE DEF n, w
      <4>1. p \in 1 .. Len(v) + 1
        BY <3>2 DEF n
      <4>2. PICK m : m = InsertAt(v, p, a)
        OBVIOUS
      <4>3. /\ m \in Seq(Anns) /\ Len(m) = Len(v) + 1
            /\ \A i \in 1 .. Len(v) + 1 :
                  m[i] = IF i < p THEN v[i] ELSE IF i = p THEN a ELSE v[i - 1]
        BY <4>1, <4>2, Inserted, SMTT(20)
      <4>4. QED BY <3>1, <4>2, <4>3 DEF n
    <3>4. /\ \A i \in 1 .. n : i < p => v[i].start <= a.start
          /\ \A i \in 1 .. n : i >= p => a.start <= v[i].start
      BY <3>2, <1>1
    <3> HIDE DEF w
    <3>5. QED BY <3>2, <3>3, <3>4
  <2>3. QED BY <2>1, <2>2
<1> HIDE DEF w
<1>3. PICK p \in 1 .. n + 1 :
         /\ w \in Seq(Anns) /\ Len(w) = n + 1
         /\ \A i \in 1 .. n + 1 :
               w[i] = IF i < p THEN v[i] ELSE IF i = p THEN a ELSE v[i - 1]
         /\ \A i \in 1 .. n : i < p => v[i].start <= a.start
         /\ \A i \in 1 .. n : i >= p => a.start <= v[i].start
  BY <1>2
<1>4. /\ \A i \in 1 .. n + 1 : i < p => i \in 1 .. n /\ w[i] = v[i]
      /\ w[p] = a
      /\ \A i \in 1 .. n + 1 : i > p => i - 1 \in 1 .. n /\ i - 1 >= p /\ w[i] = v[i - 1]
  BY <1>1, <1>3
<1>5. Sorted(w)
  <2>1. SUFFICES ASSUME NEW i \in 1 .. n + 1, NEW j \in 1 .. n + 1, i < j
                 PROVE  w[i].start <= w[j].start
    <3>1. \A i \in 1 .. n + 1 : w[i].start \in Nat
      BY <1>3, RowTypes
    <3>2. QED BY <2>1, <3>1, <1>3 DEF Sorted
  <2>2. i \in Nat /\ j \in Nat /\ p \in Nat
    BY <1>1
  <2>3. CASE j < p
    BY <2>1, <2>2, <2>3, <1>4 DEF Sorted
  <2>4. CASE j = p
    BY <2>1, <2>2, <2>4, <1>3, <1>4
  <2>5. CASE i < p /\ p < j
    <3>1. v[i].start <= a.start /\ a.start <= v[j - 1].start
      BY <2>5, <1>3, <1>4
    <3>2. QED BY <3>1, <2>5, <1>1, <1>4
  <2>6. CASE i = p /\ p < j
    BY <2>6, <1>3, <1>4
  <2>7. CASE p < i
    <3>1. p < j /\ i - 1 <= j - 1
      BY <2>1, <2>2, <2>7
    <3>2. QED BY <3>1, <2>7, <1>4 DEF Sorted
  <2>8. QED BY <2>2, <2>3, <2>4, <2>5, <2>6, <2>7
<1>6. Elements(w) = Elements(v) \cup {a}
  <2>1. ASSUME NEW i \in 1 .. n + 1 PROVE w[i] \in Elements(v) \cup {a}
    <3>1. i < p \/ i = p \/ i > p
      BY <1>1
    <3>2. QED BY <3>1, <1>4 DEF Elements
  <2>2. ASSUME NEW i \in 1 .. n PROVE v[i] \in Elements(w)
    <3>1. CASE i < p
      <4>1. i \in 1 .. n + 1
        BY <1>1
      <4>2. QED BY <3>1, <4>1, <1>3, <1>4 DEF Elements
    <3>2. CASE i >= p
      <4>1. i + 1 \in 1 .. n + 1 /\ i + 1 > p /\ (i + 1) - 1 = i
        BY <3>2, <1>1
      <4>2. w[i + 1] = v[i]
        BY <4>1, <1>4
      <4>3. QED BY <4>1, <4>2, <1>3 DEF Elements
    <3>3. QED BY <3>1, <3>2, <1>1
  <2>3. a \in Elements(w)
    BY <1>3, <1>4 DEF Elements
  <2>4. QED BY <2>1, <2>2, <2>3, <1>3 DEF Elements
<1>7. Distinct(w)
  <2>1. SUFFICES ASSUME NEW i \in 1 .. n + 1, NEW j \in 1 .. n + 1, i < j, w[i] = w[j]
                 PROVE  FALSE
    <3>1. \A i, j \in 1 .. n + 1 : i = j \/ i < j \/ j < i
      BY <1>1
    <3>2. QED BY <2>1, <3>1, <1>3 DEF Distinct
  <2>2. i \in Nat /\ j \in Nat /\ p \in Nat
    BY <1>1
  <2>3. CASE i = p \/ j = p
    <3>1. \A k \in 1 .. n + 1 : k # p => w[k] \in Elements(v)
      <4>1. TAKE k \in 1 .. n + 1
      <4>2. k < p \/ k = p \/ k > p
        BY <1>1
      <4>3. QED BY <4>2, <1>4 DEF Elements
    <3>2. QED BY <2>1, <2>2, <2>3, <3>1, <1>4
  <2>4. CASE i # p /\ j # p
    <3> DEFINE pos(k) == IF k < p THEN k ELSE k - 1
    <3>1. pos(i) \in 1 .. n /\ pos(j) \in 1 .. n /\ w[i] = v[pos(i)] /\ w[j] = v[pos(j)]
      BY <2>2, <2>4, <1>4
    <3>2. pos(i) # pos(j)
      BY <2>1, <2>2, <2>4
    <3> HIDE DEF pos
    <3>3. QED BY <2>1, <3>1, <3>2 DEF Distinct
  <2>5. QED BY <2>3, <2>4
<1>8. QED BY <1>3, <1>5, <1>6, <1>7 DEF w

-----------------------------------------------------------------------------
(* What each operation does to the invariant of a row.                     *)

\* What is left when the first e elements are erased.
LEMMA Suffix ==
  ASSUME NEW S, NEW v \in Seq(S), NEW e \in 0 .. Len(v)
  PROVE  LET w == SubSeq(v, e + 1, Len(v))
         IN  /\ w \in Seq(S) /\ Len(w) = Len(v) - e
             /\ \A i \in 1 .. Len(v) - e : w[i] = v[e + i]
<1> DEFINE w == SubSeq(v, e + 1, Len(v))
<1>1. Len(v) \in Nat /\ e \in Nat /\ e <= Len(v) /\ \A i \in 1 .. Len(v) : v[i] \in S
  BY LenProperties, ElementOfSeq
<1>2. \A i \in e + 1 .. Len(v) : v[i] \in S
  BY <1>1
<1>3. /\ w \in Seq(S) /\ Len(w) = (IF e + 1 <= Len(v) THEN Len(v) - (e + 1) + 1 ELSE 0)
      /\ \A i \in 1 .. Len(v) - (e + 1) + 1 : w[i] = v[e + 1 + i - 1]
  BY <1>1, <1>2, SubSeqProperties
<1> HIDE DEF w
<1>4. Len(w) = Len(v) - e
  BY <1>1, <1>3
<1>5. \A i \in 1 .. Len(v) - e : w[i] = v[e + i]
  BY <1>1, <1>3
<1>6. QED BY <1>3, <1>4, <1>5 DEF w

\* The first n elements.
LEMMA Prefix ==
  ASSUME NEW S, NEW v \in Seq(S), NEW n \in 0 .. Len(v)
  PROVE  LET w == SubSeq(v, 1, n)
         IN  w \in Seq(S) /\ Len(w) = n /\ \A i \in 1 .. n : w[i] = v[i]
<1> DEFINE w == SubSeq(v, 1, n)
<1>1. Len(v) \in Nat /\ n \in Nat /\ n <= Len(v) /\ \A i \in 1 .. Len(v) : v[i] \in S
  BY LenProperties, ElementOfSeq
<1>2. \A i \in 1 .. n : v[i] \in S
  BY <1>1
<1>3. /\ w \in Seq(S) /\ Len(w) = (IF 1 <= n THEN n - 1 + 1 ELSE 0)
      /\ \A i \in 1 .. n - 1 + 1 : w[i] = v[1 + i - 1]
  BY <1>1, <1>2, SubSeqProperties
<1> HIDE DEF w
<1>4. Len(w) = n /\ \A i \in 1 .. n : w[i] = v[i]
  BY <1>1, <1>3
<1>5. QED BY <1>3, <1>4 DEF w

\* The part of a row from some position on is as good as the row, for what is
\* in it.
LEMMA TailIs ==
  ASSUME NEW v \in Seq(Anns), Sorted(v), Distinct(v), NEW e \in 0 .. Len(v)
  PROVE  LET w == SubSeq(v, e + 1, Len(v))
         IN  /\ w \in Seq(Anns) /\ Sorted(w) /\ Distinct(w)
             /\ Len(w) = Len(v) - e /\ (\A i \in 1 .. Len(w) : w[i] = v[e + i])
             /\ Elements(w) \subseteq Elements(v)
             /\ \A i \in e + 1 .. Len(v) : v[i] \in Elements(w)
<1> DEFINE w == SubSeq(v, e + 1, Len(v))
<1>1. /\ w \in Seq(Anns) /\ Len(w) = Len(v) - e
      /\ \A i \in 1 .. Len(v) - e : w[i] = v[e + i]
  BY Suffix
<1>2. Len(v) \in Nat /\ e \in Nat
  BY LenProperties
<1> HIDE DEF w
<1>3. \A i \in 1 .. Len(w) : e + i \in 1 .. Len(v) /\ w[i] = v[e + i]
  BY <1>1, <1>2
<1>4. Sorted(w)
  <2>1. SUFFICES ASSUME NEW i \in 1 .. Len(w), NEW j \in 1 .. Len(w), i <= j
                 PROVE  w[i].start <= w[j].start
    BY DEF Sorted
  <2>2. e + i <= e + j
    BY <2>1, <1>2
  <2>3. QED BY <1>3, <2>2 DEF Sorted
<1>5. Distinct(w)
  <2>1. SUFFICES ASSUME NEW i \in 1 .. Len(w), NEW j \in 1 .. Len(w), w[i] = w[j]
                 PROVE  i = j
    BY DEF Distinct
  <2>2. e + i = e + j
    BY <1>3, <2>1 DEF Distinct
  <2>3. QED BY <2>2, <1>2
<1>6. Elements(w) \subseteq Elements(v)
  BY <1>3 DEF Elements
<1>7. \A i \in e + 1 .. Len(v) : v[i] \in Elements(w)
  <2>1. TAKE i \in e + 1 .. Len(v)
  <2>2. i - e \in 1 .. Len(w) /\ e + (i - e) = i
    BY <1>1, <1>2
  <2>3. w[i - e] = v[i]
    BY <1>3, <2>2
  <2>4. QED BY <2>2, <2>3 DEF Elements
<1>8. QED BY <1>1, <1>3, <1>4, <1>5, <1>6, <1>7 DEF w

\* What trim_before() erases had ended before the sample.
LEMMA ErasedIs ==
  ASSUME NEW v \in Seq(Anns), NEW sample \in Nat
  PROVE  /\ Erased(v, sample) \in 0 .. Len(v)
         /\ \A i \in 1 .. Erased(v, sample) : i \in 1 .. Len(v) /\ v[i].end < sample
<1> DEFINE I == {i \in DOMAIN v : v[i].end >= sample}
<1> DEFINE p == Min(I \cup {Len(v) + 1})
<1>1. DeadPrefix(v, sample) = p - 1
  BY DEF DeadPrefix, FirstIn
<1>2. Len(v) \in Nat /\ I \subseteq 1 .. Len(v)
  OBVIOUS
<1>3. \A i \in 1 .. Len(v) : i \notin I => v[i].end < sample
  <2>1. \A i \in 1 .. Len(v) : v[i].end \in Nat
    BY RowTypes
  <2>2. QED BY <2>1
<1> HIDE DEF I
<1>4. p \in 1 .. Len(v) + 1 /\ \A i \in I : p <= i
  BY <1>2, FirstOf
<1> HIDE DEF p
<1>5. p - 1 \in 0 .. Len(v) /\ p - 1 \in Nat
  BY <1>2, <1>4
<1>6. ASSUME NEW i \in 1 .. p - 1 PROVE i \in 1 .. Len(v) /\ v[i].end < sample
  <2>1. i \in 1 .. Len(v) /\ ~(p <= i)
    BY <1>2, <1>4
  <2>2. QED BY <2>1, <1>3, <1>4
<1>7. Erased(v, sample) = p - 1 \/ Erased(v, sample) = 0
  BY <1>1 DEF Erased
<1>8. 0 \in 0 .. Len(v) /\ \A i \in 1 .. 0 : FALSE
  BY <1>2
<1>9. QED BY <1>5, <1>6, <1>7, <1>8

\* trim() keeps the row in order, and loses nothing of the window.
LEMMA TrimOK ==
  ASSUME NEW v, NEW A, NEW n \in Nat, NEW t \in Nat, RowOK(v, A, n, t), NEW sample \in Nat
  PROVE  RowOK(SubSeq(v, Erased(v, sample) + 1, Len(v)), A, n,
               IF sample > t THEN sample ELSE t)
<1> DEFINE e == Erased(v, sample)
<1> DEFINE w == SubSeq(v, e + 1, Len(v))
<1> DEFINE u == IF sample > t THEN sample ELSE t
<1>1. v \in Seq(Anns) /\ Sorted(v) /\ Distinct(v) /\ Elements(v) \subseteq A /\ A \subseteq Anns
  BY DEF RowOK
<1>2. e \in 0 .. Len(v) /\ \A i \in 1 .. e : i \in 1 .. Len(v) /\ v[i].end < sample
  BY <1>1, ErasedIs
<1> HIDE DEF e
<1>3. /\ w \in Seq(Anns) /\ Sorted(w) /\ Distinct(w)
      /\ Elements(w) \subseteq Elements(v) /\ \A i \in e + 1 .. Len(v) : v[i] \in Elements(w)
  BY <1>1, <1>2, TailIs
<1> HIDE DEF w
<1>4. ASSUME NEW a \in A, a.end >= u PROVE a \in Elements(w)
  <2>1. a.end \in Nat /\ u \in Nat /\ u >= t /\ u >= sample
    BY <1>1 DEF Anns
  <2> HIDE DEF u
  <2>2. a \in Elements(v)
    BY <1>4, <2>1 DEF RowOK
  <2>3. PICK i \in 1 .. Len(v) : v[i] = a
    BY <2>2 DEF Elements
  <2>4. i \in e + 1 .. Len(v)
    <3>1. ASSUME i \in 1 .. e PROVE FALSE
      BY <1>2, <1>4, <2>1, <2>3, <3>1
    <3>2. QED BY <3>1, <1>1, <1>2, RowTypes
  <2>5. QED BY <1>3, <2>3, <2>4
<1>5. RowOK(w, A, n, u)
  <2> HIDE DEF u
  <2>1. QED BY <1>1, <1>3, <1>4 DEF RowOK
<1>6. QED BY <1>5 DEF w, e

\* add() puts a new annotation into its place in the row.
LEMMA AddOK ==
  ASSUME NEW v, NEW A, NEW n \in Nat, NEW t \in Nat, RowOK(v, A, n, t),
         NEW a \in Anns, a.start <= a.end, a.id = n
  PROVE  RowOK(Placed(v, a), A \cup {a}, n + 1, t)
<1> DEFINE w == Placed(v, a)
<1>1. v \in Seq(Anns) /\ Sorted(v) /\ Distinct(v) /\ Elements(v) \subseteq A /\ A \subseteq Anns
  BY DEF RowOK
<1>2. a \notin A
  BY DEF RowOK
<1>3. /\ w \in Seq(Anns) /\ Sorted(w) /\ Distinct(w)
      /\ Elements(w) = Elements(v) \cup {a}
  BY <1>1, <1>2, PlacedIs
<1> HIDE DEF w
<1>4. \A b \in A \cup {a} : b.start <= b.end /\ b.id < n + 1
  <2>1. \A b \in A : b.start <= b.end /\ b.id < n /\ b.id \in Nat
    BY <1>1 DEF RowOK, Anns
  <2>2. QED BY <2>1
<1>5. \A b \in A \cup {a} : b.end >= t => b \in Elements(w)
  BY <1>3 DEF RowOK
<1>6. QED BY <1>1, <1>3, <1>4, <1>5 DEF RowOK, w

\* A row is as good when another one has got an annotation.
LEMMA CountOK ==
  ASSUME NEW v, NEW A, NEW n \in Nat, NEW t, RowOK(v, A, n, t)
  PROVE  RowOK(v, A, n + 1, t)
<1>1. \A b \in A : b.id < n + 1
  BY DEF RowOK, Anns
<1>2. QED BY <1>1 DEF RowOK

\* A row that was cleared.
LEMMA EmptyOK ==
  ASSUME NEW n, NEW t
  PROVE  RowOK(<< >>, {}, n, t)
<1>1. << >> \in Seq(Anns) /\ 1 .. Len(<< >>) = {}
  OBVIOUS
<1>2. QED BY <1>1 DEF RowOK, Sorted, Distinct, Elements

\* The operations of the RX and render threads keep the invariant.
THEOREM AnnotationInvariant == AnnSpec => []AnnInv
<1>1. AnnInit => AnnInv
  <2> SUFFICES ASSUME AnnInit PROVE AnnInv
    OBVIOUS
  <2>1. /\ rows = [k \in RowKeys |-> << >>] /\ added = [k \in RowKeys |-> {}]
        /\ adds = 0 /\ trimmed = 0
    BY DEF AnnInit
  <2>2. << >> \in Seq(Anns) /\ {} \in SUBSET Anns
    OBVIOUS
  <2>3. \A k \in RowKeys : RowOK(rows[k], added[k], adds, trimmed)
    BY <2>1, EmptyOK
  <2>4. QED BY <2>1, <2>2, <2>3 DEF AnnInv
<1>2. AnnInv /\ [AnnNext]_annVars => AnnInv'
  <2> SUFFICES ASSUME AnnInv, [AnnNext]_annVars PROVE AnnInv'
    OBVIOUS
  <2>1. /\ adds \in Nat /\ trimmed \in Nat
        /\ rows \in [RowKeys -> Seq(Anns)] /\ added \in [RowKeys -> SUBSET Anns]
        /\ \A k \in RowKeys : RowOK(rows[k], added[k], adds, trimmed)
    BY DEF AnnInv
  <2>2. \A v, A, n, t : RowOK(v, A, n, t) => v \in Seq(Anns) /\ A \in SUBSET Anns
    BY DEF RowOK
  <2>3. ASSUME NEW k \in RowKeys, NEW s \in Times, NEW e \in Times, s <= e, Add(k, s, e)
        PROVE  AnnInv'
    <3> DEFINE a == [start |-> s, end |-> e, id |-> adds]
    <3>1. /\ rows' = [rows EXCEPT ![k] = Placed(@, a)]
          /\ added' = [added EXCEPT ![k] = @ \cup {a}]
          /\ adds' = adds + 1 /\ trimmed' = trimmed
      BY <2>3 DEF Add
    <3>2. a \in Anns /\ a.start <= a.end /\ a.id = adds
      BY <2>1, <2>3, AnnotationAssumption DEF Anns
    <3> HIDE DEF a
    <3>3. RowOK(Placed(rows[k], a), added[k] \cup {a}, adds + 1, trimmed)
      BY <2>1, <3>2, AddOK
    <3>4. \A l \in RowKeys : l # k => RowOK(rows[l], added[l], adds + 1, trimmed)
      BY <2>1, CountOK
    <3>5. ASSUME NEW l \in RowKeys
          PROVE  /\ rows'[l] = IF l = k THEN Placed(rows[k], a) ELSE rows[l]
                 /\ added'[l] = IF l = k THEN added[k] \cup {a} ELSE added[l]
      BY <2>1, <3>1
    <3>6. ASSUME NEW l \in RowKeys PROVE RowOK(rows'[l], added'[l], adds', trimmed')
      BY <3>1, <3>3, <3>4, <3>5
    <3>7. rows' \in [RowKeys -> Seq(Anns)] /\ added' \in [RowKeys -> SUBSET Anns]
      <4>1. Placed(rows[k], a) \in Seq(Anns) /\ added[k] \cup {a} \in SUBSET Anns
        BY <2>2, <3>3
      <4>2. QED BY <2>1, <3>1, <4>1
    <3>8. adds' \in Nat /\ trimmed' \in Nat
      BY <2>1, <3>1
    <3>9. QED BY <3>6, <3>7, <3>8 DEF AnnInv
  <2>4. ASSUME NEW t \in Times, TrimBefore(t) PROVE AnnInv'
    <3> DEFINE w(k) == SubSeq(rows[k], Erased(rows[k], t) + 1, Len(rows[k]))
    <3> DEFINE u == IF t > trimmed THEN t ELSE trimmed
    <3>1. /\ rows' = [k \in RowKeys |-> w(k)] /\ trimmed' = u
          /\ adds' = adds /\ added' = added
      BY <2>4 DEF TrimBefore
    <3>2. t \in Nat /\ u \in Nat
      BY <2>1, AnnotationAssumption
    <3>3. ASSUME NEW k \in RowKeys PROVE RowOK(w(k), added[k], adds, u)
      BY <2>1, <3>2, TrimOK
    <3>4. \A k \in RowKeys : w(k) \in Seq(Anns)
      BY <2>2, <3>3
    <3> HIDE DEF w, u
    <3>5. rows' \in [RowKeys -> Seq(Anns)] /\ \A k \in RowKeys : rows'[k] = w(k)
      BY <3>1, <3>4
    <3>6. ASSUME NEW k \in RowKeys PROVE RowOK(rows'[k], added'[k], adds', trimmed')
      BY <3>1, <3>3, <3>5
    <3>7. QED BY <2>1, <3>1, <3>2, <3>5, <3>6 DEF AnnInv
  <2>5. ASSUME Reset PROVE AnnInv'
    <3>1. /\ rows' = [k \in RowKeys |-> << >>] /\ added' = [k \in RowKeys |-> {}]
          /\ adds' = adds /\ trimmed' = 0
      BY <2>5 DEF Reset
    <3>2. << >> \in Seq(Anns) /\ {} \in SUBSET Anns
      OBVIOUS
    <3>3. ASSUME NEW k \in RowKeys PROVE RowOK(rows'[k], added'[k], adds', trimmed')
      BY <3>1, EmptyOK
    <3>4. rows' \in [RowKeys -> Seq(Anns)] /\ added' \in [RowKeys -> SUBSET Anns]
      BY <3>1, <3>2
    <3>5. QED BY <2>1, <3>1, <3>3, <3>4 DEF AnnInv
  <2>6. ASSUME UNCHANGED annVars PROVE AnnInv'
    <3>1. rows' = rows /\ adds' = adds /\ trimmed' = trimmed /\ added' = added
      BY <2>6 DEF annVars
    <3>2. QED BY <2>1, <3>1 DEF AnnInv
  <2>7. QED BY <2>3, <2>4, <2>5, <2>6 DEF AnnNext
<1>3. QED BY <1>1, <1>2, PTL DEF AnnSpec

-----------------------------------------------------------------------------
(* visit(): what it draws of a sorted row in which nothing contains another. *)

\* From is the first annotation that reaches to lo.
LEMMA FromIs ==
  ASSUME NEW v \in Seq(Anns), Sorted(v), NEW lo \in Nat,
         \A i \in 1 .. Len(v) : v[i].start <= v[i].end,
         \A i, j \in 1 .. Len(v) : v[i].start <= v[j].start => v[i].end <= v[j].end
  PROVE  /\ From(v, lo) \in 1 .. Len(v) + 1
         /\ \A i \in 1 .. Len(v) : i >= From(v, lo) <=> v[i].end >= lo
<1> DEFINE n == Len(v)
<1> DEFINE at == FirstIn(v, LAMBDA x : x.start >= lo)
<1> DEFINE T == {j \in 1 .. at : \A i \in j .. at - 1 : v[i].end >= lo}
<1> DEFINE f == Min(T)
<1>1. From(v, lo) = f
  BY DEF From
<1>2. n \in Nat /\ \A i \in 1 .. n : v[i].start \in Nat /\ v[i].end \in Nat
  BY RowTypes
<1>3. at \in 1 .. n + 1 /\ \A i \in 1 .. n : i < at <=> v[i].start < lo
  BY StartsAt
<1> HIDE DEF at, n
<1>4. at \in T /\ T \subseteq Nat
  BY <1>2, <1>3
<1>5. f \in T /\ \A j \in T : f <= j
  <2> HIDE DEF T
  <2>1. QED BY <1>4, LeastIs
<1>6. f \in 1 .. at /\ \A i \in f .. at - 1 : v[i].end >= lo
  BY <1>5
<1>7. f # 1 => f - 1 \in 1 .. at - 1 /\ v[f - 1].end < lo
  <2>1. SUFFICES ASSUME f # 1 PROVE f - 1 \in 1 .. at - 1 /\ v[f - 1].end < lo
    OBVIOUS
  <2> HIDE DEF f
  <2>2. f - 1 \in 1 .. at /\ f - 1 \in 1 .. at - 1 /\ f - 1 \in 1 .. n
    BY <1>2, <1>3, <1>6, <2>1
  <2>3. f - 1 \notin T
    <3> HIDE DEF T
    <3>1. ~(f <= f - 1)
      BY <1>3, <1>6
    <3>2. QED BY <1>5, <3>1
  <2>4. PICK i \in f - 1 .. at - 1 : ~(v[i].end >= lo)
    BY <2>2, <2>3
  <2>5. i = f - 1
    <3>1. i \notin f .. at - 1
      BY <1>6, <2>4
    <3>2. QED BY <3>1, <1>3, <1>6
  <2>6. QED BY <1>2, <2>2, <2>4, <2>5
<1> HIDE DEF f, T
<1>8. ASSUME NEW i \in 1 .. n PROVE i >= f <=> v[i].end >= lo
  <2>1. CASE i >= at
    <3>1. v[i].start >= lo /\ v[i].start <= v[i].end
      BY <1>2, <1>3, <2>1 DEF n
    <3>2. i >= f
      BY <1>2, <1>3, <1>6, <2>1
    <3>3. QED BY <3>1, <3>2, <1>2
  <2>2. CASE i < at /\ i >= f
    <3>1. i \in f .. at - 1
      BY <1>2, <1>3, <1>6, <2>2
    <3>2. QED BY <3>1, <1>6, <2>2
  <2>3. CASE i < f
    <3>1. f # 1 /\ f - 1 \in 1 .. n /\ i <= f - 1
      BY <1>2, <1>3, <1>6, <2>3
    <3>2. v[f - 1].end < lo
      BY <1>7, <3>1
    <3>3. v[i].start <= v[f - 1].start
      BY <3>1 DEF Sorted, n
    <3>4. v[i].end <= v[f - 1].end
      BY <3>1, <3>3 DEF n
    <3>5. QED BY <1>2, <1>6, <2>3, <3>1, <3>2, <3>4
  <2>4. QED BY <1>2, <1>3, <1>6, <2>1, <2>2, <2>3
<1>9. f \in 1 .. n + 1
  BY <1>2, <1>3, <1>6
<1>10. QED BY <1>1, <1>8, <1>9 DEF n

\* A row of different annotations has as many as it has places.
LEMMA DistinctCount ==
  ASSUME NEW v \in Seq(Anns), Distinct(v)
  PROVE  Len(v) = Cardinality(ToSet(v))
<1> DEFINE f == [i \in 1 .. Len(v) |-> v[i]]
<1>1. Len(v) \in Nat /\ DOMAIN v = 1 .. Len(v)
  BY RowTypes
<1>2. ToSet(v) = {v[i] : i \in 1 .. Len(v)}
  BY <1>1 DEF ToSet
<1>3. f \in Bijection(1 .. Len(v), ToSet(v))
  <2>1. f \in [1 .. Len(v) -> ToSet(v)]
    BY <1>2
  <2>2. f \in Surjection(1 .. Len(v), ToSet(v))
    BY <1>2, <2>1 DEF Surjection
  <2>3. \A i, j \in 1 .. Len(v) : f[i] = f[j] => i = j
    BY DEF Distinct
  <2>4. f \in Injection(1 .. Len(v), ToSet(v))
    <3> HIDE DEF f
    <3>1. DOMAIN f = 1 .. Len(v)
      BY <2>1
    <3>2. QED BY <2>1, <2>3, <3>1 DEF Injection, IsInjective
  <2>5. QED BY <2>2, <2>4 DEF Bijection
<1>4. QED BY <1>1, <1>3, FS_CountingElements DEF ExistsBijection

\* What visit() draws of such a row.
LEMMA VisitIs ==
  ASSUME NEW k \in RowKeys, NEW lo \in Nat, NEW hi \in Nat,
         rows[k] \in Seq(Anns), Sorted(rows[k]), Distinct(rows[k]),
         \A i \in 1 .. Len(rows[k]) : rows[k][i].start <= rows[k][i].end,
         \A i, j \in 1 .. Len(rows[k]) :
            rows[k][i].start <= rows[k][j].start => rows[k][i].end <= rows[k][j].end
  PROVE  LET d == Visit(k, lo, hi)
         IN  /\ d \in Seq(Anns) /\ Sorted(d) /\ Distinct(d)
             /\ Elements(d) = {a \in Elements(rows[k]) : a.start <= hi /\ a.end >= lo}
<1> DEFINE v == rows[k]
<1> DEFINE e == From(v, lo) - 1
<1> DEFINE rest == SubSeq(v, e + 1, Len(v))
<1> DEFINE p == FirstIn(rest, LAMBDA x : x.start > hi)
<1> DEFINE d == SubSeq(rest, 1, p - 1)
<1>1. Len(v) \in Nat /\ \A i \in 1 .. Len(v) : v[i].start \in Nat /\ v[i].end \in Nat
  BY RowTypes
<1>2. From(v, lo) \in 1 .. Len(v) + 1 /\ \A i \in 1 .. Len(v) : i >= From(v, lo) <=> v[i].end >= lo
  BY FromIs
<1>3. e \in 0 .. Len(v) /\ e + 1 = From(v, lo)
  BY <1>1, <1>2
<1>4. Visit(k, lo, hi) = d
  BY <1>3 DEF Visit
<1> HIDE DEF e
<1>5. /\ rest \in Seq(Anns) /\ Sorted(rest) /\ Distinct(rest)
      /\ Len(rest) = Len(v) - e /\ \A i \in 1 .. Len(rest) : rest[i] = v[e + i]
  BY <1>3, TailIs
<1> HIDE DEF rest
<1>6. Len(rest) \in Nat /\ \A i \in 1 .. Len(rest) : rest[i].start \in Nat
  BY <1>5, RowTypes
<1>7. p \in 1 .. Len(rest) + 1 /\ \A i \in 1 .. Len(rest) : i < p <=> rest[i].start <= hi
  <2>1. p = FirstIn(rest, LAMBDA x : x.start >= hi + 1)
    <3>1. DOMAIN rest = 1 .. Len(rest)
      BY <1>5, RowTypes
    <3>2. \A i \in DOMAIN rest : rest[i].start > hi <=> rest[i].start >= hi + 1
      BY <1>6, <3>1
    <3>3. {i \in DOMAIN rest : rest[i].start > hi} = {i \in DOMAIN rest : rest[i].start >= hi + 1}
      BY <3>2
    <3>4. QED BY <3>3 DEF FirstIn
  <2>2. hi + 1 \in Nat
    OBVIOUS
  <2> HIDE DEF p
  <2>3. /\ p \in 1 .. Len(rest) + 1
        /\ \A i \in 1 .. Len(rest) : i < p <=> rest[i].start < hi + 1
    BY <1>5, <2>1, <2>2, StartsAt
  <2>4. \A i \in 1 .. Len(rest) : rest[i].start < hi + 1 <=> rest[i].start <= hi
    BY <1>6
  <2>5. QED BY <2>3, <2>4
<1> HIDE DEF p
<1>8. p - 1 \in 0 .. Len(rest)
  BY <1>6, <1>7
<1>9. d \in Seq(Anns) /\ Len(d) = p - 1 /\ \A i \in 1 .. p - 1 : d[i] = rest[i]
  BY <1>5, <1>8, Prefix
<1> HIDE DEF d
<1>10. \A i \in 1 .. Len(d) : i \in 1 .. Len(rest) /\ i < p /\ d[i] = rest[i]
  BY <1>6, <1>7, <1>9
<1>11. Sorted(d)
  <2>1. SUFFICES ASSUME NEW i \in 1 .. Len(d), NEW j \in 1 .. Len(d), i <= j
                 PROVE  d[i].start <= d[j].start
    BY DEF Sorted
  <2>2. QED BY <1>5, <1>10, <2>1 DEF Sorted
<1>12. Distinct(d)
  <2>1. SUFFICES ASSUME NEW i \in 1 .. Len(d), NEW j \in 1 .. Len(d), d[i] = d[j]
                 PROVE  i = j
    BY DEF Distinct
  <2>2. QED BY <1>5, <1>10, <2>1 DEF Distinct
<1>13. ASSUME NEW i \in 1 .. Len(d)
       PROVE  d[i] \in Elements(v) /\ d[i].start <= hi /\ d[i].end >= lo
  <2>1. i \in 1 .. Len(rest) /\ d[i] = v[e + i] /\ d[i].start <= hi
    BY <1>5, <1>7, <1>10
  <2>2. e + i \in 1 .. Len(v) /\ e + i >= From(v, lo)
    BY <1>1, <1>3, <1>5, <2>1
  <2>3. QED BY <1>2, <2>1, <2>2 DEF Elements
<1>14. ASSUME NEW a \in Elements(v), a.start <= hi, a.end >= lo
       PROVE  a \in Elements(d)
  <2>1. PICK i \in 1 .. Len(v) : v[i] = a
    BY DEF Elements
  <2>2. i >= e + 1
    BY <1>2, <1>3, <1>14, <2>1
  <2>3. i - e \in 1 .. Len(rest) /\ e + (i - e) = i
    BY <1>1, <1>3, <1>5, <2>2
  <2>4. rest[i - e] = a
    BY <1>5, <2>1, <2>3
  <2>5. i - e < p
    BY <1>7, <1>14, <2>3, <2>4
  <2>6. i - e \in 1 .. p - 1
    BY <1>6, <1>7, <2>3, <2>5
  <2>7. QED BY <1>9, <2>4, <2>6 DEF Elements
<1>15. Elements(d) = {a \in Elements(v) : a.start <= hi /\ a.end >= lo}
  <2>1. Elements(d) \subseteq {a \in Elements(v) : a.start <= hi /\ a.end >= lo}
    BY <1>13 DEF Elements
  <2>2. QED BY <1>14, <2>1
<1>16. QED BY <1>4, <1>9, <1>11, <1>12, <1>15

\* In every state the canvas draws, of a row in which nothing contains another
\* and a view inside the rolling window, exactly what overlaps the view, once
\* and in start order (AnnotationStore::visit).
THEOREM VisitsAreExact == AnnSpec => []VisitExact
<1>1. AnnInv => VisitExact
  <2> SUFFICES ASSUME AnnInv, NEW k \in RowKeys, Unnested(k),
                      NEW lo \in Times, NEW hi \in Times, trimmed <= lo, lo <= hi
               PROVE  LET v == Visit(k, lo, hi)
                      IN  /\ ToSet(v) = Overlapping(k, lo, hi)
                          /\ Len(v) = Cardinality(ToSet(v))
                          /\ \A i \in 1 .. Len(v) - 1 : v[i].start <= v[i + 1].start
    BY DEF VisitExact
  <2> DEFINE d == Visit(k, lo, hi)
  <2>1. lo \in Nat /\ hi \in Nat /\ trimmed \in Nat
    BY AnnotationAssumption DEF AnnInv
  <2>2. RowOK(rows[k], added[k], adds, trimmed)
    BY DEF AnnInv
  <2>3. /\ rows[k] \in Seq(Anns) /\ Sorted(rows[k]) /\ Distinct(rows[k])
        /\ Elements(rows[k]) \subseteq added[k] /\ added[k] \subseteq Anns
        /\ \A a \in added[k] : a.start <= a.end
        /\ \A a \in added[k] : a.end >= trimmed => a \in Elements(rows[k])
    BY <2>2 DEF RowOK
  <2>4. \A i \in 1 .. Len(rows[k]) : rows[k][i] \in added[k]
    BY <2>3 DEF Elements
  <2>5. \A i \in 1 .. Len(rows[k]) : rows[k][i].start <= rows[k][i].end
    BY <2>3, <2>4
  <2>6. \A i, j \in 1 .. Len(rows[k]) :
            rows[k][i].start <= rows[k][j].start => rows[k][i].end <= rows[k][j].end
    BY <2>4 DEF Unnested
  <2>7. /\ d \in Seq(Anns) /\ Sorted(d) /\ Distinct(d)
        /\ Elements(d) = {a \in Elements(rows[k]) : a.start <= hi /\ a.end >= lo}
    BY <2>1, <2>3, <2>5, <2>6, VisitIs
  <2> HIDE DEF d
  <2>8. Len(d) \in Nat /\ DOMAIN d = 1 .. Len(d)
    BY <2>7, RowTypes
  <2>9. ToSet(d) = Elements(d)
    BY <2>8 DEF ToSet, Elements
  <2>10. Elements(d) = Overlapping(k, lo, hi)
    <3>1. ASSUME NEW a \in added[k], a.end >= lo PROVE a \in Elements(rows[k])
      <4>1. a.end \in Nat
        BY <2>3 DEF Anns
      <4>2. a.end >= trimmed
        BY <2>1, <3>1, <4>1
      <4>3. QED BY <2>3, <4>2
    <3>2. QED BY <2>3, <2>7, <3>1 DEF Overlapping
  <2>11. Len(d) = Cardinality(ToSet(d))
    BY <2>7, DistinctCount
  <2>12. ASSUME NEW i \in 1 .. Len(d) - 1 PROVE d[i].start <= d[i + 1].start
    <3>1. i \in 1 .. Len(d) /\ i + 1 \in 1 .. Len(d) /\ i <= i + 1
      BY <2>8
    <3>2. QED BY <2>7, <3>1 DEF Sorted
  <2>13. QED BY <2>9, <2>10, <2>11, <2>12 DEF d
<1>2. QED BY <1>1, AnnotationInvariant, PTL
=============================================================================
