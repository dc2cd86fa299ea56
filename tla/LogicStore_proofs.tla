-------------------------- MODULE LogicStore_proofs --------------------------
(***************************************************************************)
(* Proofs about LogicStore, for every size of its tables, every number of   *)
(* pyramid levels, every window and every sequence of frames.               *)
(***************************************************************************)
EXTENDS LogicStore, TLAPS

-----------------------------------------------------------------------------
(* Division, and the blocks it makes.                                      *)

LEMMA DivBounds ==
    ASSUME NEW a \in Nat, NEW k \in Nat \ {0}
    PROVE  /\ a \div k \in Nat
           /\ k * (a \div k) <= a /\ a < k * (a \div k) + k
OBVIOUS

LEMMA TimesMonotone ==
    ASSUME NEW k \in Nat, NEW a \in Nat, NEW b \in Nat, a <= b
    PROVE  k * a <= k * b
OBVIOUS

LEMMA DivMonotone ==
    ASSUME NEW k \in Nat \ {0}, NEW a \in Nat, NEW b \in Nat, a <= b
    PROVE  a \div k <= b \div k
<1> DEFINE p == a \div k
<1> DEFINE q == b \div k
<1>1. p \in Nat /\ q \in Nat /\ k * p <= a /\ b < k * q + k
  BY DivBounds
<1>2. SUFFICES ASSUME q < p PROVE FALSE
  BY <1>1
<1> HIDE DEF p, q
<1>3. k * (q + 1) <= k * p
  BY <1>1, <1>2, TimesMonotone
<1>4. k * (q + 1) = k * q + k
  BY <1>1
<1>5. QED
  BY <1>1, <1>3, <1>4

\* A sample is below the capacity exactly when its slot is in the table.
LEMMA DivBelow ==
    ASSUME NEW k \in Nat \ {0}, NEW n \in Nat \ {0}, NEW a \in Nat
    PROVE  a < k * n <=> a \div k < n
<1> DEFINE p == a \div k
<1>1. p \in Nat /\ k * p <= a /\ a < k * p + k
  BY DivBounds
<1> HIDE DEF p
<1>2. CASE p < n
  <2>1. k * (p + 1) <= k * n
    BY <1>1, <1>2, TimesMonotone
  <2>2. k * (p + 1) = k * p + k /\ k * n \in Nat
    BY <1>1
  <2>3. QED
    BY <2>1, <2>2, <1>1, <1>2 DEF p
<1>3. CASE n <= p
  <2>1. k * n <= k * p
    BY <1>3, <1>1, TimesMonotone
  <2>2. k * n \in Nat /\ k * p \in Nat
    BY <1>1
  <2>3. QED
    BY <2>1, <2>2, <1>1, <1>3 DEF p
<1>4. QED
  BY <1>1, <1>2, <1>3

LEMMA CapacityNat == Capacity \in Nat \ {0}
<1>1. \A m, n \in Nat \ {0} : m * n \in Nat \ {0}
  OBVIOUS
<1>2. QED
  BY <1>1, StoreAssumption DEF Capacity

LEMMA SlotFacts ==
    /\ \A s \in Nat : Slot(s) \in Nat
    /\ \A s, t \in Nat : s <= t => Slot(s) <= Slot(t)
    /\ \A s \in Nat : s < Capacity <=> Slot(s) < SLOTS
<1>1. \A s \in Nat : Slot(s) \in Nat
  BY DivBounds, StoreAssumption DEF Slot
<1>2. \A s, t \in Nat : s <= t => Slot(s) <= Slot(t)
  BY DivMonotone, StoreAssumption DEF Slot
<1>3. \A s \in Nat : s < Capacity <=> Slot(s) < SLOTS
  BY DivBelow, StoreAssumption DEF Slot, Capacity
<1>4. QED
  BY <1>1, <1>2, <1>3

LEMMA SamplesAre == \A s : s \in Samples <=> s \in Nat /\ s < Capacity
BY CapacityNat DEF Samples

\* The number of the block of level l a sample is in.
LEMMA BlockFacts ==
    ASSUME NEW l \in Levels
    PROVE  /\ BlockSize[l] \in Nat \ {0}
           /\ \A s \in Nat : s \div BlockSize[l] \in Nat
           /\ \A s, t \in Nat : s <= t => s \div BlockSize[l] <= t \div BlockSize[l]
<1>1. BlockSize[l] \in Nat \ {0}
  BY BlockAssumption
<1>2. \A s \in Nat : s \div BlockSize[l] \in Nat
  BY <1>1, DivBounds
<1>3. \A s, t \in Nat : s <= t => s \div BlockSize[l] <= t \div BlockSize[l]
  BY <1>1, DivMonotone
<1>4. QED
  BY <1>1, <1>2, <1>3

\* Samples that share a block share every larger one.
LEMMA CellsNest ==
    ASSUME NEW k \in Levels, NEW l \in Levels, k <= l,
           NEW s \in Samples, NEW t \in Samples, Cell(k, s) = Cell(k, t)
    PROVE  Cell(l, s) = Cell(l, t)
<1>1. s \div BlockSize[k] = t \div BlockSize[k]
  BY DEF Cell
<1>2. s \div BlockSize[l] = t \div BlockSize[l]
  BY <1>1, BlockAssumption
<1>3. QED
  BY <1>2 DEF Cell

LEMMA CellType ==
    ASSUME NEW l \in Levels, NEW s \in Samples
    PROVE  Cell(l, s) \in Levels \X Nat
<1>1. s \div BlockSize[l] \in Nat
  BY BlockFacts, SamplesAre
<1>2. QED
  BY <1>1 DEF Cell

\* Cells of different levels differ.
LEMMA CellLevel ==
    ASSUME NEW k \in Levels, NEW l \in Levels, NEW s \in Samples,
           NEW t \in Samples, Cell(k, s) = Cell(l, t)
    PROVE  k = l
BY DEF Cell

-----------------------------------------------------------------------------
(* The inductive invariant.                                                *)

\* Who holds the lock.
Locks ==
    /\ lock = "reader" <=> upc \in {"walk", "walked"}
    /\ lock = "writer" <=> wpc \in {"trimming", "resetting"}

\* The samples held begin at Start and end before End, whatever the writer is
\* in the middle of.
Start == IF wpc = "trimming" THEN NewFirstLive ELSE firstLive
End   == IF wpc = "append" THEN frame.at ELSE writtenEnd
Known == IF wpc = "append" THEN frame.from ELSE next

\* How the counters are ordered.
Ordered ==
    /\ count = writtenEnd /\ firstLive <= writtenEnd /\ writtenEnd <= next
    /\ wpc \in {"trim", "trimming"} =>
           maxSamples # 0 /\ maxSamples < writtenEnd - firstLive
    /\ wpc = "append" =>
           /\ writtenEnd <= frame.from /\ frame.from <= frame.at
           /\ frame.at + frame.left = next
           /\ frame.at > frame.from => frame.at <= Capacity

\* What has not arrived is what was lost, or beyond the capacity.
Missing ==
    /\ \A s \in lost : s < Known
    /\ \A s \in Samples : writtenEnd <= s /\ s < Known => s \in lost
    /\ writtenEnd > 0 => writtenEnd - 1 \notin lost

\* A store that a sample fell off says so, and asks an unbounded capture to stop.
Overflow ==
    Known > Capacity => full /\ (maxSamples = 0 => stopped)

\* Every sample held has its chunk.
Kept ==
    wpc # "resetting" =>
        \A s \in Samples : Start <= s /\ s < End /\ s \notin lost => Slot(s) \in chunks

\* Nothing but what was appended is in a chunk.
Clean ==
    /\ \A s \in Samples : Slot(s) \notin chunks => word[s] = 0
    /\ \A s \in Samples : s \in lost \/ s >= End => word[s] = 0

\* The level append() compares the next sample with is the one before it.
Before ==
    wpc = "append" =>
        IF frame.prev = -1
        THEN /\ frame.at = frame.from
             /\ \/ frame.from = 0
                \/ frame.from - 1 \in lost
                \/ frame.from - 1 < firstLive
                \/ frame.from - 1 >= Capacity
        ELSE /\ frame.at > 0
             /\ frame.at - 1 \in Samples => word[frame.at - 1] = frame.prev

\* A set flag is set at every level above: set_transition may stop at it.
Closed ==
    \A s \in Samples, k, l \in Levels :
        Start <= s /\ k <= l /\ Cell(k, s) \in flags => Cell(l, s) \in flags

\* Around every transition held all flags are set.
Flagged ==
    wpc # "resetting" =>
        \A s \in Samples, l \in Levels :
            Start < s /\ s < End /\ Clear(s) /\ word[s] # word[s - 1]
                => Cell(l, s) \in flags

\* A walk has found what there is to find below its cursor.
Walks ==
    upc \in {"walk", "walked"} =>
        /\ firstLive <= view.lo /\ view.lo < view.hi /\ view.hi <= count
        /\ \A s \in view.out : /\ s \in view.lo + 1 .. view.hi - 1
                               /\ Bit(s) # Bit(s - 1)
        /\ \A s \in view.lo + 1 .. view.hi - 1 :
               s \div BlockSize[view.top] < view.at /\ Clear(s) /\ word[s] # word[s - 1]
                   => s \in view.out
        /\ upc = "walked" => (view.hi - 1) \div BlockSize[view.top] < view.at

\* A copy that no chunk was freed under has what there is below its cursor.
Copies ==
    upc \in {"copy", "copied"} =>
        /\ chunks # {} /\ view.lo <= view.at /\ view.at <= view.hi
        /\ view.hi <= writtenEnd
        /\ view.out = {s \in view.lo .. view.at - 1 : word[s] = 1}
        /\ upc = "copied" => view.at = view.hi

-----------------------------------------------------------------------------
(* What a thread leaves alone.                                             *)

LEMMA ReaderLeaves ==
    Reader => UNCHANGED << store, maxSamples, wpc, frame, next, stopped, ghosts >>
BY DEF Reader, WalkBegin, WalkBlock, WalkEnd, CopyBegin, CopyChunk, CopyEnd

-----------------------------------------------------------------------------
(* Types.                                                                  *)

FlagsTyped ==
    /\ full \in BOOLEAN /\ stopped \in BOOLEAN /\ dropped \in BOOLEAN

TablesTyped ==
    /\ chunks \subseteq 0 .. SLOTS - 1
    /\ word \in [Samples -> 0 .. 1]
    /\ flags \subseteq Levels \X Nat
    /\ gaps \subseteq Nat

CountersTyped ==
    /\ writtenEnd \in 0 .. Capacity /\ count \in 0 .. Capacity
    /\ firstLive \in 0 .. Capacity /\ maxSamples \in Windows
    /\ wpc \in {"idle", "append", "trim", "trimming", "resetting"}
    /\ next \in Nat /\ lost \subseteq Nat /\ resets \in Nat

FrameTyped ==
    frame \in [from : Nat, at : Nat, left : Nat, prev : -1 .. 1]

ReaderTyped ==
    /\ lock \in {"none", "reader", "writer"}
    /\ upc \in {"idle", "walk", "walked", "copy", "copied", "torn"}
    /\ view \in [lo : Nat, hi : Nat, top : Levels, at : Nat, out : SUBSET Nat]

\* The types of the writer's variables and the order of its counters.
Store == TablesTyped /\ CountersTyped /\ FrameTyped /\ Ordered

\* The flags are Boolean.
LEMMA FlagsType == Spec => []FlagsTyped
<1>1. Init => FlagsTyped
  BY Zenon DEF Init, FlagsTyped
<1>2. FlagsTyped /\ [Next]_vars => FlagsTyped'
  <2> SUFFICES ASSUME FlagsTyped, [Next]_vars
               PROVE  FlagsTyped'
    OBVIOUS
  <2> USE DEF FlagsTyped
  <2>1. ASSUME NEW n \in 1 .. MaxFrame, LoseFrame(n)
       PROVE  FlagsTyped'
    BY Zenon, <2>1 DEF LoseFrame, store, ghosts
  <2>2. ASSUME NEW n \in 1 .. MaxFrame, BeginAppend(n)
       PROVE  FlagsTyped'
    BY Zenon, <2>2 DEF BeginAppend, store, ghosts
  <2>3. ASSUME NEW v \in 0 .. 1, AppendSample(v)
       PROVE  FlagsTyped'
    BY Zenon, <2>3 DEF AppendSample, store, ghosts
  <2>4. ASSUME Publish PROVE FlagsTyped'
    BY Zenon, <2>4 DEF Publish, store, ghosts
  <2>5. ASSUME Lock("trim", "trimming") PROVE FlagsTyped'
    BY Zenon, <2>5 DEF Lock, store, ghosts
  <2>6. ASSUME Lock("idle", "resetting") PROVE FlagsTyped'
    BY Zenon, <2>6 DEF Lock, store, ghosts
  <2>7. ASSUME FreeChunk PROVE FlagsTyped'
    BY Zenon, <2>7 DEF FreeChunk, store, ghosts
  <2>8. ASSUME TrimDone PROVE FlagsTyped'
    BY Zenon, <2>8 DEF TrimDone, store, ghosts
  <2>9. ASSUME NEW w \in Windows, ResetDone(w)
       PROVE  FlagsTyped'
    BY Zenon, <2>9 DEF ResetDone, store, ghosts
  <2>10. ASSUME Reader PROVE FlagsTyped'
    BY <2>10, Zenon, ReaderLeaves DEF store, ghosts
  <2>11. ASSUME UNCHANGED vars PROVE FlagsTyped'
    BY Zenon, <2>11 DEF vars, store, ghosts
  <2>12. QED
    BY <2>1, <2>2, <2>3, <2>4, <2>5, <2>6, <2>7, <2>8, <2>9, <2>10, <2>11 DEF
       Next, Writer
<1>3. QED
  BY <1>1, <1>2, PTL DEF Spec

\* The writer's variables.
LEMMA StoreInv == Spec => []Store
<1>1. Init => Store
  BY CapacityNat, StoreAssumption
     DEF Init, NoFrame, TablesTyped, CountersTyped, FrameTyped, Ordered, Store
<1>2. Store /\ [Next]_vars => Store'
  <2> SUFFICES ASSUME Store, [Next]_vars
               PROVE  Store'
    OBVIOUS
  <2>0. TablesTyped /\ CountersTyped /\ FrameTyped /\ Ordered
    BY DEF Store
  <2>1. ASSUME NEW n \in 1 .. MaxFrame, LoseFrame(n)
       PROVE  Store'
    <3>1. TablesTyped'
      BY <2>0, <2>1, StoreAssumption, CapacityNat
         DEF LoseFrame, TablesTyped, store, ghosts
    <3>2. CountersTyped'
      BY <2>0, <2>1, StoreAssumption, CapacityNat
         DEF LoseFrame, CountersTyped, store, ghosts
    <3>3. FrameTyped'
      BY <2>0, <2>1, StoreAssumption, CapacityNat
         DEF LoseFrame, FrameTyped, store, ghosts
    <3>4. Ordered'
      BY <2>0, <2>1, StoreAssumption, CapacityNat
         DEF LoseFrame, CountersTyped, FrameTyped, Ordered, store, ghosts
    <3>5. QED
      BY <3>1, <3>2, <3>3, <3>4 DEF Store
  <2>2. ASSUME NEW n \in 1 .. MaxFrame, BeginAppend(n)
       PROVE  Store'
    <3>1. TablesTyped'
      BY <2>0, <2>2 DEF BeginAppend, TablesTyped, CountersTyped
    <3>2. CountersTyped'
      BY <2>0, <2>2 DEF BeginAppend, CountersTyped, ghosts
    <3>3. FrameTyped'
      <4>1. next > 0 /\ ~(next > writtenEnd) => word[next - 1] \in 0 .. 1
        BY <2>0, SamplesAre, CapacityNat DEF TablesTyped, CountersTyped
      <4>2. QED
        BY <2>0, <2>2, <4>1 DEF BeginAppend, CountersTyped, FrameTyped
    <3>4. Ordered'
      BY <2>0, <2>2, StoreAssumption, CapacityNat
         DEF BeginAppend, CountersTyped, FrameTyped, Ordered, store, ghosts
    <3>5. QED
      BY <3>1, <3>2, <3>3, <3>4 DEF Store
  <2>3. ASSUME NEW v \in 0 .. 1, AppendSample(v)
       PROVE  Store'
    <3>1. frame.at \in Nat /\ Slot(frame.at) \in 0 .. SLOTS - 1 /\ frame.at \in Samples
      BY <2>0, <2>3, SlotFacts, SamplesAre, StoreAssumption
         DEF AppendSample, FrameTyped
    <3>2. TablesTyped'
      <4>1. chunks' \subseteq 0 .. SLOTS - 1
        <5>1. chunks' = chunks \cup {Slot(frame.at)}
          BY <2>0, <2>3 DEF AppendSample
        <5>2. QED
          BY <2>0, <2>0, <5>1, <3>1 DEF TablesTyped
      <4>2. word' \in [Samples -> 0 .. 1]
        BY <2>0, <2>3, <3>1 DEF AppendSample, TablesTyped
      <4>3. flags' \subseteq Levels \X Nat
        BY <2>0, <2>3, <3>1, CellType DEF AppendSample, Marked, TablesTyped
      <4>4. QED
        BY <2>0, <2>3, <4>1, <4>2, <4>3 DEF AppendSample, TablesTyped
    <3>3. CountersTyped'
      BY <2>0, <2>3, StoreAssumption, CapacityNat
         DEF AppendSample, CountersTyped, store, ghosts
    <3>4. FrameTyped'
      BY <2>0, <2>3, <3>1 DEF AppendSample, FrameTyped
    <3>5. Ordered'
      BY <2>0, <2>3, <3>1, SamplesAre, StoreAssumption, CapacityNat
         DEF AppendSample, TablesTyped, CountersTyped, FrameTyped, Ordered,
             store, ghosts
    <3>6. QED
      BY <3>2, <3>3, <3>4, <3>5 DEF Store
  <2>4. ASSUME Publish PROVE Store'
    <3>1. TablesTyped'
      BY <2>0, <2>4, StoreAssumption, CapacityNat
         DEF Publish, TablesTyped, store, ghosts
    <3>2. CountersTyped'
      BY <2>0, <2>4, CapacityNat
         DEF Publish, CountersTyped, FrameTyped, Ordered, Larger, store, ghosts
    <3>3. FrameTyped'
      BY <2>0, <2>4 DEF Publish, NoFrame, FrameTyped
    <3>4. Ordered'
      BY <2>0, <2>4, StoreAssumption, CapacityNat
         DEF Publish, CountersTyped, FrameTyped, Ordered, Larger, store, ghosts
    <3>5. QED
      BY <3>1, <3>2, <3>3, <3>4 DEF Store
  <2>5. ASSUME Lock("trim", "trimming") PROVE Store'
    <3>1. TablesTyped'
      BY <2>0, <2>5, StoreAssumption, CapacityNat
         DEF Lock, TablesTyped, store, ghosts
    <3>2. CountersTyped'
      BY <2>0, <2>5, StoreAssumption, CapacityNat
         DEF Lock, CountersTyped, store, ghosts
    <3>3. FrameTyped'
      BY <2>0, <2>5, StoreAssumption, CapacityNat
         DEF Lock, FrameTyped, store, ghosts
    <3>4. Ordered'
      BY <2>0, <2>5, StoreAssumption, CapacityNat
         DEF Lock, Ordered, store, ghosts
    <3>5. QED
      BY <3>1, <3>2, <3>3, <3>4 DEF Store
  <2>6. ASSUME Lock("idle", "resetting") PROVE Store'
    <3>1. TablesTyped'
      BY <2>0, <2>6, StoreAssumption, CapacityNat
         DEF Lock, TablesTyped, store, ghosts
    <3>2. CountersTyped'
      BY <2>0, <2>6, StoreAssumption, CapacityNat
         DEF Lock, CountersTyped, store, ghosts
    <3>3. FrameTyped'
      BY <2>0, <2>6, StoreAssumption, CapacityNat
         DEF Lock, FrameTyped, store, ghosts
    <3>4. Ordered'
      BY <2>0, <2>6, StoreAssumption, CapacityNat
         DEF Lock, Ordered, store, ghosts
    <3>5. QED
      BY <3>1, <3>2, <3>3, <3>4 DEF Store
  <2>7. ASSUME FreeChunk PROVE Store'
    <3>1. TablesTyped'
      BY <2>0, <2>7, StoreAssumption, CapacityNat
         DEF FreeChunk, TablesTyped, Dead, NewFirstLive, store, ghosts
    <3>2. CountersTyped'
      BY <2>0, <2>7, StoreAssumption, CapacityNat
         DEF FreeChunk, CountersTyped, Dead, NewFirstLive, store, ghosts
    <3>3. FrameTyped'
      BY <2>0, <2>7, StoreAssumption, CapacityNat
         DEF FreeChunk, FrameTyped, Dead, NewFirstLive, store, ghosts
    <3>4. Ordered'
      BY <2>0, <2>7, StoreAssumption, CapacityNat
         DEF FreeChunk, Ordered, Dead, NewFirstLive, store, ghosts
    <3>5. QED
      BY <3>1, <3>2, <3>3, <3>4 DEF Store
  <2>8. ASSUME TrimDone PROVE Store'
    <3>1. TablesTyped'
      BY <2>0, <2>8, StoreAssumption, CapacityNat
         DEF TrimDone, TablesTyped, NewFirstLive, store, ghosts
    <3>2. CountersTyped'
      BY <2>0, <2>8, StoreAssumption, CapacityNat
         DEF TrimDone, CountersTyped, Ordered, NewFirstLive, store, ghosts
    <3>3. FrameTyped'
      BY <2>0, <2>8, StoreAssumption, CapacityNat
         DEF TrimDone, FrameTyped, NewFirstLive, store, ghosts
    <3>4. Ordered'
      BY <2>0, <2>8, StoreAssumption, CapacityNat
         DEF TrimDone, CountersTyped, FrameTyped, Ordered, NewFirstLive, store,
             ghosts
    <3>5. QED
      BY <3>1, <3>2, <3>3, <3>4 DEF Store
  <2>9. ASSUME NEW w \in Windows, ResetDone(w)
       PROVE  Store'
    <3>1. TablesTyped'
      BY <2>0, <2>9, StoreAssumption, CapacityNat
         DEF ResetDone, TablesTyped, store, ghosts
    <3>2. CountersTyped'
      BY <2>0, <2>9, StoreAssumption, CapacityNat
         DEF ResetDone, CountersTyped, store, ghosts
    <3>3. FrameTyped'
      BY <2>0, <2>9 DEF ResetDone, NoFrame, FrameTyped
    <3>4. Ordered'
      BY <2>0, <2>9, StoreAssumption, CapacityNat
         DEF ResetDone, Ordered, store, ghosts
    <3>5. QED
      BY <3>1, <3>2, <3>3, <3>4 DEF Store
  <2>10. ASSUME Reader PROVE Store'
    BY <2>0, <2>10, ReaderLeaves DEF store, ghosts, Store,
       TablesTyped, CountersTyped, FrameTyped, Ordered
  <2>11. ASSUME UNCHANGED vars PROVE Store'
    BY <2>0, <2>11 DEF vars, store, ghosts, Store,
       TablesTyped, CountersTyped, FrameTyped, Ordered
  <2>12. QED
    BY <2>0, <2>1, <2>2, <2>3, <2>4, <2>5, <2>6, <2>7, <2>8, <2>9, <2>10, <2>11
       DEF
       Next, Writer
<1>3. QED
  BY <1>1, <1>2, PTL DEF Spec

-----------------------------------------------------------------------------
(* What is stored.                                                         *)

\* The lock is held by whoever says so.
LEMMA LocksInv == Spec => []Locks
<1>1. Init => Locks
  BY SMT, CapacityNat, StoreAssumption DEF Init, Locks, NoView, NoFrame
<1>2. Locks /\ [Next]_vars => Locks'
  <2> SUFFICES ASSUME Locks, [Next]_vars
               PROVE  Locks'
    OBVIOUS
  <2> USE DEF Locks
  <2>1. ASSUME NEW n \in 1 .. MaxFrame, LoseFrame(n)
       PROVE  Locks'
    BY SMT, <2>1 DEF LoseFrame, store, ghosts
  <2>2. ASSUME NEW n \in 1 .. MaxFrame, BeginAppend(n)
       PROVE  Locks'
    BY SMT, <2>2 DEF BeginAppend, store, ghosts
  <2>3. ASSUME NEW v \in 0 .. 1, AppendSample(v)
       PROVE  Locks'
    BY SMT, <2>3 DEF AppendSample, store, ghosts
  <2>4. ASSUME Publish PROVE Locks'
    BY SMT, <2>4 DEF Publish, store, ghosts
  <2>5. ASSUME Lock("trim", "trimming") PROVE Locks'
    BY SMT, <2>5 DEF Lock, store, ghosts
  <2>6. ASSUME Lock("idle", "resetting") PROVE Locks'
    BY SMT, <2>6 DEF Lock, store, ghosts
  <2>7. ASSUME FreeChunk PROVE Locks'
    BY SMT, <2>7 DEF FreeChunk, Dead, NewFirstLive, store, ghosts
  <2>8. ASSUME TrimDone PROVE Locks'
    BY SMT, <2>8 DEF TrimDone, NewFirstLive, store, ghosts
  <2>9. ASSUME NEW w \in Windows, ResetDone(w)
       PROVE  Locks'
    BY SMT, <2>9 DEF ResetDone, store, ghosts
  <2>10. ASSUME NEW first \in Samples, NEW last \in 1 .. Capacity,
                      NEW top \in Levels, WalkBegin(first, last, top)
       PROVE  Locks'
    BY SMT, <2>10 DEF WalkBegin, store, ghosts
  <2>11. ASSUME WalkBlock PROVE Locks'
    BY SMT, <2>11 DEF WalkBlock, store, ghosts
  <2>12. ASSUME WalkEnd PROVE Locks'
    BY SMT, <2>12 DEF WalkEnd, store, ghosts
  <2>13. ASSUME CopyBegin PROVE Locks'
    BY SMT, <2>13 DEF CopyBegin, store, ghosts
  <2>14. ASSUME CopyChunk PROVE Locks'
    BY SMT, <2>14 DEF CopyChunk, store, ghosts
  <2>15. ASSUME CopyEnd PROVE Locks'
    BY SMT, <2>15 DEF CopyEnd, store, ghosts
  <2>16. ASSUME UNCHANGED vars PROVE Locks'
    BY <2>16 DEF vars, store, ghosts
  <2>17. QED
    BY <2>1, <2>2, <2>3, <2>4, <2>5, <2>6, <2>7, <2>8, <2>9, <2>10, <2>11,
       <2>12, <2>13, <2>14, <2>15, <2>16 DEF Next, Writer, Reader
<1>3. QED
  BY <1>1, <1>2, PTL DEF Spec

\* Publish, in one place: a run of which something is left met the capacity.
LEMMA PublishEnd ==
    ASSUME Store, Publish
    PROVE  /\ frame.left > 0 => frame.at >= Capacity
           /\ writtenEnd' = IF frame.at > frame.from THEN frame.at ELSE writtenEnd
           /\ wpc = "append" /\ wpc' \in {"idle", "trim"} /\ next' = next
<1>1. frame.left > 0 => frame.at >= Capacity
  BY SlotFacts, CapacityNat, StoreAssumption DEF Store, FrameTyped, Publish
<1>2. QED
  BY <1>1, CapacityNat
     DEF Store, CountersTyped, FrameTyped, Ordered, Publish, Larger

\* What has not arrived was lost.
LEMMA MissingInv == Spec => []Missing
<1>1. Init => Missing
  BY SamplesAre, CapacityNat DEF Init, Missing, Known
<1>2. Missing /\ Store /\ [Next]_vars => Missing'
  <2> SUFFICES ASSUME Missing, Store, [Next]_vars
               PROVE  Missing'
    OBVIOUS
  <2> USE DEF Missing, Store, CountersTyped, FrameTyped, Ordered, Known
  <2>1. ASSUME NEW n \in 1 .. MaxFrame, LoseFrame(n)
       PROVE  Missing'
    BY SMT, <2>1, SamplesAre, CapacityNat DEF LoseFrame, store, ghosts
  <2>2. ASSUME NEW n \in 1 .. MaxFrame, BeginAppend(n)
       PROVE  Missing'
    BY SMT, <2>2, SamplesAre, CapacityNat DEF BeginAppend, store, ghosts
  <2>3. ASSUME NEW v \in 0 .. 1, AppendSample(v)
       PROVE  Missing'
    BY SMT, <2>3, SamplesAre, CapacityNat DEF AppendSample, store, ghosts
  <2>4. ASSUME Publish PROVE Missing'
    BY <2>4, PublishEnd, CapacityNat, SamplesAre DEF Publish
  <2>5. ASSUME Lock("trim", "trimming") PROVE Missing'
    BY SMT, <2>5, SamplesAre, CapacityNat DEF Lock, store, ghosts
  <2>6. ASSUME Lock("idle", "resetting") PROVE Missing'
    BY SMT, <2>6, SamplesAre, CapacityNat DEF Lock, store, ghosts
  <2>7. ASSUME FreeChunk PROVE Missing'
    BY SMT, <2>7, SamplesAre, CapacityNat
       DEF FreeChunk, Dead, NewFirstLive, store, ghosts
  <2>8. ASSUME TrimDone PROVE Missing'
    BY SMT, <2>8, SamplesAre, CapacityNat
       DEF TrimDone, NewFirstLive, store, ghosts
  <2>9. ASSUME NEW w \in Windows, ResetDone(w)
       PROVE  Missing'
    BY SMT, <2>9, SamplesAre, CapacityNat DEF ResetDone, store, ghosts
  <2>10. ASSUME Reader PROVE Missing'
    BY <2>10, ReaderLeaves DEF store, ghosts
  <2>11. ASSUME UNCHANGED vars PROVE Missing'
    BY <2>11 DEF vars, store, ghosts, Known
  <2>12. QED
    BY <2>1, <2>2, <2>3, <2>4, <2>5, <2>6, <2>7, <2>8, <2>9, <2>10, <2>11 DEF
       Next, Writer
<1>3. QED
  BY <1>1, <1>2, StoreInv, PTL DEF Spec

\* What falls off the capacity is noted.
LEMMA OverflowInv == Spec => []Overflow
<1>1. Init => Overflow
  BY SMT, CapacityNat, StoreAssumption
     DEF Init, Overflow, Store, CountersTyped, FrameTyped, Ordered, FlagsTyped,
         Known, NoView, NoFrame
<1>2. Overflow /\ FlagsTyped /\ Store /\ [Next]_vars => Overflow'
  <2> SUFFICES ASSUME Overflow, FlagsTyped, Store, [Next]_vars
               PROVE  Overflow'
    OBVIOUS
  <2> USE
     DEF Overflow, Store, CountersTyped, FrameTyped, Ordered, FlagsTyped, Known
  <2>1. ASSUME NEW n \in 1 .. MaxFrame, LoseFrame(n)
       PROVE  Overflow'
    BY SMT, <2>1, CapacityNat DEF LoseFrame, store, ghosts
  <2>2. ASSUME NEW n \in 1 .. MaxFrame, BeginAppend(n)
       PROVE  Overflow'
    BY SMT, <2>2, CapacityNat DEF BeginAppend, store, ghosts
  <2>3. ASSUME NEW v \in 0 .. 1, AppendSample(v)
       PROVE  Overflow'
    BY SMT, <2>3, CapacityNat DEF AppendSample, store, ghosts
  <2>4. ASSUME Publish PROVE Overflow'
    <3>1. Known' > Capacity => full'
      <4>1. CASE frame.left > 0
        BY <2>4, <4>1 DEF Publish
      <4>2. CASE ~(frame.left > 0)
        BY <2>4, <4>2, PublishEnd, CapacityNat DEF Publish
      <4>3. QED
        BY <4>1, <4>2
    <3>2. full' /\ maxSamples' = 0 => stopped'
      BY <2>4 DEF Publish
    <3>3. QED
      BY <3>1, <3>2 DEF Overflow
  <2>5. ASSUME Lock("trim", "trimming") PROVE Overflow'
    BY SMT, <2>5, CapacityNat DEF Lock, store, ghosts
  <2>6. ASSUME Lock("idle", "resetting") PROVE Overflow'
    BY SMT, <2>6, CapacityNat DEF Lock, store, ghosts
  <2>7. ASSUME FreeChunk PROVE Overflow'
    BY SMT, <2>7, CapacityNat DEF FreeChunk, Dead, NewFirstLive, store, ghosts
  <2>8. ASSUME TrimDone PROVE Overflow'
    BY SMT, <2>8, CapacityNat DEF TrimDone, NewFirstLive, store, ghosts
  <2>9. ASSUME NEW w \in Windows, ResetDone(w)
       PROVE  Overflow'
    BY SMT, <2>9, CapacityNat DEF ResetDone, store, ghosts
  <2>10. ASSUME Reader PROVE Overflow'
    BY <2>10, ReaderLeaves DEF store, ghosts
  <2>11. ASSUME UNCHANGED vars PROVE Overflow'
    BY <2>11 DEF vars, store, ghosts, Known
  <2>12. QED
    BY <2>1, <2>2, <2>3, <2>4, <2>5, <2>6, <2>7, <2>8, <2>9, <2>10, <2>11 DEF
       Next, Writer
<1>3. QED
  BY <1>1, <1>2, FlagsType, StoreInv, PTL DEF Spec

\* Every sample held has its chunk.
LEMMA KeptInv == Spec => []Kept
<1>1. Init => Kept
  BY SamplesAre, CapacityNat DEF Init, Kept, Start, End
<1>2. Kept /\ Missing /\ Store /\ [Next]_vars => Kept'
  <2> SUFFICES ASSUME Kept, Missing, Store, [Next]_vars
               PROVE  Kept'
    OBVIOUS
  <2> USE
     DEF Kept, Store, CountersTyped, FrameTyped, Ordered, TablesTyped, Missing,
         Known, Start, End, NewFirstLive
  <2>1. ASSUME NEW n \in 1 .. MaxFrame, LoseFrame(n)
       PROVE  Kept'
    BY SMT, <2>1, SamplesAre, CapacityNat, SlotFacts, StoreAssumption
       DEF LoseFrame, store, ghosts
  <2>2. ASSUME NEW n \in 1 .. MaxFrame, BeginAppend(n)
       PROVE  Kept'
    BY SMT, <2>2, SamplesAre, CapacityNat, SlotFacts, StoreAssumption
       DEF BeginAppend, store, ghosts
  <2>3. ASSUME NEW v \in 0 .. 1, AppendSample(v)
       PROVE  Kept'
    <3>1. /\ wpc = "append" /\ wpc' = wpc /\ frame'.at = frame.at + 1
          /\ chunks' = chunks \cup {Slot(frame.at)}
          /\ firstLive' = firstLive /\ lost' = lost
      BY <2>3 DEF AppendSample, ghosts
    <3>2. QED
      BY <3>1, SamplesAre
  <2>4. ASSUME Publish PROVE Kept'
    <3>1. /\ wpc' \in {"idle", "trim"} /\ chunks' = chunks
          /\ firstLive' = firstLive /\ lost' = lost
      BY <2>4 DEF Publish
    <3>2. QED
      BY <2>4, <3>1, PublishEnd, SamplesAre
  <2>5. ASSUME Lock("trim", "trimming") PROVE Kept'
    BY SMT, <2>5, SamplesAre, CapacityNat, SlotFacts, StoreAssumption
       DEF Lock, store, ghosts
  <2>6. ASSUME Lock("idle", "resetting") PROVE Kept'
    BY SMT, <2>6, SamplesAre, CapacityNat, SlotFacts, StoreAssumption
       DEF Lock, store, ghosts
  <2>7. ASSUME FreeChunk PROVE Kept'
    BY SMT, <2>7, SamplesAre, CapacityNat, SlotFacts, StoreAssumption
       DEF FreeChunk, Dead, NewFirstLive, store, ghosts
  <2>8. ASSUME TrimDone PROVE Kept'
    BY SMT, <2>8, SamplesAre, CapacityNat, SlotFacts, StoreAssumption
       DEF TrimDone, NewFirstLive, store, ghosts
  <2>9. ASSUME NEW w \in Windows, ResetDone(w)
       PROVE  Kept'
    BY SMT, <2>9, SamplesAre, CapacityNat, SlotFacts, StoreAssumption
       DEF ResetDone, store, ghosts
  <2>10. ASSUME Reader PROVE Kept'
    BY <2>10, ReaderLeaves DEF store, ghosts
  <2>11. ASSUME UNCHANGED vars PROVE Kept'
    BY <2>11 DEF vars, store, ghosts
  <2>12. QED
    BY <2>1, <2>2, <2>3, <2>4, <2>5, <2>6, <2>7, <2>8, <2>9, <2>10, <2>11 DEF
       Next, Writer
<1>3. QED
  BY <1>1, <1>2, MissingInv, StoreInv, PTL DEF Spec

\* Nothing but what was appended is in a chunk.
LEMMA CleanInv == Spec => []Clean
<1>1. Init => Clean
  BY SMT, CapacityNat, StoreAssumption
     DEF Init, Clean, Store, CountersTyped, FrameTyped, Ordered, TablesTyped,
         Missing, Known, End, NoView, NoFrame
<1>2. Clean /\ Missing /\ Store /\ [Next]_vars => Clean'
  <2> SUFFICES ASSUME Clean, Missing, Store, [Next]_vars
               PROVE  Clean'
    OBVIOUS
  <2> USE
     DEF Clean, Store, CountersTyped, FrameTyped, Ordered, TablesTyped,
         Missing, Known, End
  <2>1. ASSUME NEW n \in 1 .. MaxFrame, LoseFrame(n)
       PROVE  Clean'
    BY SMT, <2>1, SamplesAre, CapacityNat, SlotFacts, StoreAssumption
       DEF LoseFrame, store, ghosts
  <2>2. ASSUME NEW n \in 1 .. MaxFrame, BeginAppend(n)
       PROVE  Clean'
    BY SMT, <2>2, SamplesAre, CapacityNat, SlotFacts, StoreAssumption
       DEF BeginAppend, store, ghosts
  <2>3. ASSUME NEW v \in 0 .. 1, AppendSample(v)
       PROVE  Clean'
    BY SMT, <2>3, SamplesAre, CapacityNat, SlotFacts, StoreAssumption
       DEF AppendSample, store, ghosts
  <2>4. ASSUME Publish PROVE Clean'
    <3>1. /\ wpc' \in {"idle", "trim"} /\ chunks' = chunks
          /\ word' = word /\ lost' = lost
      BY <2>4 DEF Publish
    <3>2. QED
      BY <2>4, <3>1, PublishEnd, SamplesAre
  <2>5. ASSUME Lock("trim", "trimming") PROVE Clean'
    BY SMT, <2>5, SamplesAre, CapacityNat, SlotFacts, StoreAssumption
       DEF Lock, store, ghosts
  <2>6. ASSUME Lock("idle", "resetting") PROVE Clean'
    BY SMT, <2>6, SamplesAre, CapacityNat, SlotFacts, StoreAssumption
       DEF Lock, store, ghosts
  <2>7. ASSUME FreeChunk PROVE Clean'
    BY SMT, <2>7, SamplesAre, CapacityNat, SlotFacts, StoreAssumption
       DEF FreeChunk, Dead, NewFirstLive, store, ghosts
  <2>8. ASSUME TrimDone PROVE Clean'
    BY SMT, <2>8, SamplesAre, CapacityNat, SlotFacts, StoreAssumption
       DEF TrimDone, NewFirstLive, store, ghosts
  <2>9. ASSUME NEW w \in Windows, ResetDone(w)
       PROVE  Clean'
    <3>1. chunks = {}
      BY <2>9 DEF ResetDone, Dead
    <3>2. QED
      BY <2>9, <3>1 DEF ResetDone
  <2>10. ASSUME Reader PROVE Clean'
    BY <2>10, ReaderLeaves DEF store, ghosts
  <2>11. ASSUME UNCHANGED vars PROVE Clean'
    BY <2>11 DEF vars, store, ghosts
  <2>12. QED
    BY <2>1, <2>2, <2>3, <2>4, <2>5, <2>6, <2>7, <2>8, <2>9, <2>10, <2>11 DEF
       Next, Writer
<1>3. QED
  BY <1>1, <1>2, MissingInv, StoreInv, PTL DEF Spec

-----------------------------------------------------------------------------
(* The flags.                                                              *)

\* After set_transition every block around s is flagged.
LEMMA MarkedAll ==
    ASSUME Closed, NEW s \in Samples, NEW l \in Levels, Start <= s
    PROVE  Cell(l, s) \in flags \cup Marked(s)
<1>1. CASE \E k \in 0 .. l : Cell(k, s) \in flags
  <2>1. PICK k \in 0 .. l : Cell(k, s) \in flags
    BY <1>1
  <2>2. k \in Levels /\ k <= l
    BY StoreAssumption DEF Levels
  <2>3. QED
    BY <2>1, <2>2 DEF Closed
<1>2. CASE \A k \in 0 .. l : Cell(k, s) \notin flags
  BY <1>2 DEF Marked
<1>3. QED
  BY <1>1, <1>2

\* What append() compares the next sample with.
LEMMA BeforeInv == Spec => []Before
<1>1. Init => Before
  BY SMT, CapacityNat, StoreAssumption
     DEF Init, Before, Store, CountersTyped, FrameTyped, Ordered, TablesTyped,
         Missing, Kept, Known, Start, End, NoView, NoFrame
<1>2. Before /\ Missing /\ Kept /\ Clean /\ Store /\ [Next]_vars => Before'
  <2> SUFFICES ASSUME Before, Missing, Kept, Clean, Store, [Next]_vars
               PROVE  Before'
    OBVIOUS
  <2> USE
     DEF Before, Store, CountersTyped, FrameTyped, Ordered, TablesTyped,
         Missing, Kept, Known, Start, End
  <2>1. ASSUME NEW n \in 1 .. MaxFrame, LoseFrame(n)
       PROVE  Before'
    BY SMT, <2>1 DEF LoseFrame, store, ghosts
  <2>2. ASSUME NEW n \in 1 .. MaxFrame, BeginAppend(n)
       PROVE  Before'
    <3>1. CASE next > 0 /\ ~(next > writtenEnd) /\ Slot(next - 1) \in chunks
      <4>1. frame'.prev = word[next - 1] /\ frame'.at = next
        BY <2>2, <3>1 DEF BeginAppend
      <4>2. word' = word /\ next - 1 \in Samples /\ word[next - 1] # -1
        BY <2>2, <3>1, SamplesAre, CapacityNat DEF BeginAppend
      <4>3. QED
        BY <4>1, <4>2, <3>1
    <3>2. CASE ~(next > 0 /\ ~(next > writtenEnd) /\ Slot(next - 1) \in chunks)
      <4>1. /\ frame'.prev = -1 /\ frame'.at = next /\ frame'.from = next
            /\ lost' = lost /\ firstLive' = firstLive
        BY <2>2, <3>2 DEF BeginAppend, ghosts
      <4>2. \/ next = 0 \/ next - 1 >= Capacity
            \/ next - 1 \in Samples /\ next > 0
        BY SamplesAre, CapacityNat
      <4>3. CASE next - 1 \in Samples /\ next > 0
        <5>1. wpc = "idle"
          BY <2>2 DEF BeginAppend
        <5>2. CASE next > writtenEnd
          BY <4>1, <4>3, <5>1, <5>2, CapacityNat
        <5>3. CASE Slot(next - 1) \notin chunks /\ next = writtenEnd
          BY <4>1, <4>3, <5>1, <5>3, CapacityNat
        <5>4. QED
          BY <3>2, <4>3, <5>2, <5>3, CapacityNat
      <4>4. QED
        BY <4>1, <4>2, <4>3
    <3>3. QED
      BY <3>1, <3>2
  <2>3. ASSUME NEW v \in 0 .. 1, AppendSample(v)
       PROVE  Before'
    <3>1. /\ frame'.prev = v /\ frame'.at = frame.at + 1
          /\ word' = [word EXCEPT ![frame.at] = v]
      BY <2>3 DEF AppendSample
    <3>2. QED
      BY <3>1, SamplesAre
  <2>4. ASSUME Publish PROVE Before'
    BY SMT, <2>4 DEF Publish, store, ghosts
  <2>5. ASSUME Lock("trim", "trimming") PROVE Before'
    BY SMT, <2>5 DEF Lock, store, ghosts
  <2>6. ASSUME Lock("idle", "resetting") PROVE Before'
    BY SMT, <2>6 DEF Lock, store, ghosts
  <2>7. ASSUME FreeChunk PROVE Before'
    BY SMT, <2>7 DEF FreeChunk, Dead, NewFirstLive, store, ghosts
  <2>8. ASSUME TrimDone PROVE Before'
    BY SMT, <2>8 DEF TrimDone, NewFirstLive, store, ghosts
  <2>9. ASSUME NEW w \in Windows, ResetDone(w)
       PROVE  Before'
    BY SMT, <2>9 DEF ResetDone, store, ghosts
  <2>10. ASSUME Reader PROVE Before'
    BY <2>10, ReaderLeaves DEF store, ghosts
  <2>11. ASSUME UNCHANGED vars PROVE Before'
    BY <2>11 DEF vars, store, ghosts
  <2>12. QED
    BY <2>1, <2>2, <2>3, <2>4, <2>5, <2>6, <2>7, <2>8, <2>9, <2>10, <2>11 DEF
       Next, Writer
<1>3. QED
  BY <1>1, <1>2, MissingInv, KeptInv, CleanInv, StoreInv, PTL DEF Spec

\* A trim keeps the flags of every sample it keeps.
LEMMA TrimKeeps ==
    ASSUME Store, TrimDone, NEW s \in Samples, NEW l \in Levels,
           NewFirstLive <= s, Cell(l, s) \in flags
    PROVE  Cell(l, s) \in flags'
<1>1. NewFirstLive \in Nat /\ s \in Nat
  BY StoreAssumption, CapacityNat, SamplesAre
     DEF Store, CountersTyped, Ordered, TrimDone, NewFirstLive
<1> DEFINE b == s \div BlockSize[l]
<1> DEFINE n == NewFirstLive \div BlockSize[l]
<1>2. b \in Nat /\ n \in Nat /\ n <= b
  BY <1>1, BlockFacts
<1>3. n \div PCHUNK <= b \div PCHUNK /\ n \div PCHUNK \in Nat /\ b \div PCHUNK \in Nat
  BY <1>2, DivMonotone, DivBounds, StoreAssumption
<1>4. << l, b >> \in flags
  BY DEF Cell
<1>5. << l, b >> \in flags'
  BY <1>3, <1>4 DEF TrimDone
<1>6. QED
  BY <1>5 DEF Cell

\* set_transition may stop at a flag.
LEMMA ClosedInv == Spec => []Closed
<1>1. Init => Closed
  BY SMT, CapacityNat, StoreAssumption
     DEF Init, Closed, Store, CountersTyped, FrameTyped, Ordered, Start,
         NoView, NoFrame
<1>2. Closed /\ Store /\ [Next]_vars => Closed'
  <2> SUFFICES ASSUME Closed, Store, [Next]_vars
               PROVE  Closed'
    OBVIOUS
  <2> USE DEF Closed, Store, CountersTyped, FrameTyped, Ordered, Start
  <2>1. ASSUME NEW n \in 1 .. MaxFrame, LoseFrame(n)
       PROVE  Closed'
    BY SMT, <2>1 DEF LoseFrame, store, ghosts
  <2>2. ASSUME NEW n \in 1 .. MaxFrame, BeginAppend(n)
       PROVE  Closed'
    BY SMT, <2>2 DEF BeginAppend, store, ghosts
  <2>3. ASSUME NEW v \in 0 .. 1, AppendSample(v)
       PROVE  Closed'
    <3>1. /\ frame.at \in Samples /\ firstLive <= frame.at
          /\ wpc = "append" /\ wpc' = "append" /\ firstLive' = firstLive
      BY <2>3, SlotFacts, SamplesAre, CapacityNat DEF AppendSample
    <3>2. CASE frame.prev \in {-1, v}
      BY <2>3, <3>1, <3>2 DEF AppendSample
    <3>3. CASE frame.prev \notin {-1, v}
      <4>1. flags' = flags \cup Marked(frame.at)
        BY <2>3, <3>3 DEF AppendSample
      <4>2. SUFFICES ASSUME NEW s \in Samples, NEW k \in Levels, NEW l \in Levels,
                            firstLive <= s, k <= l, Cell(k, s) \in flags'
                     PROVE  Cell(l, s) \in flags'
        BY <3>1
      <4>3. CASE Cell(k, s) \in flags
        BY <3>1, <4>1, <4>2, <4>3
      <4>4. CASE Cell(k, s) \in Marked(frame.at)
        <5>1. PICK j \in Levels : Cell(k, s) = Cell(j, frame.at)
          BY <4>4 DEF Marked
        <5>2. Cell(k, s) = Cell(k, frame.at)
          BY <5>1, <3>1, CellLevel
        <5>3. Cell(l, s) = Cell(l, frame.at)
          BY <5>2, <4>2, <3>1, CellsNest
        <5>4. Cell(l, frame.at) \in flags'
          BY <4>1, <3>1, MarkedAll
        <5>5. QED
          BY <5>3, <5>4
      <4>5. QED
        BY <4>1, <4>2, <4>3, <4>4
    <3>4. QED
      BY <3>2, <3>3
  <2>4. ASSUME Publish PROVE Closed'
    BY SMT, <2>4 DEF Publish, store, ghosts
  <2>5. ASSUME Lock("trim", "trimming") PROVE Closed'
    <3>1. /\ wpc = "trim" /\ wpc' = "trimming" /\ firstLive' = firstLive
          /\ writtenEnd' = writtenEnd /\ maxSamples' = maxSamples /\ flags' = flags
      BY <2>5 DEF Lock, store
    <3>2. firstLive <= NewFirstLive /\ NewFirstLive' = NewFirstLive
      BY <3>1, StoreAssumption, CapacityNat DEF NewFirstLive
    <3>3. firstLive \in Nat /\ NewFirstLive \in Int
      BY StoreAssumption, CapacityNat DEF NewFirstLive
    <3>4. QED
      BY <3>1, <3>2, <3>3, SamplesAre
  <2>6. ASSUME Lock("idle", "resetting") PROVE Closed'
    BY SMT, <2>6 DEF Lock, store, ghosts
  <2>7. ASSUME FreeChunk PROVE Closed'
    BY SMT, <2>7 DEF FreeChunk, NewFirstLive, store, ghosts
  <2>8. ASSUME TrimDone PROVE Closed'
    <3>1. /\ wpc = "trimming" /\ wpc' = "idle" /\ firstLive' = NewFirstLive
          /\ flags' \subseteq flags
      BY <2>8 DEF TrimDone
    <3>2. ASSUME NEW s \in Samples, NEW l \in Levels, NewFirstLive <= s,
                 Cell(l, s) \in flags
          PROVE  Cell(l, s) \in flags'
      BY <2>8, <3>2, TrimKeeps
    <3>3. QED
      BY <3>1, <3>2
  <2>9. ASSUME NEW w \in Windows, ResetDone(w)
       PROVE  Closed'
    BY <2>9 DEF ResetDone
  <2>10. ASSUME Reader PROVE Closed'
    BY <2>10, SMT, ReaderLeaves DEF store, ghosts, NewFirstLive
  <2>11. ASSUME UNCHANGED vars PROVE Closed'
    BY SMT, <2>11 DEF vars, store, ghosts, NewFirstLive
  <2>12. QED
    BY <2>1, <2>2, <2>3, <2>4, <2>5, <2>6, <2>7, <2>8, <2>9, <2>10, <2>11 DEF
       Next, Writer
<1>3. QED
  BY <1>1, <1>2, StoreInv, PTL DEF Spec

\* Around every transition held all flags are set.
LEMMA FlaggedInv == Spec => []Flagged
<1>1. Init => Flagged
  BY SamplesAre, CapacityNat DEF Init, Flagged, Start, End
<1>2. Flagged /\ Before /\ Closed /\ Missing
      /\ Clean /\ Store /\ [Next]_vars
      => Flagged'
  <2> SUFFICES ASSUME Flagged, Before, Closed, Missing, Clean, Store, [Next]_vars
               PROVE  Flagged'
    OBVIOUS
  <2> USE
     DEF Flagged, Store, CountersTyped, FrameTyped, Ordered, TablesTyped,
         Before, Missing, Known, Start, End, Clear
  <2>1. ASSUME NEW n \in 1 .. MaxFrame, LoseFrame(n)
       PROVE  Flagged'
    BY SMT, <2>1, SamplesAre DEF LoseFrame, store, ghosts
  <2>2. ASSUME NEW n \in 1 .. MaxFrame, BeginAppend(n)
       PROVE  Flagged'
    <3>1. /\ wpc = "idle" /\ End = writtenEnd /\ End' = next /\ Start' = Start
          /\ lost' = lost /\ word' = word /\ flags' = flags
      BY <2>2 DEF BeginAppend, ghosts
    <3>2. ASSUME NEW s \in Samples, writtenEnd <= s, s < next PROVE ~Clear(s)
      BY <3>1, <3>2
    <3>3. QED
      BY <3>1, <3>2, SamplesAre
  <2>3. ASSUME NEW v \in 0 .. 1, AppendSample(v)
       PROVE  Flagged'
    <3>1. /\ frame.at \in Samples /\ firstLive <= frame.at
          /\ wpc = "append" /\ wpc' = "append" /\ firstLive' = firstLive
          /\ frame'.at = frame.at + 1 /\ lost' = lost
          /\ word' = [word EXCEPT ![frame.at] = v]
      BY <2>3, SlotFacts, SamplesAre, CapacityNat DEF AppendSample, ghosts
    <3>2. flags \subseteq flags'
      BY <2>3 DEF AppendSample
    <3>3. SUFFICES ASSUME NEW s \in Samples, NEW l \in Levels, firstLive < s,
                          s <= frame.at, Clear(s), word'[s] # word'[s - 1]
                   PROVE  Cell(l, s) \in flags'
      BY <3>1, SamplesAre
    <3>4. s - 1 \in Samples
      BY <3>3, SamplesAre, CapacityNat
    <3>5. CASE s < frame.at
      BY <3>1, <3>2, <3>3, <3>4, <3>5, SamplesAre
    <3>6. CASE s = frame.at
      <4>1. word'[s] = v /\ word'[s - 1] = word[s - 1]
        BY <3>1, <3>4, <3>6, SamplesAre
      <4>2. frame.prev # -1
        <5>1. s - 1 \notin lost /\ ~(s - 1 < firstLive) /\ s > 0 /\ s - 1 < Capacity
          BY <3>3, <3>4, SamplesAre, CapacityNat
        <5>2. QED
          BY <3>1, <3>6, <5>1, SamplesAre, CapacityNat
      <4>3. frame.prev = word[s - 1]
        BY <3>1, <3>4, <3>6, <4>2
      <4>4. flags' = flags \cup Marked(s)
        BY <2>3, <3>3, <3>6, <4>1, <4>2, <4>3 DEF AppendSample
      <4>5. QED
        BY <3>1, <3>6, <4>4, MarkedAll
    <3>7. QED
      BY <3>3, <3>5, <3>6, <3>1, SamplesAre
  <2>4. ASSUME Publish PROVE Flagged'
    <3>1. /\ wpc' \in {"idle", "trim"} /\ flags' = flags
          /\ word' = word /\ lost' = lost /\ firstLive' = firstLive
      BY <2>4 DEF Publish
    <3>2. QED
      BY <2>4, <3>1, PublishEnd, SamplesAre
  <2>5. ASSUME Lock("trim", "trimming") PROVE Flagged'
    <3>1. /\ wpc = "trim" /\ wpc' = "trimming" /\ firstLive' = firstLive
          /\ writtenEnd' = writtenEnd /\ maxSamples' = maxSamples /\ flags' = flags
          /\ word' = word /\ lost' = lost
      BY <2>5 DEF Lock, store, ghosts
    <3>2. firstLive <= NewFirstLive /\ NewFirstLive' = NewFirstLive
      BY <3>1, StoreAssumption, CapacityNat DEF NewFirstLive
    <3>3. firstLive \in Nat /\ NewFirstLive \in Int
      BY StoreAssumption, CapacityNat DEF NewFirstLive
    <3>4. QED
      BY <3>1, <3>2, <3>3, SamplesAre
  <2>6. ASSUME Lock("idle", "resetting") PROVE Flagged'
    BY SMT, <2>6 DEF Lock, store, ghosts
  <2>7. ASSUME FreeChunk PROVE Flagged'
    <3>1. CASE wpc = "resetting"
      BY <2>7, <3>1 DEF FreeChunk
    <3>2. CASE wpc = "trimming"
      <4>1. PICK c \in Dead :
              word' = [t \in Samples |-> IF Slot(t) = c THEN 0 ELSE word[t]]
        BY <2>7 DEF FreeChunk
      <4>2. NewFirstLive \in Nat /\ c < Slot(NewFirstLive) /\ c \in Int
        BY <3>2, <4>1, StoreAssumption, CapacityNat DEF Dead, NewFirstLive
      <4>3. \A s \in Samples : s >= NewFirstLive => Slot(s) # c
        BY <4>2, SlotFacts, SamplesAre
      <4>4. \A s \in Samples : s > NewFirstLive => s - 1 \in Samples
        BY <4>2, SamplesAre, CapacityNat
      <4>5. \A s \in Samples : s >= NewFirstLive => word'[s] = word[s]
        BY <4>1, <4>3
      <4>6. \A s \in Samples : s > NewFirstLive => word'[s - 1] = word[s - 1]
        BY <4>2, <4>4, <4>5, SamplesAre
      <4>7. /\ flags' = flags /\ lost' = lost /\ wpc' = wpc /\ writtenEnd' = writtenEnd
            /\ NewFirstLive' = NewFirstLive
        BY <2>7 DEF FreeChunk, NewFirstLive, ghosts
      <4>8. QED
        BY <3>2, <4>2, <4>5, <4>6, <4>7, SamplesAre
    <3>3. QED
      BY <2>7, <3>1, <3>2 DEF FreeChunk
  <2>8. ASSUME TrimDone PROVE Flagged'
    <3>1. /\ wpc = "trimming" /\ wpc' = "idle" /\ firstLive' = NewFirstLive
          /\ word' = word /\ lost' = lost /\ writtenEnd' = writtenEnd
      BY <2>8 DEF TrimDone, ghosts
    <3>2. ASSUME NEW s \in Samples, NEW l \in Levels, NewFirstLive < s,
                 Cell(l, s) \in flags
          PROVE  Cell(l, s) \in flags'
      <4>1. NewFirstLive <= s
        BY <3>2, SamplesAre, StoreAssumption, CapacityNat DEF NewFirstLive
      <4>2. QED
        BY <2>8, <3>2, <4>1, TrimKeeps
    <3>3. QED
      BY <3>1, <3>2
  <2>9. ASSUME NEW w \in Windows, ResetDone(w)
       PROVE  Flagged'
    BY <2>9, SamplesAre DEF ResetDone
  <2>10. ASSUME Reader PROVE Flagged'
    BY <2>10, SMT, ReaderLeaves DEF store, ghosts, NewFirstLive
  <2>11. ASSUME UNCHANGED vars PROVE Flagged'
    BY SMT, <2>11 DEF vars, store, ghosts, NewFirstLive
  <2>12. QED
    BY <2>1, <2>2, <2>3, <2>4, <2>5, <2>6, <2>7, <2>8, <2>9, <2>10, <2>11 DEF
       Next, Writer
<1>3. QED
  BY <1>1, <1>2, BeforeInv, ClosedInv, MissingInv, CleanInv, StoreInv, PTL DEF
     Spec

-----------------------------------------------------------------------------
(* The readers.                                                            *)

\* The writer never moves a reader on; it may tear a copy.
LEMMA WriterLeaves ==
    Writer => \/ UNCHANGED << upc, view >>
              \/ upc \in {"copy", "copied"} /\ upc' = "torn" /\ view' = NoView
BY DEF Writer, LoseFrame, BeginAppend, AppendSample, Publish, Lock, FreeChunk,
       TrimDone, ResetDone

LEMMA ZeroLevel == 0 \in Levels
BY StoreAssumption DEF Levels

\* bit() reads the level that was stored, zero if there is none.
LEMMA BitIsWord ==
    ASSUME Clean, NEW s \in Samples
    PROVE  Bit(s) = word[s]
BY DEF Clean, Bit

\* A copy goes on at the next chunk, or has reached its end.
LEMMA NextChunk ==
    ASSUME NEW at \in Nat, NEW hi \in Nat, at <= hi
    PROVE  LET end == Smaller((Slot(at) + 1) * SPC, hi)
           IN  end \in Nat /\ at <= end /\ end <= hi
<1> DEFINE p == at \div SPC
<1>1. p \in Nat /\ at < SPC * p + SPC
  BY DivBounds, StoreAssumption
<1> HIDE DEF p
<1>2. (p + 1) * SPC = SPC * p + SPC /\ SPC * p \in Nat
  BY <1>1, StoreAssumption
<1>3. Slot(at) = p
  BY DEF p, Slot
<1>4. QED
  BY <1>1, <1>2, <1>3, StoreAssumption DEF Smaller

\* The reader's variables have their types.
LEMMA ReaderType == Spec => []ReaderTyped
<1>1. Init => ReaderTyped
  BY ZeroLevel DEF Init, ReaderTyped, NoView
<1>2. ReaderTyped /\ Store /\ [Next]_vars => ReaderTyped'
  <2> SUFFICES ASSUME ReaderTyped, Store, [Next]_vars
               PROVE  ReaderTyped'
    OBVIOUS
  <2> USE DEF ReaderTyped
  <2>1. ASSUME NEW n \in 1 .. MaxFrame, LoseFrame(n)
       PROVE  ReaderTyped'
    BY SMT, <2>1 DEF LoseFrame, store, ghosts
  <2>2. ASSUME NEW n \in 1 .. MaxFrame, BeginAppend(n)
       PROVE  ReaderTyped'
    BY SMT, <2>2 DEF BeginAppend, store, ghosts
  <2>3. ASSUME NEW v \in 0 .. 1, AppendSample(v)
       PROVE  ReaderTyped'
    BY SMT, <2>3 DEF AppendSample, store, ghosts
  <2>4. ASSUME Publish PROVE ReaderTyped'
    BY SMT, <2>4 DEF Publish, store, ghosts
  <2>5. ASSUME Lock("trim", "trimming") PROVE ReaderTyped'
    BY <2>5 DEF Lock
  <2>6. ASSUME Lock("idle", "resetting") PROVE ReaderTyped'
    BY <2>6 DEF Lock
  <2>7. ASSUME FreeChunk PROVE ReaderTyped'
    BY <2>7, ZeroLevel DEF FreeChunk, NoView
  <2>8. ASSUME TrimDone PROVE ReaderTyped'
    BY SMT, <2>8 DEF TrimDone, NewFirstLive, store, ghosts
  <2>9. ASSUME NEW w \in Windows, ResetDone(w)
       PROVE  ReaderTyped'
    BY SMT, <2>9 DEF ResetDone, store, ghosts
  <2>10. ASSUME NEW first \in Samples, NEW last \in 1 .. Capacity,
                      NEW top \in Levels, WalkBegin(first, last, top)
       PROVE  ReaderTyped'
    <3>1. firstLive \in Nat /\ count \in Nat /\ first \in Nat /\ last \in Nat
      BY CapacityNat, SamplesAre DEF Store, CountersTyped
    <3>2. /\ Larger(first, firstLive) \in Nat /\ Smaller(last, count) \in Nat
      BY <3>1 DEF Larger, Smaller
    <3>3. Larger(first, firstLive) \div BlockSize[top] \in Nat
      BY <3>2, BlockFacts
    <3>4. QED
      BY <2>10, <3>2, <3>3 DEF WalkBegin
  <2>11. ASSUME WalkBlock PROVE ReaderTyped'
    <3>1. Scan(view.top, view.at, view.lo, view.hi) \subseteq Nat
      BY DEF Scan
    <3>2. view' \in [lo : Nat, hi : Nat, top : Levels, at : Nat, out : SUBSET Nat]
      BY <2>11, <3>1 DEF WalkBlock, Advance
    <3>3. QED
      BY <2>11, <3>2 DEF WalkBlock
  <2>12. ASSUME WalkEnd PROVE ReaderTyped'
    BY <2>12, ZeroLevel DEF WalkEnd, NoView
  <2>13. ASSUME CopyBegin PROVE ReaderTyped'
    BY <2>13, ZeroLevel, CapacityNat
       DEF CopyBegin, NoView, Store, CountersTyped
  <2>14. ASSUME CopyChunk PROVE ReaderTyped'
    <3> DEFINE end == Smaller((Slot(view.at) + 1) * SPC, view.hi)
    <3>1. view' = Advance(end, {s \in view.at .. end - 1 : Bit(s) = 1})
      BY <2>14 DEF CopyChunk
    <3>2. end \in Nat
      <4>1. Slot(view.at) \in Nat
        BY SlotFacts
      <4>2. \A m \in Nat : (m + 1) * SPC \in Nat
        BY StoreAssumption
      <4>3. QED
        BY <4>1, <4>2 DEF Smaller
    <3> HIDE DEF end
    <3>3. {s \in view.at .. end - 1 : Bit(s) = 1} \subseteq Nat
      BY <3>2
    <3>4. view' \in [lo : Nat, hi : Nat, top : Levels, at : Nat, out : SUBSET Nat]
      BY <3>1, <3>2, <3>3 DEF Advance
    <3>5. QED
      BY <2>14, <3>4 DEF CopyChunk
  <2>15. ASSUME CopyEnd PROVE ReaderTyped'
    BY <2>15, ZeroLevel DEF CopyEnd, NoView
  <2>16. ASSUME UNCHANGED vars PROVE ReaderTyped'
    BY <2>16 DEF vars
  <2>17. QED
    BY <2>1, <2>2, <2>3, <2>4, <2>5, <2>6, <2>7, <2>8, <2>9, <2>10, <2>11,
       <2>12, <2>13, <2>14, <2>15, <2>16 DEF Next, Writer, Reader
<1>3. QED
  BY <1>1, <1>2, StoreInv, PTL DEF Spec

\* A walk has found what there is below its cursor.
LEMMA WalksInv == Spec => []Walks
<1>1. Init => Walks
  BY DEF Init, Walks
<1>2. Walks /\ Locks /\ Clean /\ Flagged
      /\ ReaderTyped /\ Store /\ [Next]_vars
      => Walks'
  <2> SUFFICES ASSUME Walks, Locks, Clean, Flagged, ReaderTyped, Store, [Next]_vars
               PROVE  Walks'
    OBVIOUS
  <2> USE
     DEF Walks, Store, CountersTyped, FrameTyped, Ordered, ReaderTyped,
         TablesTyped, Clear
  <2>1. ASSUME NEW n \in 1 .. MaxFrame, LoseFrame(n)
       PROVE  Walks'
    <3>1. lost \subseteq lost' /\ UNCHANGED << upc, view, word, chunks, firstLive, count >>
      BY <2>1 DEF LoseFrame, store
    <3>2. QED
      BY <3>1 DEF Bit
  <2>2. ASSUME NEW n \in 1 .. MaxFrame, BeginAppend(n)
       PROVE  Walks'
    BY SMT, <2>2 DEF BeginAppend, ghosts, Bit
  <2>3. ASSUME NEW v \in 0 .. 1, AppendSample(v)
       PROVE  Walks'
    <3>1. /\ UNCHANGED << upc, view, lost, firstLive, count >>
          /\ word' = [word EXCEPT ![frame.at] = v] /\ chunks \subseteq chunks'
      BY <2>3 DEF AppendSample, ghosts
    <3>2. SUFFICES ASSUME upc \in {"walk", "walked"} PROVE Walks'
      BY <3>1
    <3>3. count <= frame.at /\ view.lo \in Nat /\ count <= Capacity /\ view.hi <= count
      BY <2>3, <3>2, CapacityNat DEF AppendSample
    <3>4. ASSUME NEW s \in view.lo + 1 .. view.hi - 1
          PROVE  /\ s \in Samples /\ s - 1 \in Samples
                 /\ word'[s] = word[s] /\ word'[s - 1] = word[s - 1]
      <4>1. s \in Samples /\ s - 1 \in Samples /\ s # frame.at /\ s - 1 # frame.at
        BY <3>3, SamplesAre, CapacityNat
      <4>2. QED
        BY <3>1, <4>1
    <3>5. ASSUME NEW s \in view.lo + 1 .. view.hi - 1
          PROVE  /\ Bit(s) # Bit(s - 1) <=> word[s] # word[s - 1]
                 /\ (Bit(s) # Bit(s - 1))' <=> word'[s] # word'[s - 1]
      <4>1. Bit(s) = word[s] /\ Bit(s - 1) = word[s - 1]
        BY <3>4, BitIsWord
      <4>2. Bit(s)' = word'[s] /\ Bit(s - 1)' = word'[s - 1]
        BY <3>1, <3>4, <4>1 DEF Bit, Clean
      <4>3. QED
        BY <4>1, <4>2
    <3>6. QED
      BY <3>1, <3>2, <3>4, <3>5
  <2>4. ASSUME Publish PROVE Walks'
    <3>1. UNCHANGED << upc, view, word, chunks, firstLive, lost >>
      BY <2>4 DEF Publish
    <3>2. count <= count' /\ count' \in Nat
      BY <2>4, PublishEnd, CapacityNat DEF Publish
    <3>3. QED
      BY <3>1, <3>2, CapacityNat DEF Bit
  <2>5. ASSUME Lock("trim", "trimming") PROVE Walks'
    BY <2>5 DEF Lock, Locks
  <2>6. ASSUME Lock("idle", "resetting") PROVE Walks'
    BY <2>6 DEF Lock, Locks
  <2>7. ASSUME FreeChunk PROVE Walks'
    BY <2>7 DEF FreeChunk, Locks
  <2>8. ASSUME TrimDone PROVE Walks'
    BY <2>8 DEF TrimDone, Locks
  <2>9. ASSUME NEW w \in Windows, ResetDone(w)
       PROVE  Walks'
    BY <2>9 DEF ResetDone, Locks
  <2>10. ASSUME NEW first \in Samples, NEW last \in 1 .. Capacity,
                      NEW top \in Levels, WalkBegin(first, last, top)
       PROVE  Walks'
    <3> DEFINE lo == Larger(first, firstLive)
    <3> DEFINE hi == Smaller(last, count)
    <3>1. /\ view' = [lo |-> lo, hi |-> hi, top |-> top,
                      at |-> lo \div BlockSize[top], out |-> {}]
          /\ lo < hi /\ UNCHANGED << firstLive, count, word, lost >> /\ upc' = "walk"
      BY <2>10 DEF WalkBegin, store, ghosts
    <3>2. lo \in Nat /\ hi \in Nat /\ firstLive <= lo /\ hi <= count
      BY CapacityNat, SamplesAre DEF Larger, Smaller
    <3> HIDE DEF lo, hi
    <3>3. \A s \in lo + 1 .. hi - 1 : ~(s \div BlockSize[top] < lo \div BlockSize[top])
      <4>1. SUFFICES ASSUME NEW s \in lo + 1 .. hi - 1
                     PROVE  lo \div BlockSize[top] <= s \div BlockSize[top]
                            /\ lo \div BlockSize[top] \in Int /\ s \div BlockSize[top] \in Int
        OBVIOUS
      <4>2. s \in Nat /\ lo <= s
        BY <3>2
      <4>3. QED
        BY <3>2, <4>2, BlockFacts
    <3>4. QED
      BY <3>1, <3>2, <3>3
  <2>11. ASSUME WalkBlock PROVE Walks'
    <3> DEFINE B == BlockSize[view.top]
    <3> DEFINE edges == Scan(view.top, view.at, view.lo, view.hi)
    <3>1. /\ view'.lo = view.lo /\ view'.hi = view.hi /\ view'.top = view.top
          /\ view'.at = view.at + 1 /\ view'.out = view.out \cup edges
          /\ upc = "walk" /\ upc' \in {"walk", "walked"}
          /\ upc' = "walked" => view.at = (view.hi - 1) \div B
          /\ UNCHANGED << firstLive, count, word, chunks, lost, flags >>
      BY <2>11 DEF WalkBlock, Advance, store, ghosts
    <3>2. /\ wpc \notin {"trimming", "resetting"} /\ Start = firstLive /\ count <= End
      BY <3>1, CapacityNat DEF Locks, Start, End
    <3>3. \A s \in edges : s \in view.lo + 1 .. view.hi - 1 /\ Bit(s) # Bit(s - 1)
      BY DEF Scan
    <3>4. ASSUME NEW s \in view.lo + 1 .. view.hi - 1, s \div B < view.at + 1,
                 Clear(s), word[s] # word[s - 1]
          PROVE  s \in view.out \cup edges
      <4>1. /\ s \in Samples /\ s - 1 \in Samples /\ firstLive < s /\ s < End
        BY <3>1, <3>2, SamplesAre, CapacityNat DEF End
      <4>2. s \div B \in Nat
        BY <4>1, SamplesAre, BlockFacts
      <4>3. CASE s \div B < view.at
        BY <3>1, <3>4, <4>3
      <4>4. CASE s \div B = view.at
        <5>1. Bit(s) # Bit(s - 1)
          BY <3>4, <4>1, BitIsWord
        <5>2. ASSUME NEW l \in 0 .. view.top PROVE Cell(l, s) \in flags
          <6>1. l \in Levels
            BY StoreAssumption DEF Levels
          <6>2. QED
            BY <3>2, <3>4, <4>1, <6>1 DEF Flagged
        <5>3. QED
          BY <4>4, <5>1, <5>2 DEF Scan
      <4>5. QED
        BY <4>2, <4>3, <4>4, <3>4
    <3>5. upc' = "walked" => (view.hi - 1) \div B < view.at + 1
      BY <3>1
    <3> HIDE DEF B, edges
    <3>6. /\ firstLive' <= view'.lo /\ view'.lo < view'.hi /\ view'.hi <= count'
      BY <3>1
    <3>7. \A s \in view'.out : /\ s \in view'.lo + 1 .. view'.hi - 1
                               /\ (Bit(s) # Bit(s - 1))'
      <4>1. \A s : Bit(s)' = Bit(s)
        BY <3>1 DEF Bit
      <4>2. QED
        BY <3>1, <3>3, <4>1
    <3>8. QED
      BY <3>1, <3>4, <3>5, <3>6, <3>7 DEF B
  <2>12. ASSUME WalkEnd PROVE Walks'
    BY <2>12 DEF WalkEnd
  <2>13. ASSUME CopyBegin PROVE Walks'
    BY <2>13 DEF CopyBegin
  <2>14. ASSUME CopyChunk PROVE Walks'
    BY <2>14 DEF CopyChunk
  <2>15. ASSUME CopyEnd PROVE Walks'
    BY <2>15 DEF CopyEnd
  <2>16. ASSUME UNCHANGED vars PROVE Walks'
    BY <2>16 DEF vars, store, ghosts, Bit
  <2>17. QED
    BY <2>1, <2>2, <2>3, <2>4, <2>5, <2>6, <2>7, <2>8, <2>9, <2>10, <2>11,
       <2>12, <2>13, <2>14, <2>15, <2>16 DEF Next, Writer, Reader
<1>3. QED
  BY <1>1, <1>2, LocksInv, CleanInv, FlaggedInv, ReaderType, StoreInv, PTL DEF
     Spec

\* A copy nothing was freed under has what there is below its cursor.
LEMMA CopiesInv == Spec => []Copies
<1>1. Init => Copies
  BY DEF Init, Copies
<1>2. Copies /\ Locks /\ Missing /\ Kept
      /\ Clean /\ ReaderTyped /\ Store /\ [Next]_vars
      => Copies'
  <2> SUFFICES ASSUME Copies, Locks, Missing, Kept, Clean, ReaderTyped, Store, [Next]_vars
               PROVE  Copies'
    OBVIOUS
  <2> USE
     DEF Copies, Store, CountersTyped, FrameTyped, Ordered, ReaderTyped,
         TablesTyped
  <2>1. ASSUME NEW n \in 1 .. MaxFrame, LoseFrame(n)
       PROVE  Copies'
    BY SMT, <2>1 DEF LoseFrame, store, ghosts
  <2>2. ASSUME NEW n \in 1 .. MaxFrame, BeginAppend(n)
       PROVE  Copies'
    BY SMT, <2>2 DEF BeginAppend, store, ghosts
  <2>3. ASSUME NEW v \in 0 .. 1, AppendSample(v)
       PROVE  Copies'
    <3>1. /\ UNCHANGED << upc, view, writtenEnd >> /\ chunks' # {}
          /\ word' = [word EXCEPT ![frame.at] = v]
      BY <2>3 DEF AppendSample
    <3>2. SUFFICES ASSUME upc \in {"copy", "copied"} PROVE Copies'
      BY <3>1
    <3>3. /\ writtenEnd <= frame.at /\ view.lo \in Nat /\ view.at \in Nat
          /\ view.at <= writtenEnd /\ writtenEnd <= Capacity
      BY <2>3, <3>2, CapacityNat DEF AppendSample
    <3>4. ASSUME NEW s \in view.lo .. view.at - 1 PROVE word'[s] = word[s]
      <4>1. s \in Samples /\ s # frame.at
        BY <3>3, SamplesAre, CapacityNat
      <4>2. QED
        BY <3>1, <4>1
    <3>5. {s \in view.lo .. view.at - 1 : word'[s] = 1}
              = {s \in view.lo .. view.at - 1 : word[s] = 1}
      BY <3>4
    <3>6. QED
      BY <3>1, <3>2, <3>5
  <2>4. ASSUME Publish PROVE Copies'
    <3>1. UNCHANGED << upc, view, word, chunks >>
      BY <2>4 DEF Publish
    <3>2. writtenEnd <= writtenEnd' /\ writtenEnd' \in Nat
      BY <2>4, PublishEnd, CapacityNat
    <3>3. QED
      BY <3>1, <3>2, CapacityNat
  <2>5. ASSUME Lock("trim", "trimming") PROVE Copies'
    BY <2>5 DEF Lock, store, ghosts
  <2>6. ASSUME Lock("idle", "resetting") PROVE Copies'
    BY <2>6 DEF Lock, store, ghosts
  <2>7. ASSUME FreeChunk PROVE Copies'
    BY <2>7 DEF FreeChunk
  <2>8. ASSUME TrimDone PROVE Copies'
    BY SMT, <2>8 DEF TrimDone, NewFirstLive, store, ghosts
  <2>9. ASSUME NEW w \in Windows, ResetDone(w)
       PROVE  Copies'
    BY <2>9 DEF ResetDone, Dead
  <2>10. ASSUME NEW first \in Samples, NEW last \in 1 .. Capacity,
                      NEW top \in Levels, WalkBegin(first, last, top)
       PROVE  Copies'
    BY <2>10 DEF WalkBegin
  <2>11. ASSUME WalkBlock PROVE Copies'
    BY <2>11 DEF WalkBlock
  <2>12. ASSUME WalkEnd PROVE Copies'
    BY <2>12 DEF WalkEnd
  <2>13. ASSUME CopyBegin PROVE Copies'
    <3>1. CASE lock = "writer"
      BY <2>13, <3>1 DEF CopyBegin
    <3>2. CASE lock # "writer"
      <4>1. /\ view' = [lo |-> firstLive, hi |-> count, top |-> 0, at |-> firstLive,
                        out |-> {}]
            /\ upc' = "copy" /\ firstLive < count
            /\ UNCHANGED << chunks, writtenEnd, word >>
        BY <2>13, <3>2 DEF CopyBegin, store
      <4>2. wpc \notin {"trimming", "resetting"}
        BY <3>2 DEF Locks
      <4>3. /\ writtenEnd - 1 \in Samples /\ writtenEnd - 1 \notin lost
            /\ Start <= writtenEnd - 1 /\ writtenEnd - 1 < End
        BY <4>1, <4>2, SamplesAre, CapacityNat DEF Missing, Start, End
      <4>4. chunks # {}
        BY <4>2, <4>3 DEF Kept
      <4>5. {s \in firstLive .. firstLive - 1 : word[s] = 1} = {}
        BY CapacityNat
      <4>6. QED
        BY <4>1, <4>4, <4>5, CapacityNat
    <3>3. QED
      BY <3>1, <3>2
  <2>14. ASSUME CopyChunk PROVE Copies'
    <3> DEFINE end == Smaller((Slot(view.at) + 1) * SPC, view.hi)
    <3>1. /\ view' = Advance(end, {s \in view.at .. end - 1 : Bit(s) = 1})
          /\ upc = "copy" /\ upc' \in {"copy", "copied"}
          /\ upc' = "copied" => end = view.hi
          /\ UNCHANGED << chunks, writtenEnd, word >>
      BY <2>14 DEF CopyChunk, store
    <3>2. end \in Nat /\ view.at <= end /\ end <= view.hi
      BY <3>1, NextChunk
    <3> HIDE DEF end
    <3>3. ASSUME NEW s \in view.at .. end - 1 PROVE Bit(s) = word[s]
      <4>1. s \in Samples
        BY <3>1, <3>2, SamplesAre, CapacityNat
      <4>2. QED
        BY <4>1, BitIsWord
    <3>4. {s \in view.lo .. view.at - 1 : word[s] = 1}
              \cup {s \in view.at .. end - 1 : Bit(s) = 1}
          = {s \in view.lo .. end - 1 : word[s] = 1}
      BY <3>1, <3>2, <3>3
    <3>5. /\ view'.lo = view.lo /\ view'.hi = view.hi /\ view'.at = end
          /\ view'.out = view.out \cup {s \in view.at .. end - 1 : Bit(s) = 1}
      BY <3>1 DEF Advance
    <3>6. view.out = {s \in view.lo .. view.at - 1 : word[s] = 1}
      BY <3>1
    <3>7. view.lo <= end /\ end <= view.hi /\ view.hi <= writtenEnd
      BY <3>1, <3>2
    <3>8. QED
      BY <3>1, <3>4, <3>5, <3>6, <3>7
  <2>15. ASSUME CopyEnd PROVE Copies'
    BY <2>15 DEF CopyEnd
  <2>16. ASSUME UNCHANGED vars PROVE Copies'
    BY <2>16 DEF vars, store
  <2>17. QED
    BY <2>1, <2>2, <2>3, <2>4, <2>5, <2>6, <2>7, <2>8, <2>9, <2>10, <2>11,
       <2>12, <2>13, <2>14, <2>15, <2>16 DEF Next, Writer, Reader
<1>3. QED
  BY <1>1, <1>2, LocksInv, MissingInv, KeptInv, CleanInv, ReaderType,
     StoreInv, PTL DEF Spec

-----------------------------------------------------------------------------
(* The theorems.                                                           *)

\* Every variable of the store keeps its type, for every size of its tables.
THEOREM StoreTypeCorrect == Spec => []TypeOK
<1>1. FlagsTyped /\ Store /\ ReaderTyped => TypeOK
  BY Zenon DEF FlagsTyped, Store, TablesTyped, CountersTyped, FrameTyped,
               ReaderTyped, TypeOK
<1>2. QED
  BY <1>1, FlagsType, StoreInv, ReaderType, PTL

\* A walk (stores.cpp walk, walk_block) reports exactly the level changes of its
\* view, at every zoom, while the RX thread appends: the early exit of
\* set_transition and the flags a trim drops never hide one.
THEOREM WalksAreExact == Spec => []WalkExact
<1>1. Walks /\ Clean /\ ReaderTyped /\ Store => WalkExact
  <2>1. SUFFICES ASSUME Walks, Clean, ReaderTyped, Store, upc = "walked",
                        NEW s \in view.lo + 1 .. view.hi - 1, Clear(s)
                 PROVE  s \in view.out <=> word[s] # word[s - 1]
    BY DEF WalkExact
  <2>2. s \in Samples /\ s - 1 \in Samples
    BY <2>1, SamplesAre, CapacityNat
       DEF Walks, ReaderTyped, Store, CountersTyped, Ordered
  <2>3. s \in view.out => word[s] # word[s - 1]
    BY <2>1, <2>2, BitIsWord DEF Walks
  <2>4. s \div BlockSize[view.top] < view.at
    <3>1. view.top \in Levels /\ s \in Nat /\ view.hi - 1 \in Nat /\ s <= view.hi - 1
      BY <2>1, <2>2, SamplesAre DEF ReaderTyped
    <3>2. /\ s \div BlockSize[view.top] <= (view.hi - 1) \div BlockSize[view.top]
          /\ s \div BlockSize[view.top] \in Nat
          /\ (view.hi - 1) \div BlockSize[view.top] \in Nat
      BY <3>1, BlockFacts
    <3>3. (view.hi - 1) \div BlockSize[view.top] < view.at /\ view.at \in Nat
      BY <2>1 DEF Walks, ReaderTyped
    <3>4. QED
      BY <3>2, <3>3
  <2>5. QED
    BY <2>1, <2>3, <2>4 DEF Walks
<1>2. QED
  BY <1>1, WalksInv, CleanInv, ReaderType, StoreInv, PTL

\* No chunk is freed that a walk in progress may still read.
THEOREM WalksHoldChunks == Spec => []WalkHoldsChunks
<1>1. Walks /\ Locks /\ Kept /\ ReaderTyped /\ Store => WalkHoldsChunks
  <2>1. SUFFICES ASSUME Walks, Locks, Kept, ReaderTyped, Store,
                        upc \in {"walk", "walked"},
                        NEW s \in view.lo .. view.hi - 1, s \notin lost
                 PROVE  Slot(s) \in chunks
    BY DEF WalkHoldsChunks
  <2>2. wpc \notin {"trimming", "resetting"}
    BY <2>1 DEF Locks
  <2>3. s \in Samples /\ Start <= s /\ s < End
    BY <2>1, <2>2, SamplesAre, CapacityNat
       DEF Walks, ReaderTyped, Store, CountersTyped, FrameTyped, Ordered, Start, End
  <2>4. QED
    BY <2>1, <2>2, <2>3 DEF Kept
<1>2. QED
  BY <1>1, WalksInv, LocksInv, KeptInv, ReaderType, StoreInv, PTL

\* What is exported, or sent back to be decoded, is what was captured.
THEOREM CopiesAreFaithful == Spec => []CopyFaithful
<1>1. Copies /\ Clean /\ ReaderTyped /\ Store => CopyFaithful
  <2>1. SUFFICES ASSUME Copies, Clean, ReaderTyped, Store, upc = "copied"
                 PROVE  view.out = {s \in view.lo .. view.hi - 1 :
                                        s \notin lost /\ word[s] = 1}
    BY DEF CopyFaithful
  <2>2. ASSUME NEW s \in view.lo .. view.hi - 1, word[s] = 1 PROVE s \notin lost
    <3>1. s \in Samples
      BY <2>1, SamplesAre, CapacityNat
         DEF Copies, ReaderTyped, Store, CountersTyped
    <3>2. QED
      BY <2>2, <3>1, <2>1 DEF Clean
  <2>3. view.out = {s \in view.lo .. view.hi - 1 : word[s] = 1}
    BY <2>1 DEF Copies
  <2>4. QED
    BY <2>2, <2>3
<1>2. QED
  BY <1>1, CopiesInv, CleanInv, ReaderType, StoreInv, PTL

\* Every sample that arrived is held or was trimmed, up to the capacity; what
\* falls off it is flagged, and ends an unbounded capture.
THEOREM NothingIsForgotten == Spec => []NothingForgotten
<1>1. Missing /\ Overflow /\ Store => NothingForgotten
  BY CapacityNat, SamplesAre
     DEF Missing, Overflow, Store, CountersTyped, Ordered, Known, NothingForgotten
<1>2. QED
  BY <1>1, MissingInv, OverflowInv, StoreInv, PTL

-----------------------------------------------------------------------------
(* The store is a PrefixStore.                                             *)

\* The samples a walk in progress looks at, and what it has reported.
Seen  == IF upc \in {"walk", "walked"} THEN view.lo .. view.hi - 1 ELSE {}
Found == IF upc = "walked" THEN view.out ELSE {}

\* What a reader of PrefixStore may see of the state.
Visible == << Held(Live), Held(Seen), Found >>

\* What the proofs below use of the invariants.
Sound == Store /\ Locks /\ Clean /\ Missing /\ Walks /\ ReaderTyped

\* The samples held and those a walk looks at are below the count, and a walk
\* keeps the writer out.
Bounds ==
    /\ \A s \in Live \cup Seen : s \in Samples /\ firstLive <= s /\ s < count
    /\ wpc \in {"trimming", "resetting"} => Seen = {} /\ Found = {}
    /\ wpc = "trimming" => /\ NewFirstLive \in Nat
                           /\ firstLive <= NewFirstLive
                           /\ Live = NewFirstLive .. count - 1
    /\ wpc = "resetting" => Live = {}
    /\ wpc \notin {"trimming", "resetting"} => Live = firstLive .. count - 1

LEMMA VisibleBounds == Sound => Bounds
<1> SUFFICES ASSUME Sound PROVE Bounds
  OBVIOUS
<1> USE DEF Sound, Store
<1>1. wpc \in {"trim", "trimming"} => NewFirstLive \in Nat /\ firstLive <= NewFirstLive
  BY StoreAssumption DEF CountersTyped, Ordered, NewFirstLive
<1>2. /\ wpc = "trimming" => Live = NewFirstLive .. count - 1
      /\ wpc = "resetting" => Live = {}
      /\ wpc \notin {"trimming", "resetting"} => Live = firstLive .. count - 1
  BY DEF Live
<1>3. \A s \in Live : s \in Samples /\ firstLive <= s /\ s < count
  BY <1>1, <1>2, SamplesAre, CapacityNat DEF CountersTyped
<1>4. \A s \in Seen : s \in Samples /\ firstLive <= s /\ s < count
  BY SamplesAre, CapacityNat DEF Seen, Walks, CountersTyped, ReaderTyped
<1>5. wpc \in {"trimming", "resetting"} => Seen = {} /\ Found = {}
  BY DEF Locks, Seen, Found
<1>6. QED
  BY <1>1, <1>2, <1>3, <1>4, <1>5 DEF Bounds

\* A step that moves none of it, and touches no sample of it, stutters.
LEMMA Stutters ==
    ASSUME Live' = Live, Seen' = Seen, Found' = Found,
           \A s \in Live \cup Seen : /\ s \in lost' <=> s \in lost
                                     /\ word'[s] = word[s]
    PROVE  UNCHANGED Visible
<1>1. Held(Live)' = Held(Live)
  BY DEF Held
<1>2. Held(Seen)' = Held(Seen)
  BY DEF Held
<1>3. QED
  BY <1>1, <1>2 DEF Visible

\* So does one of the reader's that leaves its walk alone.
LEMMA ReaderStutters ==
    ASSUME Reader, Seen' = Seen, Found' = Found, lock' = lock
    PROVE  UNCHANGED Visible
<1>1. UNCHANGED << store, maxSamples, wpc, frame, next, stopped, ghosts >>
  BY ReaderLeaves
<1>2. Live' = Live
  BY <1>1 DEF Live, NewFirstLive, store
<1>3. QED
  BY <1>1, <1>2, Stutters DEF store, ghosts

\* The variables of PrefixStore, as INSTANCE expands them.
LEMMA PrefixStep ==
    ASSUME \/ UNCHANGED Visible
           \/ Prefix!Grow \/ Prefix!Forget \/ Prefix!Begin
           \/ Prefix!Report \/ Prefix!End
    PROVE  [Prefix!Next]_Visible
BY DEF Prefix!Next

\* The store keeps the promise of PrefixStore: a reader sees a run of samples
\* that grows at its end and is forgotten from its start, a walk a part of it as
\* it was when the walk began, of which it reports every edge and no other.
THEOREM StoreIsPrefix == Spec => ImplementsPrefix
<1>1. Init => Prefix!Init
  <2> SUFFICES ASSUME Init PROVE Prefix!Init
    OBVIOUS
  <2>1. Live = {} /\ Seen = {} /\ Found = {}
    BY DEF Init, Live, Seen, Found
  <2>2. QED
    BY <2>1 DEF Prefix!Init, Prefix!Nothing, Held, Seen, Found
<1>2. Sound /\ Sound' /\ Bounds /\ Bounds' /\ [Next]_vars => [Prefix!Next]_Visible
  <2> SUFFICES ASSUME Sound, Sound', Bounds, Bounds', [Next]_vars
               PROVE  [Prefix!Next]_Visible
    OBVIOUS
  <2>1. ASSUME NEW n \in 1 .. MaxFrame, LoseFrame(n) PROVE UNCHANGED Visible
    <3>1. Live' = Live /\ Seen' = Seen /\ Found' = Found /\ word' = word
      BY <2>1 DEF LoseFrame, Live, NewFirstLive, Seen, Found, store
    <3>2. \A s \in Live \cup Seen : s \in lost' <=> s \in lost
      BY <2>1 DEF Bounds, LoseFrame, Sound, Store, CountersTyped, Ordered, Samples
    <3>3. QED
      BY <3>1, <3>2, Stutters
  <2>2. ASSUME NEW n \in 1 .. MaxFrame, BeginAppend(n) PROVE UNCHANGED Visible
    <3>1. /\ Live' = Live /\ Seen' = Seen /\ Found' = Found /\ word' = word
          /\ lost' = lost
      BY <2>2 DEF BeginAppend, Live, NewFirstLive, Seen, Found, ghosts
    <3>2. QED
      BY <3>1, Stutters
  <2>3. ASSUME NEW v \in 0 .. 1, AppendSample(v) PROVE UNCHANGED Visible
    <3>1. Live' = Live /\ Seen' = Seen /\ Found' = Found /\ lost' = lost
      BY <2>3 DEF AppendSample, Live, NewFirstLive, Seen, Found, ghosts
    <3>2. /\ word' = [word EXCEPT ![frame.at] = v]
          /\ count <= frame.at /\ frame.at \in Nat /\ count \in Nat
      BY <2>3, CapacityNat DEF AppendSample, Sound, Store, CountersTyped, FrameTyped, Ordered
    <3>3. \A s \in Live \cup Seen : word'[s] = word[s]
      BY <3>2 DEF Bounds, Sound, Store, TablesTyped, Samples
    <3>4. QED
      BY <3>1, <3>3, Stutters
  <2>4. ASSUME Publish PROVE Prefix!Grow
    <3>1. /\ wpc \notin {"trimming", "resetting"} /\ wpc' \notin {"trimming", "resetting"}
          /\ firstLive' = firstLive /\ count <= count' /\ word' = word /\ lost' = lost
          /\ Seen' = Seen /\ Found' = Found
      BY <2>4, PublishEnd, CapacityNat
         DEF Publish, Sound, Store, CountersTyped, FrameTyped, Ordered, Seen, Found
    <3>2. Live = firstLive .. count - 1 /\ Live' = firstLive .. count' - 1
      BY <3>1 DEF Live
    <3>3. Live \subseteq Live'
      <4>1. PICK c \in Nat : c = count'
        BY CapacityNat DEF Sound, Store, CountersTyped
      <4>2. Live' = firstLive .. c - 1 /\ count <= c
        BY <3>1, <3>2, <4>1
      <4>3. firstLive \in Nat /\ count \in Nat
        BY CapacityNat DEF Sound, Store, CountersTyped
      <4>4. \A s \in firstLive .. count - 1 : s \in firstLive .. c - 1
        BY <4>2, <4>3
      <4>5. QED
        BY <3>2, <4>2, <4>4
    <3>4. DOMAIN Held(Live) = Live /\ DOMAIN Held(Live)' = Live'
      BY DEF Held
    <3>5. Prefix!Part(Held(Live)', DOMAIN Held(Live)) = Held(Live)
      BY <3>1, <3>3 DEF Prefix!Part, Held
    <3>6. Held(Seen)' = Held(Seen)
      BY <3>1 DEF Held
    <3>7. QED
      BY <3>1, <3>3, <3>4, <3>5, <3>6 DEF Prefix!Grow, Seen, Found
  <2>5. ASSUME Lock("trim", "trimming") \/ Lock("idle", "resetting")
        PROVE  Prefix!Forget
    <3>1. /\ word' = word /\ lost' = lost /\ count' = count /\ firstLive' = firstLive
          /\ NewFirstLive' = NewFirstLive
          /\ Seen' = Seen /\ Found' = Found
          /\ wpc \notin {"trimming", "resetting"} /\ wpc' \in {"trimming", "resetting"}
      BY <2>5 DEF Lock, Seen, Found, NewFirstLive, store, ghosts
    <3>2. Live = firstLive .. count - 1
      BY <3>1 DEF Live
    <3>3. \/ Live' = {}
          \/ Live' = NewFirstLive .. count - 1 /\ NewFirstLive \in Nat
             /\ firstLive <= NewFirstLive
      BY <3>1 DEF Bounds
    <3>4. /\ Live' \subseteq Live
          /\ \A s \in Live', t \in Live : t > s => t \in Live'
      BY <3>2, <3>3, CapacityNat DEF Sound, Store, CountersTyped
    <3>5. DOMAIN Held(Live) = Live /\ DOMAIN Held(Live)' = Live'
      BY DEF Held
    <3>6. Held(Live)' = Prefix!Part(Held(Live), DOMAIN Held(Live)')
      BY <3>1, <3>4 DEF Prefix!Part, Held
    <3>7. Held(Seen)' = Held(Seen)
      BY <3>1 DEF Held
    <3>8. QED
      BY <3>1, <3>4, <3>5, <3>6, <3>7 DEF Prefix!Forget, Seen, Found
  <2>6. ASSUME FreeChunk PROVE UNCHANGED Visible
    <3>1. /\ wpc \in {"trimming", "resetting"} /\ wpc' = wpc
          /\ Live' = Live /\ lost' = lost
      BY <2>6 DEF FreeChunk, Live, NewFirstLive, ghosts
    <3>2. Seen' = {} /\ Found' = {} /\ Seen = {} /\ Found = {}
      BY <3>1 DEF Bounds
    <3>3. ASSUME NEW s \in Live PROVE word'[s] = word[s]
      <4>1. wpc = "trimming" /\ NewFirstLive <= s /\ s \in Samples /\ NewFirstLive \in Nat
        BY <3>1 DEF Bounds, Samples, Sound, Store, CountersTyped
      <4>2. Slot(NewFirstLive) <= Slot(s) /\ Slot(s) \in Nat /\ Slot(NewFirstLive) \in Nat
        BY <4>1, SlotFacts DEF Samples
      <4>3. PICK c \in Dead : word' = [t \in Samples |-> IF Slot(t) = c THEN 0 ELSE word[t]]
        BY <2>6 DEF FreeChunk
      <4>4. c < Slot(NewFirstLive) /\ c \in 0 .. SLOTS - 1
        BY <4>1 DEF Dead, Sound, Store, TablesTyped
      <4>5. Slot(s) # c
        BY <4>2, <4>4, StoreAssumption
      <4>6. QED
        BY <4>1, <4>3, <4>5
    <3>4. QED
      BY <3>1, <3>2, <3>3, Stutters
  <2>7. ASSUME TrimDone PROVE UNCHANGED Visible
    <3>1. /\ wpc = "trimming" /\ wpc' = "idle" /\ firstLive' = NewFirstLive
          /\ count' = count /\ word' = word /\ lost' = lost
          /\ Seen' = Seen /\ Found' = Found
      BY <2>7 DEF TrimDone, Seen, Found, ghosts
    <3>2. Live' = Live
      BY <3>1 DEF Live
    <3>3. QED
      BY <3>1, <3>2, Stutters
  <2>8. ASSUME NEW w \in Windows, ResetDone(w) PROVE UNCHANGED Visible
    <3>1. /\ wpc = "resetting" /\ wpc' = "idle" /\ firstLive' = 0 /\ count' = 0
          /\ Seen' = Seen /\ Found' = Found
      BY <2>8 DEF ResetDone, Seen, Found
    <3>2. Live = {} /\ Live' = {} /\ Seen = {}
      BY <3>1 DEF Bounds, Live
    <3>3. QED
      BY <3>1, <3>2, Stutters
  <2>9. ASSUME NEW first \in Samples, NEW last \in 1 .. Capacity, NEW top \in Levels,
               WalkBegin(first, last, top)
        PROVE  Prefix!Begin
    <3>1. UNCHANGED << store, maxSamples, wpc, frame, next, stopped, ghosts >>
      BY <2>9 DEF WalkBegin
    <3>2. Live' = Live /\ word' = word /\ lost' = lost /\ firstLive' = firstLive /\ count' = count
      BY <3>1 DEF Live, NewFirstLive, store, ghosts
    <3>3. Live = firstLive .. count - 1
      BY <2>9 DEF Live, WalkBegin, Sound, Locks
    <3>4. Seen' # {} /\ Seen' \subseteq Live
      <4>1. /\ upc' = "walk" /\ view'.lo < view'.hi /\ firstLive <= view'.lo
            /\ view'.hi <= count /\ view'.lo \in Nat /\ view'.hi \in Nat
        BY <2>9, <3>2 DEF WalkBegin, Sound, Walks, ReaderTyped
      <4>2. Seen' = view'.lo .. view'.hi - 1
        BY <4>1 DEF Seen
      <4>3. view'.lo \in Seen'
        BY <4>1, <4>2
      <4>4. QED
        BY <4>1, <4>2, <4>3, <3>3, CapacityNat DEF Sound, Store, CountersTyped
    <3>5. Found' = Found
      BY <2>9 DEF WalkBegin, Found
    <3>6. DOMAIN Held(Live) = Live /\ DOMAIN Held(Seen)' = Seen'
      BY DEF Held
    <3>7. Held(Seen)' = Prefix!Part(Held(Live), DOMAIN Held(Seen)')
      BY <3>2, <3>4 DEF Prefix!Part, Held
    <3>8. Held(Live)' = Held(Live)
      BY <3>2 DEF Held
    <3>9. QED
      BY <3>4, <3>5, <3>6, <3>7, <3>8 DEF Prefix!Begin, Seen, Found
  <2>10. ASSUME WalkBlock PROVE UNCHANGED Visible \/ Prefix!Report
    <3>1. /\ Reader /\ lock' = lock /\ upc = "walk" /\ upc' \in {"walk", "walked"}
          /\ view'.lo = view.lo /\ view'.hi = view.hi
      BY <2>10 DEF WalkBlock, Reader, Advance
    <3>2. Seen' = Seen /\ Seen = view.lo .. view.hi - 1 /\ Found = {}
      BY <3>1 DEF Seen, Found
    <3>3. CASE upc' = "walk"
      BY <3>1, <3>2, <3>3, ReaderStutters DEF Found
    <3>4. CASE upc' = "walked"
      <4>1. UNCHANGED << store, maxSamples, wpc, frame, next, stopped, ghosts >>
        BY <3>1, ReaderLeaves
      <4>2. /\ Live' = Live /\ word' = word /\ lost' = lost /\ chunks' = chunks
            /\ Found' = view'.out
        BY <4>1, <3>4 DEF Live, NewFirstLive, store, ghosts, Found
      <4>3. Held(Live)' = Held(Live) /\ Held(Seen)' = Held(Seen)
        BY <3>2, <4>2 DEF Held
      <4>4. DOMAIN Held(Seen) = Seen
        BY DEF Held
      <4>5. ASSUME NEW s \in view.lo + 1 .. view.hi - 1
            PROVE  /\ s \in Seen /\ s - 1 \in Seen
                   /\ s \in Samples /\ s - 1 \in Samples /\ s \in Nat
        <5>1. s \in Seen /\ s - 1 \in Seen
          BY <3>2 DEF Sound, ReaderTyped
        <5>2. QED
          BY <5>1, SamplesAre DEF Bounds
      <4>6. ASSUME NEW s \in Prefix!EdgesOf(Held(Seen)) PROVE s \in Found'
        <5>1. s \in Seen /\ s - 1 \in Seen /\ Held(Seen)[s] # 2 /\ Held(Seen)[s - 1] # 2
              /\ Held(Seen)[s] # Held(Seen)[s - 1]
          BY <4>4 DEF Prefix!EdgesOf
        <5>2. Clear(s) /\ word[s] # word[s - 1]
          BY <5>1 DEF Held, Clear
        <5>3. s \in view.lo + 1 .. view.hi - 1
          BY <5>1, <3>2 DEF Sound, ReaderTyped
        <5>4. s \div BlockSize[view'.top] < view'.at
          <6>1. /\ (view'.hi - 1) \div BlockSize[view'.top] < view'.at
                /\ view'.top \in Levels /\ view'.at \in Nat
            BY <3>4 DEF Sound, Walks, ReaderTyped
          <6>2. s \in Nat /\ view'.hi - 1 \in Nat /\ s <= view'.hi - 1
            BY <5>3, <4>5, <3>1 DEF Sound, ReaderTyped
          <6>3. /\ s \div BlockSize[view'.top] <= (view'.hi - 1) \div BlockSize[view'.top]
                /\ s \div BlockSize[view'.top] \in Nat
                /\ (view'.hi - 1) \div BlockSize[view'.top] \in Nat
            BY <6>1, <6>2, BlockFacts
          <6>4. QED
            BY <6>1, <6>3
        <5>5. Walks'
          BY DEF Sound
        <5>6. s \in view'.out
          BY <5>2, <5>3, <5>4, <5>5, <3>1, <3>4, <4>2 DEF Walks, Clear
        <5>7. QED
          BY <5>6, <4>2
      <4>7. ASSUME NEW s \in Found'
            PROVE  s \in Prefix!EdgesOf(Held(Seen)) \cup Prefix!Unclear(Held(Seen))
        <5>1. s \in view.lo + 1 .. view.hi - 1 /\ Bit(s)' # Bit(s - 1)'
          BY <4>2, <3>1, <3>4 DEF Sound, Walks
        <5>2. word[s] # word[s - 1]
          <6>1. Bit(s)' = word'[s] /\ Bit(s - 1)' = word'[s - 1]
            BY <5>1, <4>5, <4>2, BitIsWord DEF Sound, Bit
          <6>2. QED
            BY <5>1, <6>1, <4>2
        <5>3. s \in Seen /\ s - 1 \in Seen
          BY <5>1, <4>5
        <5>4. word[s] \in 0 .. 1 /\ word[s - 1] \in 0 .. 1
          BY <5>1, <4>5 DEF Sound, Store, TablesTyped
        <5>5. CASE s \in lost \/ s - 1 \in lost
          <6>1. Held(Seen)[s] = 2 \/ Held(Seen)[s - 1] = 2
            BY <5>3, <5>5 DEF Held
          <6>2. QED
            BY <6>1, <5>3, <4>4 DEF Prefix!Unclear
        <5>6. CASE s \notin lost /\ s - 1 \notin lost
          <6>1. Held(Seen)[s] = word[s] /\ Held(Seen)[s - 1] = word[s - 1]
            BY <5>3, <5>6 DEF Held
          <6>2. QED
            BY <6>1, <5>2, <5>3, <5>4, <4>4 DEF Prefix!EdgesOf
        <5>7. QED
          BY <5>5, <5>6
      <4>8. QED
        BY <3>2, <4>3, <4>6, <4>7 DEF Prefix!Report, Seen, Found
    <3>5. QED
      BY <3>1, <3>3, <3>4
  <2>11. ASSUME WalkEnd PROVE Prefix!End
    <3>1. UNCHANGED << store, maxSamples, wpc, frame, next, stopped, ghosts >>
      BY <2>11 DEF WalkEnd
    <3>2. Live' = Live /\ word' = word /\ lost' = lost
      BY <3>1 DEF Live, NewFirstLive, store, ghosts
    <3>3. Seen' = {} /\ Found' = {}
      BY <2>11 DEF WalkEnd, Seen, Found
    <3>4. Held(Live)' = Held(Live)
      BY <3>2 DEF Held
    <3>5. Held(Seen)' = Prefix!Nothing
      BY <3>3 DEF Held, Prefix!Nothing
    <3>6. QED
      BY <3>3, <3>4, <3>5 DEF Prefix!End, Seen, Found
  <2>12. ASSUME CopyBegin \/ CopyChunk \/ CopyEnd PROVE UNCHANGED Visible
    <3>1. Reader /\ lock' = lock /\ upc \notin {"walk", "walked"}
          /\ upc' \notin {"walk", "walked"}
      BY <2>12 DEF CopyBegin, CopyChunk, CopyEnd, Reader
    <3>2. Seen' = Seen /\ Found' = Found
      BY <3>1 DEF Seen, Found
    <3>3. QED
      BY <3>1, <3>2, ReaderStutters
  <2>13. ASSUME UNCHANGED vars PROVE UNCHANGED Visible
    <3>1. /\ Live' = Live /\ Seen' = Seen /\ Found' = Found /\ word' = word
          /\ lost' = lost
      BY <2>13 DEF vars, store, ghosts, Live, NewFirstLive, Seen, Found
    <3>2. QED
      BY <3>1, Stutters
  <2>14. QED
    BY <2>1, <2>2, <2>3, <2>4, <2>5, <2>6, <2>7, <2>8, <2>9, <2>10, <2>11, <2>12,
       <2>13, PrefixStep DEF Next, Writer, Reader
<1>3. Spec => []Sound
  BY StoreInv, LocksInv, CleanInv, MissingInv, WalksInv, ReaderType, PTL DEF Sound
<1>4. [Prefix!Next]_Visible => 
         [Prefix!Next]_<< Held(Live),
                          Held(IF upc \in {"walk", "walked"} THEN view.lo .. view.hi - 1 ELSE {}),
                          IF upc = "walked" THEN view.out ELSE {} >>
  BY DEF Visible, Seen, Found
<1>5. QED
  BY <1>1, <1>2, <1>3, <1>4, VisibleBounds, PTL DEF Spec, ImplementsPrefix, Prefix!Spec
=============================================================================
