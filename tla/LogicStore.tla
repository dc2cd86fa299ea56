----------------------------- MODULE LogicStore -----------------------------
(***************************************************************************)
(* The logic sample store of sonview (client/src/stores.cpp, stores.h) with *)
(* its chunk table and the transition pyramid of one channel (pyramid.h,    *)
(* chunked.h).  Two threads: the RX thread appends, trims and resets; the   *)
(* UI thread walks edges under the shared reclaim lock, and copies raw      *)
(* words without it (export, re-decode).                                    *)
(*                                                                         *)
(* One step of the writer is one sample, one freed chunk or one critical    *)
(* section; one step of a walk is one block of its top level, of a copy one *)
(* chunk.  A sample is the level of the one channel.  sond numbers samples  *)
(* in the order it captures them, so frames arrive in order; a frame the    *)
(* client could not decompress is lost and leaves a hole.                   *)
(***************************************************************************)
EXTENDS Integers, FiniteSets

CONSTANTS
    SPC,        \* samples per chunk
    SLOTS,      \* chunks of the table
    LEVELS,     \* PYR_LEVELS
    BlockSize,  \* pyr_block_size: samples of a block, for each level
    PCHUNK,     \* PYR_CHUNK: flags per chunk of a pyramid level
    Windows,    \* values of max_samples_, 0 for unbounded
    MaxFrame,   \* bound: samples in a frame
    MaxResets,  \* bound: acquisitions after the first
    Beyond,     \* bound: samples sent beyond the capacity
    Lossy       \* TRUE: frames may be lost

Capacity == SPC * SLOTS
Samples  == 0 .. Capacity - 1
Levels   == 0 .. LEVELS - 1

ASSUME StoreAssumption ==
    /\ SPC \in Nat \ {0} /\ SLOTS \in Nat \ {0} /\ LEVELS \in Nat \ {0}
    /\ PCHUNK \in Nat \ {0} /\ Windows \subseteq Nat /\ MaxFrame \in Nat
    /\ MaxResets \in Nat /\ Beyond \in Nat /\ Lossy \in BOOLEAN
ASSUME BlockAssumption ==
    /\ BlockSize \in [Levels -> Nat \ {0}]
    /\ \A k, l \in Levels, s, t \in Samples :
           k <= l /\ s \div BlockSize[k] = t \div BlockSize[k]
               => s \div BlockSize[l] = t \div BlockSize[l]

VARIABLES
    chunks,      \* slots of chunks_ that are not null
    word,        \* what the chunks hold, 0 where there is none
    flags,       \* set cells of the pyramid, << level, block >>
    writtenEnd, count, firstLive, maxSamples, full,
    gaps,        \* gaps_
    lock,        \* holder of reclaim_mtx_: "none", "reader", "writer"
    wpc,         \* where the RX thread is
    frame,       \* the run being appended: start, position, samples left, prev
    next,        \* number of the next sample sond sends
    stopped,     \* the handler has sent STOP because the store is full
    upc,         \* where the UI thread is: "idle", "walk", "walked", "copy", "copied", "torn"
    view,        \* the walk or copy in progress: bounds, level, cursor, result
    lost,        \* ghost: samples of this acquisition that never arrived
    dropped,     \* ghost: samples of this acquisition fell off the capacity
    resets       \* bound

store  == << chunks, word, flags, writtenEnd, count, firstLive, full, gaps >>
ghosts == << lost, dropped, resets >>
vars   == << store, maxSamples, lock, wpc, frame, next, stopped, upc, view,
             ghosts >>

-----------------------------------------------------------------------------
(* Reading and marking.                                                    *)

Larger(a, b)  == IF a > b THEN a ELSE b
Smaller(a, b) == IF a < b THEN a ELSE b

Slot(s) == s \div SPC

\* bit(): the level at s, 0 in a hole.
Bit(s) == IF Slot(s) \in chunks THEN word[s] ELSE 0

Cell(l, s) == << l, s \div BlockSize[l] >>

\* A mutant: nothing above level 0 is marked once one block of it is.
MarkedOnce(s) == IF \E f \in flags : f[1] = 0 THEN {Cell(0, s)}
                 ELSE {Cell(l, s) : l \in Levels}

\* set_transition: mark the blocks around s from level 0 upwards, and stop at
\* the first that is marked already.
Marked(s) ==
    {Cell(l, s) : l \in {l \in Levels : \A k \in 0 .. l : Cell(k, s) \notin flags}}

\* walk_block below a block of level `top`: the scan reaches s when every block
\* around it is flagged, and compares it with its predecessor unless it is the
\* first sample of the view.
Scan(top, block, lo, hi) ==
    {s \in lo + 1 .. hi - 1 :
        /\ s \div BlockSize[top] = block
        /\ \A l \in 0 .. top : Cell(l, s) \in flags
        /\ Bit(s) # Bit(s - 1)}

\* A reader moves its cursor and notes what it found.
Advance(at, found) == [lo |-> view.lo, hi |-> view.hi, top |-> view.top,
                       at |-> at, out |-> view.out \cup found]

NoView  == [lo |-> 0, hi |-> 0, top |-> 0, at |-> 0, out |-> {}]
NoFrame == [from |-> 0, at |-> 0, left |-> 0, prev |-> -1]

Init ==
    /\ chunks = {} /\ word = [s \in Samples |-> 0] /\ flags = {}
    /\ writtenEnd = 0 /\ count = 0 /\ firstLive = 0 /\ full = FALSE /\ gaps = {}
    /\ maxSamples \in Windows
    /\ lock = "none" /\ wpc = "idle" /\ frame = NoFrame /\ next = 0
    /\ stopped = FALSE /\ upc = "idle" /\ view = NoView
    /\ lost = {} /\ dropped = FALSE /\ resets = 0

-----------------------------------------------------------------------------
(* The RX thread.                                                          *)

\* sond sends n samples that do not arrive.
LoseFrame(n) ==
    /\ Lossy /\ wpc = "idle" /\ next + n <= Capacity
    /\ next' = next + n
    /\ lost' = lost \cup (next .. next + n - 1)
    /\ UNCHANGED << store, maxSamples, lock, wpc, frame, stopped, upc, view,
                    dropped, resets >>

\* append() begins: note a gap, look at the sample before the run.
BeginAppend(n) ==
    /\ wpc = "idle" /\ next + n <= Capacity + Beyond
    /\ LET disc == next > writtenEnd
           seen == next > 0 /\ ~disc /\ Slot(next - 1) \in chunks
       IN  /\ gaps' = IF disc THEN gaps \cup {next} ELSE gaps
           /\ frame' = [from |-> next, at |-> next, left |-> n,
                        prev |-> IF seen THEN word[next - 1] ELSE -1]
    /\ next' = next + n
    /\ wpc' = "append"
    /\ UNCHANGED << chunks, word, flags, writtenEnd, count, firstLive, full,
                    maxSamples, lock, stopped, upc, view, ghosts >>

\* One sample of level v: allocate its chunk (zeroed), store it and mark a
\* transition from the sample before.
AppendSample(v) ==
    /\ wpc = "append" /\ frame.left > 0 /\ Slot(frame.at) < SLOTS
    /\ LET s == frame.at
       IN  /\ chunks' = chunks \cup {Slot(s)}
           /\ word' = [word EXCEPT ![s] = v]
           /\ flags' = IF frame.prev \in {-1, v} THEN flags
                       ELSE flags \cup Marked(s)
           /\ frame' = [from |-> frame.from, at |-> s + 1,
                        left |-> frame.left - 1, prev |-> v]
    /\ UNCHANGED << writtenEnd, count, firstLive, full, gaps, maxSamples, lock,
                    wpc, next, stopped, upc, view, ghosts >>

\* A mutant: samples that fall off the capacity are not flagged.
PublishSilently ==
    /\ wpc = "append"
    /\ frame.left > 0 => Slot(frame.at) >= SLOTS
    /\ writtenEnd' = IF frame.at > frame.from THEN Larger(writtenEnd, frame.at)
                     ELSE writtenEnd
    /\ count' = writtenEnd'
    /\ wpc' = IF maxSamples # 0 /\ writtenEnd' - firstLive > maxSamples
              THEN "trim" ELSE "idle"
    /\ frame' = NoFrame
    /\ UNCHANGED << chunks, word, flags, firstLive, gaps, full, maxSamples, lock,
                    next, stopped, upc, view, ghosts >>

\* The run is stored, or met the capacity: publish the count.  An unbounded
\* capture whose store is full is asked to stop.
Publish ==
    /\ wpc = "append"
    /\ frame.left > 0 => Slot(frame.at) >= SLOTS
    /\ full' = (full \/ frame.left > 0)
    /\ dropped' = (dropped \/ frame.left > 0)
    /\ writtenEnd' = IF frame.at > frame.from THEN Larger(writtenEnd, frame.at)
                     ELSE writtenEnd
    /\ count' = writtenEnd'
    /\ wpc' = IF maxSamples # 0 /\ writtenEnd' - firstLive > maxSamples
              THEN "trim" ELSE "idle"
    /\ stopped' = (stopped \/ (maxSamples = 0 /\ full'))
    /\ frame' = NoFrame
    /\ UNCHANGED << chunks, word, flags, firstLive, gaps, maxSamples, lock,
                    next, upc, view, lost, resets >>

\* trim() and reset() free chunks under the unique lock, which waits for walks.
Lock(from, to) ==
    /\ wpc = from /\ lock = "none"
    /\ lock' = "writer" /\ wpc' = to
    /\ UNCHANGED << store, maxSamples, frame, next, stopped, upc, view, ghosts >>

NewFirstLive == writtenEnd - maxSamples

\* A mutant: a reset keeps the chunks for the next acquisition.
DeadKept == IF wpc = "resetting" THEN {}
            ELSE {c \in chunks : Slot(firstLive) <= c /\ c < Slot(NewFirstLive)}

\* The chunks a trim frees, a reset frees all.
Dead == IF wpc = "resetting" THEN chunks
        ELSE {c \in chunks : Slot(firstLive) <= c /\ c < Slot(NewFirstLive)}

FreeChunk ==
    /\ wpc \in {"trimming", "resetting"}
    /\ \E c \in Dead : /\ chunks' = chunks \ {c}
                       /\ word' = [t \in Samples |-> IF Slot(t) = c THEN 0 ELSE word[t]]
    /\ upc'  = IF upc \in {"copy", "copied"} THEN "torn" ELSE upc
    /\ view' = IF upc \in {"copy", "copied"} THEN NoView ELSE view
    /\ UNCHANGED << flags, writtenEnd, count, firstLive, full, gaps, maxSamples,
                    lock, wpc, frame, next, stopped, ghosts >>

\* The pyramid chunks and gaps below the window follow; then it is published.
TrimDone ==
    /\ wpc = "trimming" /\ Dead = {}
    /\ flags' = {f \in flags : f[2] \div PCHUNK
                     >= (NewFirstLive \div BlockSize[f[1]]) \div PCHUNK}
    /\ gaps' = {g \in gaps : g >= NewFirstLive}
    /\ firstLive' = NewFirstLive
    /\ lock' = "none" /\ wpc' = "idle"
    /\ UNCHANGED << chunks, word, writtenEnd, count, full, maxSamples, frame,
                    next, stopped, upc, view, ghosts >>

\* reset(), set_tracked_bits() and set_max_samples() of the next acquisition;
\* a walk in between finds no samples and reads nothing.
ResetDone(window) ==
    /\ wpc = "resetting" /\ Dead = {}
    /\ flags' = {} /\ gaps' = {}
    /\ writtenEnd' = 0 /\ count' = 0 /\ firstLive' = 0
    /\ maxSamples' = window
    /\ lock' = "none" /\ wpc' = "idle"
    /\ next' = 0 /\ lost' = {} /\ dropped' = FALSE /\ stopped' = FALSE
    /\ resets' = resets + 1
    /\ UNCHANGED << chunks, word, full, frame, upc, view >>

-----------------------------------------------------------------------------
(* The UI thread.                                                          *)

\* A mutant: the view is not clamped to the samples still held.
WalkUnclamped(first, last, top) ==
    /\ upc = "idle" /\ lock = "none"
    /\ first < Smaller(last, count)
    /\ view' = [lo |-> first, hi |-> Smaller(last, count), top |-> top,
                at |-> first \div BlockSize[top], out |-> {}]
    /\ lock' = "reader" /\ upc' = "walk"
    /\ UNCHANGED << store, maxSamples, wpc, frame, next, stopped, ghosts >>

\* walk() takes the shared lock and clamps the view to what is held.
WalkBegin(first, last, top) ==
    /\ upc = "idle" /\ lock = "none"
    /\ LET lo == Larger(first, firstLive)
           hi == Smaller(last, count)
       IN  /\ lo < hi
           /\ view' = [lo |-> lo, hi |-> hi, top |-> top,
                       at |-> lo \div BlockSize[top], out |-> {}]
    /\ lock' = "reader" /\ upc' = "walk"
    /\ UNCHANGED << store, maxSamples, wpc, frame, next, stopped, ghosts >>

WalkBlock ==
    /\ upc = "walk"
    /\ LET last == (view.hi - 1) \div BlockSize[view.top]
           edges == Scan(view.top, view.at, view.lo, view.hi)
       IN  /\ view' = Advance(view.at + 1, edges)
           /\ upc' = IF view.at = last THEN "walked" ELSE "walk"
    /\ UNCHANGED << store, maxSamples, lock, wpc, frame, next, stopped, ghosts >>

WalkEnd ==
    /\ upc = "walked"
    /\ lock' = "none" /\ upc' = "idle"
    /\ view' = NoView
    /\ UNCHANGED << store, maxSamples, wpc, frame, next, stopped, ghosts >>

\* copy_raw() of everything held, as export and re-decode use it: no lock.  A
\* copy that chunks are freed under is torn: what it returns is undefined.
CopyBegin ==
    /\ upc = "idle" /\ firstLive < count
    /\ IF lock = "writer"
       THEN upc' = "torn" /\ view' = NoView
       ELSE upc' = "copy" /\ view' = [lo |-> firstLive, hi |-> count, top |-> 0,
                                      at |-> firstLive, out |-> {}]
    /\ UNCHANGED << store, maxSamples, lock, wpc, frame, next, stopped, ghosts >>

\* The words of one chunk; words below the count are never written again, so
\* only the freeing of a chunk can come in between.
CopyChunk ==
    /\ upc = "copy"
    /\ LET end == Smaller((Slot(view.at) + 1) * SPC, view.hi)
       IN  /\ view' = Advance(end, {s \in view.at .. end - 1 : Bit(s) = 1})
           /\ upc' = IF end = view.hi THEN "copied" ELSE "copy"
    /\ UNCHANGED << store, maxSamples, lock, wpc, frame, next, stopped, ghosts >>

CopyEnd ==
    /\ upc \in {"copied", "torn"}
    /\ upc' = "idle" /\ view' = NoView
    /\ UNCHANGED << store, maxSamples, lock, wpc, frame, next, stopped, ghosts >>

-----------------------------------------------------------------------------

Writer ==
    \/ \E n \in 1 .. MaxFrame : LoseFrame(n) \/ BeginAppend(n)
    \/ \E v \in 0 .. 1 : AppendSample(v)
    \/ Publish
    \/ Lock("trim", "trimming")
    \/ resets < MaxResets /\ Lock("idle", "resetting")
    \/ FreeChunk
    \/ TrimDone
    \/ \E w \in Windows : ResetDone(w)

Reader ==
    \/ \E first \in Samples, last \in 1 .. Capacity, top \in Levels :
           WalkBegin(first, last, top)
    \/ WalkBlock
    \/ WalkEnd
    \/ CopyBegin
    \/ CopyChunk
    \/ CopyEnd

Next == Writer \/ Reader

Spec == Init /\ [][Next]_vars

-----------------------------------------------------------------------------
(* Properties.                                                             *)

\* The values every variable may take.
TypeOK ==
    /\ chunks \subseteq 0 .. SLOTS - 1
    /\ word \in [Samples -> 0 .. 1]
    /\ flags \subseteq Levels \X Nat
    /\ writtenEnd \in 0 .. Capacity /\ count \in 0 .. Capacity
    /\ firstLive \in 0 .. Capacity /\ full \in BOOLEAN
    /\ gaps \subseteq Nat /\ maxSamples \in Windows
    /\ lock \in {"none", "reader", "writer"}
    /\ wpc \in {"idle", "append", "trim", "trimming", "resetting"}
    /\ frame \in [from : Nat, at : Nat, left : Nat, prev : -1 .. 1]
    /\ next \in Nat /\ stopped \in BOOLEAN
    /\ upc \in {"idle", "walk", "walked", "copy", "copied", "torn"}
    /\ view \in [lo : Nat, hi : Nat, top : Levels, at : Nat, out : SUBSET Nat]
    /\ lost \subseteq Nat /\ dropped \in BOOLEAN /\ resets \in Nat

\* The samples s at which both s and the one before were delivered.
Clear(s) == s \notin lost /\ s - 1 \notin lost

\* At every zoom, a walk reports exactly the level changes of its view, a
\* one-sample glitch included, while the RX thread appends.  walk_block skips
\* a block without a flag, so this is about the early exit of set_transition,
\* the pyramid chunks a trim drops and the order of marking and publishing.
WalkExact ==
    upc = "walked" =>
        \A s \in view.lo + 1 .. view.hi - 1 :
            Clear(s) => (s \in view.out <=> word[s] # word[s - 1])

\* No chunk a walk may still read is freed: while one is in progress every
\* sample of its view is in the table, unless it was never delivered.
WalkHoldsChunks ==
    upc \in {"walk", "walked"} =>
        \A s \in view.lo .. view.hi - 1 : s \notin lost => Slot(s) \in chunks

\* What is exported or sent back to be decoded is what was captured, zero in
\* a hole, if nothing was freed meanwhile: a reused slot starts zeroed, and
\* nothing of the acquisition before shines through.
CopyFaithful ==
    upc = "copied" =>
        view.out = {s \in view.lo .. view.hi - 1 : s \notin lost /\ word[s] = 1}

\* Every sample that arrived is held or was trimmed, up to the capacity; what
\* falls off it is flagged, and ends an unbounded capture.
NothingForgotten ==
    wpc = "idle" =>
        /\ \A s \in 0 .. next - 1 : s \notin lost /\ s < Capacity => s < count
        /\ next > Capacity => full
        /\ next > Capacity /\ maxSamples = 0 => stopped

\* The memory of a rolling capture stays within its window: the chunks of
\* samples, and of flags at every level, that as many samples can lie in.
WindowBounded ==
    wpc = "idle" /\ maxSamples # 0 =>
        /\ Cardinality(chunks) <= (maxSamples - 1) \div SPC + 2
        /\ \A l \in Levels :
               Cardinality({f[2] \div PCHUNK : f \in {f \in flags : f[1] = l}})
                   <= (maxSamples - 1) \div (BlockSize[l] * PCHUNK) + 2

\* full() says that the samples of this acquisition did not fit
\* (stores.h:43).
FullIsTrue == full /\ wpc = "idle" => dropped

\* No chunk is freed while copy_raw reads (chunked.h:3: any element below the
\* published count can be read with no locking).
CopySafe == upc # "torn"

\* A walk sees a snapshot, as PrefixStore says.  What trim and reset are about
\* to free is gone once they hold the lock.
Live == CASE wpc = "trimming"  -> NewFirstLive .. count - 1
          [] wpc = "resetting" -> {}
          [] OTHER             -> firstLive .. count - 1
Held(S) == [s \in S |-> IF s \in lost THEN 2 ELSE word[s]]
Prefix == INSTANCE PrefixStore WITH
    Lost   <- 2,
    data   <- Held(Live),
    snap   <- Held(IF upc \in {"walk", "walked"} THEN view.lo .. view.hi - 1 ELSE {}),
    answer <- IF upc = "walked" THEN view.out ELSE {}
ImplementsPrefix == Prefix!Spec
=============================================================================
