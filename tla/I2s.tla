--------------------------------- MODULE I2s ---------------------------------
(***************************************************************************)
(* The i2s_ex decoder (decoders/i2s_ex/pd.py): words of serial audio cut    *)
(* out between the edges of WS, or counted off after a frame sync.  A step  *)
(* is one return of wait(): an edge of WS, which wins, or the clock edge at *)
(* which SD is sampled.                                                     *)
(*                                                                         *)
(* The transmitter is external: in each slot it sends the bits of a word    *)
(* where its format puts them, and pads the slot with any bits.  It may be  *)
(* in the middle of a slot when the capture begins.  tools/gen_i2s.py sends *)
(* "i2s" with a clock of its own before the word; a Philips transmitter     *)
(* changes WS one clock early, so that this clock is the last of the slot   *)
(* before.                                                                  *)
(***************************************************************************)
EXTENDS Integers, Sequences, SequencesExt

CONSTANTS
    Senders,   \* of {"i2s", "left", "right", "pcm", "philips"}
    WordSize,  \* bits of a word, and the option wordsize
    MaxPad,    \* bound: further clocks in a slot
    PhilipsPad,\* and at least so many from a Philips transmitter
    MaxSlots   \* bound: slots sent

ASSUME I2sAssumption ==
    /\ Senders \subseteq {"i2s", "left", "right", "pcm", "philips"}
    /\ WordSize \in Nat \ {0}
    /\ MaxPad \in Nat /\ PhilipsPad \in Nat /\ MaxSlots \in Nat

VARIABLES
    sender,    \* the transmitter, which the option format follows
    msbFirst,  \* the option bitorder
    wsLeft,    \* the option wspol, as a level
    line,      \* what the transmitter still has to clock in this slot
    carry,     \* the last bit of a slot, clocked in the next
    ws,        \* WS
    bits,      \* the bits collected
    lvl,       \* ws_level, -1 before the first edge
    slot,      \* the slot of the PCM frame
    words,     \* the words put out
    told       \* ghost: the words of the slots begun since the first edge

i2sVars == << sender, msbFirst, wsLeft, line, carry, ws, bits, lvl, slot, words, told >>
options == << sender, msbFirst, wsLeft >>

fmt == IF sender = "philips" THEN "i2s" ELSE sender

Strings(n) == [1 .. n -> {0, 1}]

\* _assemble(): the first bit is the most significant one, or the last is.
Number(seq) == FoldLeft(LAMBDA v, b : 2 * v + b, 0, seq)
Value(seq)  == Number(IF msbFirst THEN seq ELSE Reverse(seq))

I2sInit ==
    /\ sender \in Senders /\ msbFirst \in BOOLEAN
    /\ wsLeft \in {0, 1} /\ ws \in {0, 1}
    /\ line \in Strings(0) \cup Strings(2) /\ carry = 0
    /\ bits = << >> /\ lvl = -1 /\ slot = 0
    /\ words = << >> /\ told = << >>

-----------------------------------------------------------------------------
(* The decoder.                                                            *)

\* A mutant: the clock after the edge is not skipped.
CutAtEdge(seq) ==
    IF fmt # "right" /\ Len(seq) > WordSize THEN SubSeq(seq, 1, WordSize)
    ELSE IF fmt = "right" /\ Len(seq) > WordSize
         THEN SubSeq(seq, Len(seq) - WordSize + 1, Len(seq)) ELSE seq

\* _emit_slot(): which of the bits collected are the word.
Cut(seq) ==
    LET data == IF fmt = "i2s" /\ seq # << >> THEN Tail(seq) ELSE seq
    IN  IF Len(data) <= WordSize THEN data
        ELSE IF fmt = "right" THEN SubSeq(data, Len(data) - WordSize + 1, Len(data))
        ELSE SubSeq(data, 1, WordSize)

\* _emit_word(): nothing without bits.
Emitted(ch, seq) ==
    IF seq = << >> THEN words ELSE Append(words, [ch |-> ch, value |-> Value(seq)])

Side(level) == IF level = wsLeft THEN 0 ELSE 1

-----------------------------------------------------------------------------
(* The two ends together.                                                  *)

\* An edge of WS: the transmitter begins a slot, the decoder ends one, but for
\* the first.
WsEdge ==
    /\ fmt # "pcm" /\ line = << >> /\ Len(told) < MaxSlots
    /\ words' = IF lvl = -1 THEN words ELSE Emitted(Side(lvl), Cut(bits))
    /\ ws' = 1 - ws /\ lvl' = ws' /\ bits' = << >>
    /\ \E word \in Strings(WordSize),
          n \in (IF sender = "philips" THEN PhilipsPad ELSE 0) .. MaxPad :
       \E pad \in Strings(n) :
          /\ line' = CASE sender = "philips" -> << carry >> \o Front(word \o pad)
                       [] sender = "i2s"     -> << carry >> \o word \o pad
                       [] sender = "left"    -> word \o pad
                       [] sender = "right"   -> pad \o word
          /\ carry' = Last(word \o pad)
          /\ told' = Append(told, [ch |-> Side(ws'), value |-> Value(word)])
    /\ UNCHANGED << options, slot >>

\* The frame sync of PCM: what was left of the last frame is put out too.
FrameSync ==
    /\ fmt = "pcm" /\ line = << >> /\ Len(told) < MaxSlots
    /\ words' = IF lvl = -1 THEN words ELSE Emitted(2 + slot, bits)
    /\ slot' = 0 /\ bits' = << >> /\ lvl' = 1
    /\ \E a, b \in Strings(WordSize) :
          /\ line' = a \o b
          /\ told' = told \o << [ch |-> 2, value |-> Value(a)],
                                [ch |-> 3, value |-> Value(b)] >>
    /\ UNCHANGED << options, carry, ws >>

\* A clock edge: SD is collected, and a PCM word is complete at its size.
Clock ==
    /\ line # << >>
    /\ LET got == Append(bits, Head(line))
       IN  CASE lvl = -1 ->
                  UNCHANGED << bits, slot, words >>
             [] lvl # -1 /\ fmt = "pcm" /\ Len(got) >= WordSize ->
                  /\ words' = Emitted(2 + slot, got)
                  /\ slot' = slot + 1 /\ bits' = << >>
             [] OTHER ->
                  bits' = got /\ UNCHANGED << slot, words >>
    /\ line' = Tail(line)
    /\ UNCHANGED << options, carry, ws, lvl, told >>

I2sNext == WsEdge \/ FrameSync \/ Clock

I2sSpec == I2sInit /\ [][I2sNext]_i2sVars

-----------------------------------------------------------------------------
(* Properties.                                                             *)

\* Wherever in a slot the capture begins, the words put out are the words sent
\* from the first edge on, each on its channel, and at an edge at most the last
\* slot is missing.  (A Philips transmitter that pads no slot breaks it: the
\* last bit of a word comes after the edge that ends its slot.)
WordsRoundTrip ==
    /\ IsPrefix(words, told)
    /\ line = << >> /\ told # << >> =>
          Len(words) >= IF fmt = "pcm" THEN Len(told) ELSE Len(told) - 1
=============================================================================
