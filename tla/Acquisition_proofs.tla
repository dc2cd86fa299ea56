------------------------- MODULE Acquisition_proofs -------------------------
(***************************************************************************)
(* Proofs about Acquisition for all bounds, any kinds of samples, any       *)
(* selection of Acts, and calm and impatient users alike.  Only two of the  *)
(* theorems, on annotations and on the recording, name in their hypotheses  *)
(* the acts without which they hold.                                        *)
(***************************************************************************)
EXTENDS Acquisition, TLAPS

\* The flags are Boolean: the atomics of app.h and the flags of the model.
LEMMA FlagsCorrect == Spec => []FlagsOK
<1> USE DEF FlagsOK, vars, ui, screen, pend, rx, server
<1>1. Init => FlagsOK
  BY Zenon DEF Init

<1>2. FlagsOK /\ [Next]_vars => FlagsOK'
  <2> SUFFICES ASSUME FlagsOK, [Next]_vars PROVE FlagsOK'
    OBVIOUS
  <2>1. CASE UiThread
    <3>1. CASE PressStart
      BY <3>1, Zenon DEF PressStart, StartSent, StartRefused
    <3>2. CASE StartDone
      BY <3>2, Zenon DEF StartDone
    <3>3. CASE PressStop
      BY <3>3, Zenon DEF PressStop
    <3>4. CASE ToggleRepeat
      BY <3>4, Zenon DEF ToggleRepeat
    <3>5. CASE ChangeMode
      BY <3>5, Zenon DEF ChangeMode
    <3>6. CASE HandleEnd
      BY <3>6, Zenon DEF HandleEnd, StartSent, StartRefused
    <3>7. CASE HandleDecoded
      BY <3>7, Zenon DEF HandleDecoded
    <3>8. CASE Redecode
      BY <3>8, Zenon DEF Redecode
    <3>9. CASE Connect
      BY <3>9, Zenon DEF Connect
    <3>10. CASE Disconnect
      BY <3>10, Zenon DEF Disconnect, Cut
    <3>11. QED BY <2>1, <3>1, <3>2, <3>3, <3>4, <3>5, <3>6, <3>7, <3>8, <3>9, <3>10 DEF UiThread
  <2>2. CASE RxThread
    <3>1. CASE RecvMeta
      BY <3>1, Zenon DEF RecvMeta, Receiving
    <3>2. CASE RecvTrigger
      BY <3>2, Zenon DEF RecvTrigger, Receiving
    <3>3. ASSUME NEW kind \in Kinds, RecvData(kind) PROVE FlagsOK'
      BY <3>3, Zenon DEF RecvData
    <3>4. CASE CommitReset
      <4>1. SwapMode \in BOOLEAN
        BY Zenon DEF SwapMode, HasLogic
      <4>2. QED BY <3>4, <4>1, Zenon DEF CommitReset, Step
    <3>5. CASE CommitAnns
      BY <3>5, Zenon DEF CommitAnns, Step
    <3>6. CASE CommitMeta
      BY <3>6, Zenon DEF CommitMeta, Step
    <3>7. CASE CommitRecord
      BY <3>7, Zenon DEF CommitRecord, Step
    <3>8. CASE AppendData
      BY <3>8, Zenon DEF AppendData, Step
    <3>9. CASE RecvAnn
      BY <3>9, Zenon DEF RecvAnn, Annotate
    <3>10. CASE RecvRedecoded
      BY <3>10, Zenon DEF RecvRedecoded, Annotate
    <3>11. CASE RecvDecodeEnd
      BY <3>11, Zenon DEF RecvDecodeEnd
    <3>12. CASE RecvEnd
      BY <3>12, Zenon DEF RecvEnd
    <3>13. CASE SwapBegin
      BY <3>13, Zenon DEF SwapBegin, Step
    <3>14. CASE SwapRecord
      BY <3>14, Zenon DEF SwapRecord, Step
    <3>15. CASE SwapMarker
      BY <3>15, Zenon DEF SwapMarker, Step
    <3>16. CASE SwapLive
      BY <3>16, Zenon DEF SwapLive, Step
    <3>17. CASE Tell
      BY <3>17, Zenon DEF Tell, Step
    <3>18. QED
      BY <2>2, <3>1, <3>2, <3>3, <3>4, <3>5, <3>6, <3>7, <3>8, <3>9, <3>10, <3>11,
         <3>12, <3>13, <3>14, <3>15, <3>16, <3>17 DEF RxThread, Commit, Swap
  <2>3. CASE Server
    <3>1. CASE TakeStart
      BY <3>1, Zenon DEF TakeStart
    <3>2. CASE TakeDecode
      BY <3>2, Zenon DEF TakeDecode
    <3>3. CASE CaptureOver
      BY <3>3, Zenon DEF CaptureOver
    <3>4. QED BY <2>3, <3>1, <3>2, <3>3 DEF Server
  <2>4. CASE Lose
    BY <2>4, Zenon DEF Lose, Cut
  <2>5. CASE UNCHANGED vars
    BY <2>5, Zenon
  <2>6. QED BY <2>1, <2>2, <2>3, <2>4, <2>5 DEF Next
<1>3. QED BY <1>1, <1>2, PTL DEF Spec

\* The messages and frames the actions build are of the types they should be.
LEMMA StartIsRequest == Frame("START", 0, 0) \in Requests
  BY DEF Requests

LEMMA DecodeIsRequest ==
  \A a \in 1 .. MaxAcq, n \in 1 .. MaxRedecode : Frame("DECODE", a, n) \in Requests
  BY DEF Requests, Decodes, Frame

LEMMA SampleIsFrame ==
  \A kind \in Kinds, a \in 1 .. MaxAcq, n \in 1 .. MaxFrames :
    Frame(kind, a, n) \in SampleFrames
  BY KindsAssumption DEF SampleFrames, Frame

LEMMA AnnIsFrame ==
  \A a \in 1 .. MaxAcq, n \in 0 .. MaxRedecode : Frame("ann", a, n) \in AnnFrames
  BY DEF AnnFrames, Frame

LEMMA TakenDecode ==
  \A m \in Requests : m.type = "DECODE" => m \in Decodes("DECODE")
  BY DEF Requests, Decodes, Frame

LEMMA WorkedDecode ==
  ASSUME decoding \in {NoDecode} \cup Decodes("DECODE") \cup Decodes("done"),
         decoding.type = "DECODE"
  PROVE  /\ decoding.of \in 1 .. MaxAcq /\ decoding.n \in 1 .. MaxRedecode
         /\ [decoding EXCEPT !.type = "done"] \in Decodes("done")
  BY DEF NoDecode, Decodes

LEMMA AppendTyped ==
  ASSUME NEW S, NEW s \in Seq(S), NEW x \in S PROVE Append(s, x) \in Seq(S)
  OBVIOUS

\* The server's capture thread while it streams, and when it ends.
LEMMA ServingSends ==
  ASSUME srv \in Servings, srv.state = "streaming",
         srv.state = "streaming" => acq > 0, acq \in Acquisitions
  PROVE  /\ acq \in 1 .. MaxAcq
         /\ srv.data < MaxFrames => srv.data + 1 \in 1 .. MaxFrames
         /\ srv.data < MaxFrames => [srv EXCEPT !.data = @ + 1] \in Servings
         /\ [srv EXCEPT !.data = @ + 1].state = srv.state
         /\ [srv EXCEPT !.ann = TRUE] \in Servings
         /\ [srv EXCEPT !.ann = TRUE].state = srv.state
<1>1. acq \in 1 .. MaxAcq
  BY BoundsAssumption DEF Acquisitions
<1>2. srv.data < MaxFrames => srv.data + 1 \in 1 .. MaxFrames
  BY BoundsAssumption DEF Servings
<1>3. srv.data < MaxFrames => [srv EXCEPT !.data = @ + 1] \in Servings
  BY BoundsAssumption DEF Servings
<1>4. /\ [srv EXCEPT !.data = @ + 1].state = srv.state
      /\ [srv EXCEPT !.ann = TRUE] \in Servings
      /\ [srv EXCEPT !.ann = TRUE].state = srv.state
  BY DEF Servings
<1>5. QED BY <1>1, <1>2, <1>3, <1>4

LEMMA ServingEnds ==
  ASSUME NEW state \in {"ending", "idle"}
  PROVE  /\ [NoCapture EXCEPT !.state = state] \in Servings
         /\ [NoCapture EXCEPT !.state = state].state # "streaming"
<1>1. NoCapture \in Servings
  BY BoundsAssumption DEF NoCapture, Servings
<1>2. QED BY <1>1 DEF Servings

\* A buffer with one more sample frame or annotation batch, or with fewer.
LEMMA BufferChanges ==
  ASSUME NEW b \in Buffers
  PROVE  /\ b.samples \in SUBSET SampleFrames /\ b.anns \in SUBSET AnnFrames
         /\ \A s \in SUBSET SampleFrames : [b EXCEPT !.samples = s] \in Buffers
         /\ \A a \in SUBSET AnnFrames : [b EXCEPT !.anns = a] \in Buffers
  BY DEF Buffers

\* Everything but the flags and the recording keeps its type.
LEMMA DataCorrect == Spec => []DataOK
<1> USE BoundsAssumption DEF DataOK, vars, ui, screen, pend, rx, server
<1>1. Init => DataOK
  <2>1. EmptyBuf \in Buffers
    BY DEF EmptyBuf, Buffers
  <2>2. NoCapture \in Servings /\ NoCapture.state = "idle"
    BY DEF NoCapture, Servings
  <2>3. QED BY <2>1, <2>2 DEF Init, Acquisitions, Places, Handling, Committing, Closing,
                             Swapping

<1>2. DataOK /\ [Next]_vars => DataOK'
  <2> SUFFICES ASSUME DataOK, [Next]_vars PROVE DataOK'
    OBVIOUS
  <2>1. CASE UiThread
    <3>1. CASE PressStart
      <4>1. toServer' \in Seq(Requests)
        BY <3>1, StartIsRequest DEF PressStart, StartSent, StartRefused
      <4>2. QED BY <3>1, <4>1 DEF PressStart, StartSent, StartRefused
    <3>2. CASE StartDone
      BY <3>2 DEF StartDone
    <3>3. CASE PressStop
      BY <3>3 DEF PressStop
    <3>4. CASE ToggleRepeat
      BY <3>4 DEF ToggleRepeat
    <3>5. CASE ChangeMode
      BY <3>5 DEF ChangeMode
    <3>6. CASE HandleEnd
      <4>1. toServer' = toServer \/ toServer' = Append(toServer, Frame("START", 0, 0))
        BY <3>6, Zenon DEF HandleEnd, StartSent, StartRefused
      <4>2. toServer' \in Seq(Requests)
        BY <4>1, StartIsRequest
      <4>3. QED BY <3>6, <4>2 DEF HandleEnd, StartSent, StartRefused
    <3>7. CASE HandleDecoded
      BY <3>7 DEF HandleDecoded
    <3>8. CASE Redecode
      <4>1. buf' \in [{0, 1} -> Buffers]
        BY <3>8 DEF Redecode, Buffers
      <4>2. redecodes' \in 1 .. MaxRedecode /\ Shown \subseteq SampleFrames
        BY <3>8 DEF Redecode, Shown, Buffers
      <4>3. toServer' \in Seq(Requests)
        <5>1. \A f \in Shown : Frame("DECODE", f.of, redecodes') \in Requests
          BY <4>2, DecodeIsRequest DEF SampleFrames
        <5>2. \/ toServer' = toServer
              \/ \E f \in Shown :
                    toServer' = Append(toServer, Frame("DECODE", f.of, redecodes'))
          BY <3>8, Zenon DEF Redecode
        <5>3. QED BY <5>1, <5>2, AppendTyped
      <4>4. QED BY <3>8, <4>1, <4>2, <4>3 DEF Redecode
    <3>9. CASE Connect
      BY <3>9 DEF Connect
    <3>10. CASE Disconnect
      BY <3>10 DEF Disconnect, Cut, NoCapture, Servings
    <3>11. QED BY <2>1, <3>1, <3>2, <3>3, <3>4, <3>5, <3>6, <3>7, <3>8, <3>9, <3>10 DEF UiThread
  <2>2. CASE RxThread
    <3>1. CASE RecvMeta
      <4>1. srv' \in Servings
        BY <3>1 DEF RecvMeta, Servings
      <4>2. QED BY <3>1, <4>1 DEF RecvMeta, Receiving, Acquisitions
    <3>2. CASE RecvTrigger
      <4>1. srv' \in Servings /\ srv'.state = srv.state
        BY <3>2 DEF RecvTrigger, Servings
      <4>2. QED BY <3>2, <4>1 DEF RecvTrigger, Receiving
    <3>3. ASSUME NEW kind \in Kinds, RecvData(kind) PROVE DataOK'
      <4>1. /\ srv' \in Servings /\ srv'.state = srv.state
            /\ srv.data + 1 \in 1 .. MaxFrames /\ acq \in 1 .. MaxAcq
        BY <3>3, ServingSends DEF RecvData
      <4>2. SampleFrame(kind) \in SampleFrames
        BY <4>1, SampleIsFrame DEF SampleFrame
      <4>3. hand' \in SampleFrames /\ hand' # NoFrame
        BY <3>3, <4>2, KindsAssumption DEF RecvData, NoFrame, SampleFrames
      <4>4. rpc' \in Places /\ rpc' \notin Closing
        BY <3>3, Zenon DEF RecvData, Places, Handling, Committing, Closing, Swapping
      <4>5. QED BY <3>3, <4>1, <4>3, <4>4 DEF RecvData
    <3>4. CASE CommitReset
      <4>1. fill' \in {0, 1} /\ rpc = "reset" /\ rpc' = "anns"
        BY <3>4 DEF CommitReset, Step
      <4>2. buf' \in [{0, 1} -> Buffers]
        BY <3>4, <4>1, BufferChanges DEF CommitReset
      <4>3. QED BY <3>4, <4>1, <4>2 DEF CommitReset, Step, Places, Handling, Committing,
                                       Closing, Swapping
    <3>5. CASE CommitAnns
      <4>1. buf' \in [{0, 1} -> Buffers]
        BY <3>5, BufferChanges DEF CommitAnns
      <4>2. QED BY <3>5, <4>1 DEF CommitAnns, Step, Places, Handling, Committing,
                                 Closing, Swapping
    <3>6. CASE CommitMeta
      <4>1. buf' \in [{0, 1} -> Buffers]
        BY <3>6, BufferChanges DEF CommitMeta
      <4>2. QED BY <3>6, <4>1 DEF CommitMeta, Step, Places, Handling, Committing,
                                 Closing, Swapping
    <3>7. CASE CommitRecord
      BY <3>7 DEF CommitRecord, Step, Places, Handling, Committing, Closing, Swapping
    <3>8. CASE AppendData
      <4>1. hand \in SampleFrames
        BY <3>8 DEF AppendData, Step, Handling, Committing
      <4>2. buf' \in [{0, 1} -> Buffers]
        BY <3>8, <4>1, BufferChanges DEF AppendData
      <4>3. QED BY <3>8, <4>2 DEF AppendData, Step, Places, Handling, Committing,
                                 Closing, Swapping
    <3>9. CASE RecvAnn
      <4>1. /\ srv' \in Servings /\ srv'.state = srv.state
            /\ acq \in 1 .. MaxAcq
        BY <3>9, ServingSends DEF RecvAnn
      <4>2. Frame("ann", acq, 0) \in AnnFrames
        BY <4>1, AnnIsFrame
      <4>3. buf' \in [{0, 1} -> Buffers]
        BY <3>9, <4>2, BufferChanges DEF RecvAnn, Annotate
      <4>4. QED BY <3>9, <4>1, <4>3 DEF RecvAnn, Annotate
    <3>10. CASE RecvRedecoded
      <4>1. /\ decoding' \in Decodes("done")
            /\ Frame("ann", decoding.of, decoding.n) \in AnnFrames
        BY <3>10, WorkedDecode, AnnIsFrame DEF RecvRedecoded
      <4>2. buf' \in [{0, 1} -> Buffers]
        BY <3>10, <4>1, BufferChanges DEF RecvRedecoded, Annotate
      <4>3. QED BY <3>10, <4>1, <4>2 DEF RecvRedecoded, Annotate
    <3>11. CASE RecvDecodeEnd
      BY <3>11 DEF RecvDecodeEnd, Receiving, Answers
    <3>12. CASE RecvEnd
      <4>1. srv' \in Servings /\ srv'.state # "streaming"
        <5>1. srv' = [NoCapture EXCEPT
                        !.state = IF "slow" \in Acts THEN "ending" ELSE "idle"]
          BY <3>12, Zenon DEF RecvEnd
        <5>2. QED BY <5>1, ServingEnds
      <4>2. QED BY <3>12, <4>1 DEF RecvEnd, Places, Handling, Committing, Closing, Swapping
    <3>13. CASE SwapBegin
      BY <3>13 DEF SwapBegin, Step, Places, Handling, Committing, Closing, Swapping
    <3>14. CASE SwapRecord
      BY <3>14 DEF SwapRecord, Step, Places, Handling, Committing, Closing, Swapping
    <3>15. CASE SwapMarker
      BY <3>15 DEF SwapMarker, Step, Places, Handling, Committing, Closing, Swapping
    <3>16. CASE SwapLive
      BY <3>16 DEF SwapLive, Step, Places, Handling, Committing, Closing, Swapping
    <3>17. CASE Tell
      <4>1. ending \in Answers
        BY <3>17 DEF Tell, Step, Closing, Answers
      <4>2. QED BY <3>17, <4>1 DEF Tell, Step, Places, Handling, Committing, Closing,
                                  Swapping
    <3>18. QED
      BY <2>2, <3>1, <3>2, <3>3, <3>4, <3>5, <3>6, <3>7, <3>8, <3>9, <3>10, <3>11,
         <3>12, <3>13, <3>14, <3>15, <3>16, <3>17 DEF RxThread, Commit, Swap
  <2>3. CASE Server
    <3>1. CASE TakeStart
      <4>1. /\ srv' \in Servings
            /\ srv'.state = "streaming" => srv.state = "streaming"
        BY <3>1 DEF TakeStart, Servings
      <4>2. QED BY <3>1, <4>1 DEF TakeStart
    <3>2. CASE TakeDecode
      BY <3>2, TakenDecode DEF TakeDecode
    <3>3. CASE CaptureOver
      BY <3>3 DEF CaptureOver, NoCapture, Servings
    <3>4. QED BY <2>3, <3>1, <3>2, <3>3 DEF Server
  <2>4. CASE Lose
    BY <2>4 DEF Lose, Cut, NoCapture, Servings
  <2>5. CASE UNCHANGED vars
    BY <2>5
  <2>6. QED BY <2>1, <2>2, <2>3, <2>4, <2>5 DEF Next
<1>3. QED BY <1>1, <1>2, PTL DEF Spec

-----------------------------------------------------------------------------
(* What most steps leave alone.                                            *)

\* What the RX thread works on, but for the samples and the recording.
Work == << pend, screen, fill, swapPending, fillMeta, rpc, hand, ending, acq >>

SamplesStay == \A b \in {0, 1} : buf'[b].samples = buf[b].samples

\* The user, the server and the network leave it alone, samples and recording
\* too; of the stream from the server they do no more than to break it.
Quiet == UiThread \/ Server \/ Lose \/ UNCHANGED vars

StreamStays ==
    /\ srv'.state = "streaming" => srv' = srv
    /\ srv.state = "streaming" =>
           \/ srv' = srv
           \/ rpc = "recv" /\ ("lose" \in Acts \/ "disconnect" \in Acts)
    /\ srv'.data \in {srv.data, 0}

LEMMA QuietSteps ==
  ASSUME DataOK, Quiet
  PROVE  UNCHANGED << Work, rec >> /\ SamplesStay /\ StreamStays
<1> USE DEF Work, SamplesStay, vars, ui, screen, pend, rx, server
<1>1. CASE UiThread
  <2>1. CASE Redecode
    <3>1. SamplesStay
      BY <2>1 DEF Redecode, DataOK, Buffers
    <3>2. UNCHANGED << Work, rec, srv >>
      BY <2>1 DEF Redecode
    <3>3. QED BY <3>1, <3>2 DEF StreamStays
  <2>2. CASE Disconnect
    <3>1. UNCHANGED << Work, rec, buf >> /\ srv' = NoCapture /\ rpc = "recv"
      BY <2>2 DEF Disconnect, Cut, Receiving
    <3>2. QED BY <2>2, <3>1 DEF StreamStays, NoCapture, Disconnect
  <2>3. CASE \/ PressStart \/ StartDone \/ PressStop \/ ToggleRepeat \/ ChangeMode
             \/ HandleEnd \/ HandleDecoded \/ Connect
    <3>1. UNCHANGED << Work, rec, srv, buf >>
      BY <2>3, Zenon DEF PressStart, StartDone, PressStop, ToggleRepeat, ChangeMode, HandleEnd,
                         HandleDecoded, Connect
    <3>2. QED BY <3>1 DEF StreamStays
  <2>4. QED BY <1>1, <2>1, <2>2, <2>3 DEF UiThread
<1>2. CASE Server
  <2>1. UNCHANGED << Work, rec, buf >>
    BY <1>2, Zenon DEF Server, TakeStart, TakeDecode, CaptureOver
  <2>2. \/ srv' = srv
        \/ srv' = NoCapture /\ srv.state = "ending"
        \/ srv' = [srv EXCEPT !.state = "armed"] /\ srv.state = "idle"
    BY <1>2 DEF Server, TakeStart, TakeDecode, CaptureOver
  <2>3. QED BY <2>1, <2>2 DEF StreamStays, DataOK, Servings, NoCapture
<1>3. CASE Lose
  <2>1. UNCHANGED << Work, rec, buf >> /\ srv' = NoCapture /\ rpc = "recv"
    BY <1>3 DEF Lose, Cut, Receiving
  <2>2. QED BY <1>3, <2>1 DEF StreamStays, NoCapture, Lose
<1>4. CASE UNCHANGED vars
  BY <1>4 DEF StreamStays
<1>5. QED BY <1>1, <1>2, <1>3, <1>4 DEF Quiet

\* So do the messages that bring no samples; but they are recorded.
Remark == RecvTrigger \/ RecvAnn \/ RecvRedecoded \/ RecvDecodeEnd

Noted == \E f \in AnyFrame : ~IsSample(f) /\ f.type # "meta" /\ rec' = Recorded(f)

\* A frame without samples is one that may be noted.
LEMMA NoteFrames ==
  ASSUME DataOK
  PROVE  /\ \A a \in Acquisitions, type \in {"trigger", "ann", "end"} :
                LET f == Frame(type, a, 0)
                IN  f \in AnyFrame /\ ~IsSample(f) /\ f.type # "meta"
         /\ decoding # NoDecode =>
                \A type \in {"ann", "decoded", "failed"} :
                    \A a \in {0, decoding.of} :
                        LET f == Frame(type, a, decoding.n)
                        IN  f \in AnyFrame /\ ~IsSample(f) /\ f.type # "meta"
<1>1. Acquisitions \subseteq Nat
  BY BoundsAssumption DEF Acquisitions
<1>2. decoding # NoDecode => decoding.of \in Nat /\ decoding.n \in Nat
  BY DEF DataOK, Decodes
<1>3. QED BY <1>1, <1>2 DEF Frame, AnyFrame, FrameTypes, IsSample

LEMMA RemarkSteps ==
  ASSUME DataOK, Remark
  PROVE  /\ UNCHANGED Work /\ SamplesStay /\ Noted /\ rpc = "recv"
         /\ srv'.state = srv.state /\ srv'.data = srv.data
<1> USE DEF Work, SamplesStay, screen, pend, rx, server
<1>1. CASE RecvTrigger
  <2>1. UNCHANGED << Work, buf >> /\ rec' = Recorded(Frame("trigger", acq, 0)) /\ rpc = "recv"
    BY <1>1 DEF RecvTrigger, Receiving
  <2>2. Noted
    BY <2>1, NoteFrames DEF Noted, DataOK
  <2>3. srv'.state = srv.state /\ srv'.data = srv.data
    BY <1>1 DEF RecvTrigger, DataOK, Servings
  <2>4. QED BY <2>1, <2>2, <2>3
<1>2. CASE RecvAnn
  <2>1. UNCHANGED Work /\ rec' = Recorded(Frame("ann", acq, 0)) /\ rpc = "recv"
    BY <1>2 DEF RecvAnn, Annotate, Receiving
  <2>2. Noted
    BY <2>1, NoteFrames DEF Noted, DataOK
  <2>3. srv'.state = srv.state /\ srv'.data = srv.data
    BY <1>2 DEF RecvAnn, DataOK, Servings
  <2>4. SamplesStay
    BY <1>2 DEF RecvAnn, Annotate, DataOK, Buffers
  <2>5. QED BY <2>1, <2>2, <2>3, <2>4
<1>3. CASE RecvRedecoded
  <2>1. /\ UNCHANGED << Work, srv >> /\ rpc = "recv"
        /\ rec' = Recorded(Frame("ann", decoding.of, decoding.n)) /\ decoding # NoDecode
    BY <1>3 DEF RecvRedecoded, Annotate, Receiving, NoDecode
  <2>2. Noted
    BY <2>1, NoteFrames DEF Noted
  <2>3. SamplesStay
    BY <1>3 DEF RecvRedecoded, Annotate, DataOK, Buffers
  <2>4. QED BY <2>1, <2>2, <2>3
<1>4. CASE RecvDecodeEnd
  <2>1. /\ UNCHANGED << Work, srv, buf >> /\ rpc = "recv" /\ decoding # NoDecode
        /\ \E type \in {"decoded", "failed"} :
               rec' = Recorded(Frame(type, 0, decoding.n))
    BY <1>4 DEF RecvDecodeEnd, Receiving
  <2>2. Noted
    BY <2>1, NoteFrames DEF Noted
  <2>3. QED BY <2>1, <2>2
<1>5. QED BY <1>1, <1>2, <1>3, <1>4 DEF Remark

\* The other steps of the RX thread: each invariant that is about its work has
\* a case for each of them.
LEMMA StepCases ==
  ASSUME [Next]_vars
  PROVE  \/ Quiet \/ Remark \/ RecvMeta \/ \E kind \in Kinds : RecvData(kind)
         \/ CommitReset \/ CommitAnns \/ CommitMeta \/ CommitRecord \/ AppendData
         \/ RecvEnd \/ SwapBegin \/ SwapRecord \/ SwapMarker \/ SwapLive \/ Tell
  BY Zenon DEF Next, Quiet, Remark, RxThread, Commit, Swap

-----------------------------------------------------------------------------
(* The recording keeps its type.                                           *)

\* What record_frame and a commit make of a recording is one, within the cap.
LEMMA ExtendedTyped ==
  ASSUME NEW s \in Seq(AnyFrame), Len(s) <= RecordCap, NEW f \in AnyFrame
  PROVE  Extended(s, f) \in Seq(AnyFrame) /\ Len(Extended(s, f)) <= RecordCap
  BY BoundsAssumption DEF Extended

LEMMA RecordedTyped ==
  ASSUME RecOK, NEW f \in AnyFrame
  PROVE  /\ Recorded(f) \in Recordings
         /\ Len(Recorded(f).kept) <= RecordCap
         /\ Len(Recorded(f).pending) <= RecordCap
<1> DEFINE kept == Extended(rec.kept, f)
           pending == Extended(rec.pending, f)
<1>1. /\ rec.kept \in Seq(AnyFrame) /\ rec.pending \in Seq(AnyFrame)
      /\ Len(rec.kept) <= RecordCap /\ Len(rec.pending) <= RecordCap
  BY DEF RecOK, Recordings
<1>2. /\ kept \in Seq(AnyFrame) /\ Len(kept) <= RecordCap
      /\ pending \in Seq(AnyFrame) /\ Len(pending) <= RecordCap
  BY <1>1, ExtendedTyped
<1>3. << f >> \in Seq(AnyFrame) /\ Len(<< f >>) <= RecordCap
  BY BoundsAssumption
<1> HIDE DEF kept, pending
<1>4. CASE Recorded(f) = [rec EXCEPT !.pending = << f >>, !.active = TRUE]
  BY <1>1, <1>3, <1>4 DEF RecOK, Recordings
<1>5. ASSUME NEW t \in BOOLEAN,
             Recorded(f) = [rec EXCEPT !.pending = pending, !.truncated = t]
      PROVE  /\ Recorded(f) \in Recordings
             /\ Len(Recorded(f).kept) <= RecordCap
             /\ Len(Recorded(f).pending) <= RecordCap
  BY <1>1, <1>2, <1>5 DEF RecOK, Recordings
<1>6. ASSUME NEW t \in BOOLEAN,
             Recorded(f) = [rec EXCEPT !.kept = kept, !.truncated = t]
      PROVE  /\ Recorded(f) \in Recordings
             /\ Len(Recorded(f).kept) <= RecordCap
             /\ Len(Recorded(f).pending) <= RecordCap
  BY <1>1, <1>2, <1>6 DEF RecOK, Recordings
<1>7. CASE Recorded(f) = rec
  BY <1>1, <1>7 DEF RecOK
<1>8. \/ Recorded(f) = [rec EXCEPT !.pending = << f >>, !.active = TRUE]
      \/ Recorded(f) = [rec EXCEPT !.pending = pending,
                          !.truncated = rec.truncated \/ Len(rec.pending) >= RecordCap]
      \/ Recorded(f) = rec
      \/ Recorded(f) = [rec EXCEPT !.kept = kept,
                          !.truncated = rec.truncated \/ Len(rec.kept) >= RecordCap]
  BY Zenon DEF Recorded, kept, pending
<1>9. /\ (rec.truncated \/ Len(rec.pending) >= RecordCap) \in BOOLEAN
      /\ (rec.truncated \/ Len(rec.kept) >= RecordCap) \in BOOLEAN
  OBVIOUS
<1>10. QED BY <1>4, <1>5, <1>6, <1>7, <1>8, <1>9

LEMMA CommittedTyped ==
  ASSUME NEW r \in Recordings, Len(r.pending) <= RecordCap
  PROVE  /\ Committed(r) \in Recordings
         /\ Len(Committed(r).kept) <= RecordCap
         /\ Len(Committed(r).pending) <= RecordCap
<1>1. r.pending \in Seq(AnyFrame)
  BY DEF Recordings
<1>2. QED BY <1>1, BoundsAssumption DEF Committed, Recordings

LEMMA FrameTyped ==
  \A type \in FrameTypes, of \in Nat, n \in Nat : Frame(type, of, n) \in AnyFrame
  BY DEF Frame, AnyFrame

\* SESSION_META and data are frames like any other.
LEMMA MetaFrame ==
  ASSUME DataOK, RecvMeta
  PROVE  Frame("meta", acq', 0) \in AnyFrame /\ Frame("meta", acq', 0).type = "meta"
<1>1. acq' \in Nat
  BY DEF RecvMeta, DataOK, Acquisitions
<1>2. QED BY <1>1, FrameTyped DEF FrameTypes, Frame

LEMMA DataFrame ==
  ASSUME DataOK, NEW kind \in Kinds, RecvData(kind)
  PROVE  /\ hand' \in SampleFrames /\ hand' \in AnyFrame
         /\ IsSample(hand') /\ hand'.type # "meta"
         /\ hand'.of = acq /\ hand'.n = srv.data + 1 /\ rec' = Recorded(hand')
         /\ srv'.state = "streaming" /\ srv'.data = srv.data + 1
<1>1. /\ srv.data + 1 \in 1 .. MaxFrames /\ acq \in 1 .. MaxAcq
      /\ hand' = SampleFrame(kind) /\ rec' = Recorded(hand')
  BY ServingSends DEF RecvData, DataOK
<1>2. hand' \in SampleFrames
  BY <1>1, SampleIsFrame DEF SampleFrame
<1>3. hand'.of = acq /\ hand'.n = srv.data + 1
  BY <1>1 DEF SampleFrame, Frame
<1>4. 1 .. MaxAcq \subseteq Nat /\ 1 .. MaxFrames \subseteq Nat
  OBVIOUS
<1>5. hand' \in AnyFrame /\ IsSample(hand') /\ hand'.type # "meta"
  BY <1>2, <1>4 DEF SampleFrames, AnyFrame, FrameTypes, IsSample
<1>6. srv'.state = "streaming" /\ srv'.data = srv.data + 1
  BY DEF RecvData, DataOK, Servings
<1>7. QED BY <1>1, <1>2, <1>3, <1>5, <1>6

\* The recording keeps its type, and its cap.
LEMMA RecordCorrect == Spec => []RecOK
<1>1. Init => RecOK
  BY BoundsAssumption DEF Init, RecOK, Recordings

<1>2. DataOK /\ RecOK /\ [Next]_vars => RecOK'
  <2> SUFFICES ASSUME DataOK /\ RecOK, [Next]_vars PROVE RecOK'
    OBVIOUS
  <2>0. /\ \A f \in AnyFrame : rec' = Recorded(f) => RecOK'
        /\ rec' = rec => RecOK'
        /\ rec' = Committed(rec) => RecOK'
    <3>1. ASSUME NEW f \in AnyFrame, rec' = Recorded(f) PROVE RecOK'
      BY <3>1, RecordedTyped DEF RecOK
    <3>2. CASE rec' = rec
      BY <3>2 DEF RecOK
    <3>3. CASE rec' = Committed(rec)
      BY <3>3, CommittedTyped DEF RecOK
    <3>4. QED BY <3>1, <3>2, <3>3
  <2>1. CASE Quiet
    BY <2>0, <2>1, QuietSteps
  <2>2. CASE Remark
    BY <2>0, <2>2, RemarkSteps DEF Noted
  <2>3. CASE RecvMeta
    BY <2>0, <2>3, MetaFrame DEF RecvMeta
  <2>4. ASSUME NEW kind \in Kinds, RecvData(kind) PROVE RecOK'
    BY <2>0, <2>4, DataFrame
  <2>5. CASE RecvEnd
    BY <2>0, <2>5, NoteFrames DEF RecvEnd, DataOK
  <2>6. CASE CommitRecord
    BY <2>0, <2>6 DEF CommitRecord
  <2>7. CASE SwapRecord
    BY <2>0, <2>7 DEF SwapRecord
  <2>8. CASE \/ CommitReset \/ CommitAnns \/ CommitMeta \/ AppendData
             \/ SwapBegin \/ SwapMarker \/ SwapLive \/ Tell
    BY <2>0, <2>8, Zenon DEF CommitReset, CommitAnns, CommitMeta, AppendData,
                             SwapBegin, SwapMarker, SwapLive, Tell
  <2>9. QED BY <2>1, <2>2, <2>3, <2>4, <2>5, <2>6, <2>7, <2>8, StepCases
<1>3. QED BY <1>1, <1>2, DataCorrect, PTL DEF Spec

\* Every variable keeps its type, for any bounds and any user.
THEOREM TypeCorrect == Spec => []TypeOK
  BY FlagsCorrect, DataCorrect, RecordCorrect, PTL DEF TypeOK

-----------------------------------------------------------------------------
(* What the handlers of data do to the buffers.                            *)

LEMMA Numbers ==
  ASSUME DataOK
  PROVE  /\ acq \in Nat /\ meta \in Nat /\ fillMeta \in Nat /\ pendingMeta \in Nat
         /\ live \in {0, 1} /\ fill \in {0, 1}
  BY BoundsAssumption DEF DataOK, Acquisitions

LEMMA SamplesSet ==
  ASSUME DataOK, NEW x \in {0, 1}, NEW s, buf' = [buf EXCEPT ![x].samples = s]
  PROVE  /\ buf'[x].samples = s
         /\ \A b \in {0, 1} : buf'[b].anns = buf[b].anns
         /\ \A b \in {0, 1} \ {x} : buf'[b].samples = buf[b].samples
  BY DEF DataOK, Buffers

LEMMA AnnsSet ==
  ASSUME DataOK, NEW x \in {0, 1}, NEW a, buf' = [buf EXCEPT ![x].anns = a]
  PROVE  /\ buf'[x].anns = a /\ SamplesStay
         /\ \A b \in {0, 1} \ {x} : buf'[b].anns = buf[b].anns
  BY DEF DataOK, Buffers, SamplesStay

LEMMA ResetDoes ==
  ASSUME DataOK, CommitReset
  PROVE  /\ fill' \in {0, 1} /\ swapPending' = SwapMode
         /\ SwapMode <=> fill' # live
         /\ \A b \in {0, 1} : /\ buf'[b].samples \subseteq buf[b].samples
                              /\ b # fill' => buf'[b].samples = buf[b].samples
                              /\ buf'[b].anns = buf[b].anns
<1>1. /\ fill' \in {0, 1} /\ swapPending' = SwapMode /\ (SwapMode <=> fill' # live)
      /\ buf' = [buf EXCEPT ![fill'].samples = {f \in @ : f.type # "logic"}]
  BY Numbers DEF CommitReset
<1>2. QED BY <1>1, SamplesSet

LEMMA CommitMetaDoes ==
  ASSUME DataOK, CommitMeta
  PROVE  /\ buf'[fill].samples = {}
         /\ \A b \in {0, 1} : /\ b # fill => buf'[b].samples = buf[b].samples
                              /\ buf'[b].anns = buf[b].anns
<1>1. QED BY SamplesSet, Numbers DEF CommitMeta

LEMMA AppendDoes ==
  ASSUME DataOK, AppendData
  PROVE  /\ rpc \in {"first", "append"} /\ rpc' = "recv"
         /\ hand \in SampleFrames /\ hand' = NoFrame
         /\ buf'[fill].samples = buf[fill].samples \cup {hand}
         /\ \A b \in {0, 1} : /\ b # fill => buf'[b].samples = buf[b].samples
                              /\ buf'[b].anns = buf[b].anns
<1>1. /\ rpc \in {"first", "append"} /\ rpc' = "recv" /\ hand' = NoFrame
      /\ buf' = [buf EXCEPT ![fill].samples = @ \cup {hand}]
  BY DEF AppendData, Step
<1>2. hand \in SampleFrames
  BY <1>1 DEF DataOK, Handling
<1>3. QED BY <1>1, <1>2, SamplesSet, Numbers

-----------------------------------------------------------------------------
(* The screen.                                                             *)

\* What the RX thread has in hand at each place of its handlers.
LEMMA HandCorrect == Spec => []HandInv
<1> USE DEF HandInv, Handling, Committing
<1>1. Init => HandInv
  BY DEF Init

<1>2. DataOK /\ HandInv /\ [Next]_vars => HandInv'
  <2> SUFFICES ASSUME DataOK, HandInv, [Next]_vars PROVE HandInv'
    OBVIOUS
  <2>1. CASE Quiet
    BY <2>1, QuietSteps DEF Work, pend, StreamStays
  <2>2. CASE Remark
    BY <2>2, RemarkSteps DEF Work, pend
  <2>3. CASE RecvMeta
    BY <2>3 DEF RecvMeta, rx, Receiving
  <2>4. ASSUME NEW kind \in Kinds, RecvData(kind) PROVE HandInv'
    <3>1. hand'.of = acq /\ srv'.state = "streaming"
      BY <2>4, DataFrame
    <3>2. QED BY <2>4, <3>1 DEF RecvData, pend
  <2>5. CASE CommitReset \/ CommitAnns \/ CommitMeta \/ CommitRecord
    BY <2>5, Zenon DEF CommitReset, CommitAnns, CommitMeta, CommitRecord, Step, server
  <2>6. CASE AppendData
    BY <2>6 DEF AppendData, Step
  <2>7. CASE RecvEnd
    BY <2>7 DEF RecvEnd, Receiving
  <2>8. CASE SwapBegin \/ SwapRecord \/ SwapMarker \/ SwapLive
    <3>1. /\ rpc = "swap" \/ rpc \in Swapping
          /\ rpc' = "tell" \/ rpc' \in Swapping
          /\ UNCHANGED << metaPending, hand >>
      BY <2>8 DEF SwapBegin, SwapRecord, SwapMarker, SwapLive, Step, Swapping
    <3>2. QED BY <3>1 DEF Swapping
  <2>9. CASE Tell
    BY <2>9 DEF Tell, Step
  <2>10. QED BY <2>1, <2>2, <2>3, <2>4, <2>5, <2>6, <2>7, <2>8, <2>9, StepCases
<1>3. QED BY <1>1, <1>2, DataCorrect, PTL DEF Spec

\* Except in the middle of a swap the samples drawn are those of the metadata
\* shown, step by step through each commit.
THEOREM ScreenCorrect == Spec => []ScreenInv
<1> USE DEF Screen!AllOf
<1>1. Init => ScreenInv
  BY BoundsAssumption DEF Init, EmptyBuf, Shown, ScreenInv, Swapping, NoCapture

<1>2. DataOK /\ HandInv /\ ScreenInv /\ [Next]_vars => ScreenInv'
  <2> SUFFICES ASSUME DataOK, HandInv, ScreenInv, [Next]_vars PROVE ScreenInv'
    OBVIOUS
  <2>1. CASE Quiet
    <3>1. UNCHANGED << Work, rec >> /\ SamplesStay /\ StreamStays
      BY <2>1, QuietSteps
    <3>2. Shown' = Shown /\ buf'[fill].samples = buf[fill].samples
      BY <3>1, Numbers DEF Shown, SamplesStay, Work, screen
    <3>3. UNCHANGED << pendingMeta, metaPending, live, meta, fill, swapPending, fillMeta, rpc, acq >>
      BY <3>1 DEF Work, pend, screen
    <3>4. srv'.state = "streaming" => srv.state = "streaming"
      BY <3>1 DEF StreamStays
    <3>5. QED BY <3>2, <3>3, <3>4, Zenon DEF ScreenInv
  <2>2. CASE Remark
    <3>1. UNCHANGED Work /\ SamplesStay /\ srv'.state = srv.state
      BY <2>2, RemarkSteps
    <3>2. Shown' = Shown /\ buf'[fill].samples = buf[fill].samples
      BY <3>1, Numbers DEF Shown, SamplesStay, Work, screen
    <3>3. UNCHANGED << pendingMeta, metaPending, live, meta, fill, swapPending, fillMeta, rpc, acq >>
      BY <3>1 DEF Work, pend, screen
    <3>4. QED BY <3>1, <3>2, <3>3, Zenon DEF ScreenInv
  <2>3. CASE RecvMeta
    <3>1. /\ rpc = "recv" /\ rpc' = rpc /\ acq' = acq + 1 /\ pendingMeta' = acq'
          /\ metaPending' = TRUE
          /\ UNCHANGED << live, meta, fill, swapPending, fillMeta, buf >>
      BY <2>3 DEF RecvMeta, rx, Receiving
    <3>2. meta < acq' /\ fillMeta < acq' /\ meta <= acq' /\ fillMeta <= acq'
      BY <3>1, Numbers DEF ScreenInv
    <3>3. QED BY <3>1, <3>2, Numbers DEF ScreenInv, Shown, Swapping
  <2>4. ASSUME NEW kind \in Kinds, RecvData(kind) PROVE ScreenInv'
    <3>1. /\ rpc = "recv" /\ rpc' = IF metaPending THEN "reset" ELSE "append"
          /\ srv.state = "streaming" /\ acq' = acq
          /\ UNCHANGED << pend, live, meta, fill, swapPending, fillMeta, buf >>
      BY <2>4 DEF RecvData, screen, Receiving
    <3>2. QED BY <3>1 DEF ScreenInv, Shown, Swapping, pend
  <2>5. CASE CommitReset
    <3>1. /\ rpc = "reset" /\ rpc' = "anns" /\ metaPending /\ fillMeta' = acq
          /\ UNCHANGED << metaPending, pendingMeta, live, meta, acq >>
      BY <2>5 DEF CommitReset, Step, screen, server, HandInv, Committing, ScreenInv
    <3>2. /\ swapPending' <=> fill' # live
          /\ Shown' \subseteq Shown
      BY <2>5, <3>1, ResetDoes, Numbers DEF Shown
    <3>3. meta < acq
      BY <3>1 DEF ScreenInv
    <3>4. QED BY <3>1, <3>2, <3>3, Numbers DEF ScreenInv, Swapping
  <2>6. CASE CommitAnns
    <3>1. /\ rpc = "anns" /\ rpc' = "meta" /\ SamplesStay
          /\ UNCHANGED << metaPending, pendingMeta, live, meta, fill, swapPending, fillMeta, acq >>
          /\ srv' = srv
      BY <2>6, AnnsSet, Numbers DEF CommitAnns, Step, screen, server
    <3>2. Shown' = Shown
      BY <3>1, Numbers DEF Shown, SamplesStay
    <3>3. QED BY <3>1, <3>2 DEF ScreenInv, Swapping
  <2>7. CASE CommitMeta
    <3>1. /\ rpc = "meta" /\ rpc' = "record" /\ metaPending /\ pendingMeta = acq
          /\ meta' = IF swapPending THEN meta ELSE acq
          /\ UNCHANGED << metaPending, pendingMeta, live, fill, swapPending, fillMeta, acq >>
          /\ fillMeta = acq /\ (swapPending <=> fill # live) /\ meta < acq
      BY <2>7 DEF CommitMeta, Step, server, HandInv, Committing, ScreenInv
    <3>2. /\ buf'[fill].samples = {}
          /\ fill # live => Shown' = Shown
          /\ fill = live => Shown' = {}
      BY <2>7, <3>1, CommitMetaDoes, Numbers DEF Shown
    <3>3. Screen!AllOf(Shown', meta')
      BY <3>1, <3>2 DEF ScreenInv, Swapping
    <3>4. QED BY <3>1, <3>2, <3>3, Numbers DEF ScreenInv, Swapping
  <2>8. CASE CommitRecord
    BY <2>8 DEF CommitRecord, Step, screen, server, ScreenInv, Shown, Swapping
  <2>9. CASE AppendData
    <3>1. /\ rpc \in {"first", "append"} /\ rpc' = "recv" /\ ~metaPending
          /\ srv.state = "streaming" /\ hand.of = acq
          /\ UNCHANGED << metaPending, pendingMeta, live, meta, fill, swapPending, fillMeta, acq, srv >>
          /\ buf'[fill].samples = buf[fill].samples \cup {hand}
          /\ fill # live => Shown' = Shown
          /\ fill = live => Shown' = buf'[fill].samples
      <4>1. /\ rpc \in {"first", "append"} /\ rpc' = "recv"
            /\ UNCHANGED << metaPending, pendingMeta, live, meta, fill, swapPending, fillMeta, acq, srv >>
        BY <2>9 DEF AppendData, Step, screen, server
      <4>2. ~metaPending /\ srv.state = "streaming" /\ hand.of = acq
        BY <4>1 DEF HandInv, Handling, Committing
      <4>3. QED BY <2>9, <4>1, <4>2, AppendDoes, Numbers DEF Shown
    <3>2. fillMeta = acq /\ Screen!AllOf(buf[fill].samples, acq)
      BY <3>1 DEF ScreenInv
    <3>3. Screen!AllOf(buf'[fill].samples, acq)
      BY <3>1, <3>2
    <3>4. Screen!AllOf(Shown', meta)
      BY <3>1, <3>2, <3>3 DEF ScreenInv, Swapping
    <3>5. QED BY <3>1, <3>2, <3>3, <3>4 DEF ScreenInv, Swapping
  <2>10. CASE RecvEnd
    <3>1. srv'.state # "streaming"
      BY <2>10 DEF RecvEnd, NoCapture
    <3>2. QED BY <2>10, <3>1 DEF RecvEnd, screen, Receiving, ScreenInv, Shown, Swapping
  <2>11. CASE SwapBegin
    <3>1. /\ rpc = "swap" /\ ~metaPending /\ ~swapPending'
          /\ UNCHANGED << metaPending, pendingMeta, live, fill, fillMeta, buf, acq, srv >>
      BY <2>11, Zenon DEF SwapBegin, Step, screen, server, HandInv, Committing
    <3>2. CASE swapPending /\ HasLogic(buf[fill])
      <4>1. rpc' = "swapRecord" /\ meta' = fillMeta /\ buf[fill].samples # {}
        BY <2>11, <3>2 DEF SwapBegin, Step, HasLogic
      <4>2. QED BY <3>1, <3>2, <4>1 DEF ScreenInv, Swapping
    <3>3. CASE ~(swapPending /\ HasLogic(buf[fill]))
      <4>1. rpc' = "tell" /\ meta' = meta
        BY <2>11, <3>3 DEF SwapBegin, Step
      <4>2. QED BY <3>1, <4>1 DEF ScreenInv, Swapping, Shown
    <3>4. QED BY <3>2, <3>3
  <2>12. CASE SwapRecord \/ SwapMarker
    <3>1. /\ rpc \in Swapping /\ rpc' \in Swapping
          /\ UNCHANGED << metaPending, pendingMeta, live, meta, fill, swapPending, fillMeta, buf, acq, srv >>
      BY <2>12 DEF SwapRecord, SwapMarker, Step, screen, server, Swapping
    <3>2. QED BY <3>1 DEF ScreenInv, Swapping
  <2>13. CASE SwapLive
    <3>1. /\ rpc = "swapLive" /\ rpc' = "tell" /\ live' = fill /\ fillMeta = meta
          /\ UNCHANGED << metaPending, pendingMeta, meta, fill, swapPending, fillMeta, buf, acq, srv >>
      BY <2>13 DEF SwapLive, Step, server, ScreenInv, Swapping
    <3>2. ~swapPending
      BY <3>1, Numbers DEF ScreenInv
    <3>3. QED BY <3>1, <3>2 DEF ScreenInv, Shown, Swapping
  <2>14. CASE Tell
    <3>1. /\ rpc = "tell" /\ rpc' = "recv"
          /\ UNCHANGED << metaPending, pendingMeta, live, meta, fill, swapPending, fillMeta, buf, acq, srv >>
      BY <2>14 DEF Tell, Step, screen, server
    <3>2. metaPending => meta < acq /\ fillMeta < acq
      BY <3>1 DEF HandInv, Committing
    <3>3. QED BY <3>1, <3>2 DEF ScreenInv, Shown, Swapping
  <2>15. QED BY <2>1, <2>2, <2>3, <2>4, <2>5, <2>6, <2>7, <2>8, <2>9, <2>10, <2>11, <2>12,
                <2>13, <2>14, StepCases
<1>3. QED BY <1>1, <1>2, DataCorrect, HandCorrect, PTL DEF Spec

\* The screen implements the abstract display.
THEOREM OneAtATime == Spec => ShowsOneAtATime
<1> USE DEF Swapping
<1>1. Init => Screen!Init
  BY DEF Init, EmptyBuf, Shown, Phase, Screen!Init

<1>2. DataOK /\ HandInv /\ ScreenInv /\ [Next]_vars => [Screen!Next]_<< Shown, meta, Phase >>
  <2> SUFFICES ASSUME DataOK, HandInv, ScreenInv, [Next]_vars
               PROVE  [Screen!Next]_<< Shown, meta, Phase >>
    OBVIOUS
  <2>1. CASE Quiet \/ Remark
    <3>1. UNCHANGED Work /\ SamplesStay
      BY <2>1, QuietSteps, RemarkSteps
    <3>2. UNCHANGED << Shown, meta, live, fill, rpc >>
      BY <3>1, Numbers DEF Work, SamplesStay, Shown, screen
    <3>3. QED BY <3>2 DEF Phase
  <2>2. CASE RecvMeta
    BY <2>2 DEF RecvMeta, rx, Shown, Phase
  <2>3. ASSUME NEW kind \in Kinds, RecvData(kind) PROVE [Screen!Next]_<< Shown, meta, Phase >>
    <3>1. /\ rpc = "recv" /\ rpc' \in {"reset", "append"}
          /\ UNCHANGED << live, meta, fill, buf >>
      BY <2>3 DEF RecvData, screen, Receiving
    <3>2. QED BY <3>1 DEF Shown, Phase
  <2>4. CASE CommitReset
    <3>1. /\ rpc = "reset" /\ rpc' = "anns" /\ UNCHANGED << live, meta >>
      BY <2>4 DEF CommitReset, Step, screen
    <3>2. CASE fill' = live
      <4>1. Phase = "whole" /\ Phase' = "cleared" /\ Shown' \subseteq Shown
        BY <2>4, <3>1, <3>2, ResetDoes, Numbers DEF Phase, Shown
      <4>2. QED BY <3>1, <4>1 DEF Screen!Next, Screen!Clear
    <3>3. CASE fill' # live
      BY <2>4, <3>1, <3>3, ResetDoes, Numbers DEF Phase, Shown
    <3>4. QED BY <3>2, <3>3
  <2>5. CASE CommitAnns
    <3>1. rpc = "anns" /\ rpc' = "meta" /\ SamplesStay /\ UNCHANGED << live, meta, fill >>
      BY <2>5, AnnsSet, Numbers DEF CommitAnns, Step, screen
    <3>2. QED BY <3>1, Numbers DEF Shown, Phase, SamplesStay
  <2>6. CASE CommitMeta
    <3>1. /\ rpc = "meta" /\ rpc' = "record" /\ UNCHANGED << live, fill >>
          /\ meta' = IF swapPending THEN meta ELSE pendingMeta
          /\ pendingMeta = acq /\ meta < acq /\ (swapPending <=> fill # live)
      BY <2>6 DEF CommitMeta, Step, HandInv, Committing, ScreenInv
    <3>2. CASE fill = live
      <4>1. /\ Phase = "cleared" /\ Phase' = "labelled" /\ meta' > meta /\ Shown' = {}
        BY <2>6, <3>1, <3>2, CommitMetaDoes, Numbers DEF Phase, Shown
      <4>2. QED BY <4>1 DEF Screen!Next, Screen!Label
    <3>3. CASE fill # live
      BY <2>6, <3>1, <3>3, CommitMetaDoes, Numbers DEF Phase, Shown
    <3>4. QED BY <3>2, <3>3
  <2>7. CASE CommitRecord
    BY <2>7 DEF CommitRecord, Step, Shown, Phase
  <2>8. CASE AppendData
    <3>1. /\ rpc \in {"first", "append"} /\ rpc' = "recv"
          /\ UNCHANGED << live, meta, fill >>
      BY <2>8 DEF AppendData, Step, screen
    <3>2. srv.state = "streaming" /\ ~metaPending /\ hand.of = acq
      BY <3>1 DEF HandInv, Handling, Committing
    <3>3. CASE fill = live
      <4>1. Shown' = Shown \cup {hand} /\ hand.of = meta
        BY <2>8, <3>1, <3>2, <3>3, AppendDoes, Numbers DEF Shown, ScreenInv
      <4>2. Shown' # {} /\ Screen!AllOf(Shown', meta)
        BY <3>1, <4>1 DEF ScreenInv, Screen!AllOf
      <4>3. CASE rpc = "first"
        <5>1. Phase = "labelled" /\ Phase' = "whole"
          BY <3>1, <3>3, <4>3 DEF Phase
        <5>2. QED BY <3>1, <4>2, <5>1 DEF Screen!Next, Screen!Bring
      <4>4. CASE rpc = "append"
        <5>1. Phase = "whole" /\ Phase' = "whole"
          BY <3>1, <3>3, <4>4 DEF Phase
        <5>2. QED BY <3>1, <4>1, <4>2, <5>1 DEF Screen!Next, Screen!Grow
      <4>5. QED BY <3>1, <4>3, <4>4
    <3>4. CASE fill # live
      BY <2>8, <3>1, <3>4, AppendDoes, Numbers DEF Phase, Shown
    <3>5. QED BY <3>3, <3>4
  <2>9. CASE RecvEnd
    BY <2>9 DEF RecvEnd, Receiving, screen, Shown, Phase
  <2>10. CASE SwapBegin
    <3>1. CASE swapPending /\ HasLogic(buf[fill])
      <4>1. /\ rpc = "swap" /\ rpc' = "swapRecord" /\ meta' = fillMeta
            /\ UNCHANGED << live, fill, buf >>
        BY <2>10, <3>1 DEF SwapBegin, Step
      <4>2. Phase = "whole" /\ Phase' = "labelled" /\ Shown' = Shown
        BY <4>1 DEF Phase, Shown
      <4>3. meta' > meta
        BY <3>1, <4>1, Numbers DEF ScreenInv
      <4>4. QED BY <4>2, <4>3 DEF Screen!Next, Screen!Label
    <3>2. CASE ~(swapPending /\ HasLogic(buf[fill]))
      BY <2>10, <3>2 DEF SwapBegin, Step, Phase, Shown
    <3>3. QED BY <3>1, <3>2
  <2>11. CASE SwapRecord \/ SwapMarker
    <3>1. rpc \in Swapping /\ rpc' \in Swapping /\ UNCHANGED << live, meta, fill, buf >>
      BY <2>11 DEF SwapRecord, SwapMarker, Step, screen
    <3>2. QED BY <3>1 DEF Phase, Shown
  <2>12. CASE SwapLive
    <3>1. /\ rpc = "swapLive" /\ rpc' = "tell" /\ live' = fill /\ meta' = meta
          /\ UNCHANGED << fill, buf >>
      BY <2>12 DEF SwapLive, Step
    <3>2. Phase = "labelled" /\ Phase' = "whole" /\ Shown' = buf[fill].samples
      BY <3>1 DEF Phase, Shown
    <3>3. Shown' # {} /\ Screen!AllOf(Shown', meta)
      BY <3>1, <3>2 DEF ScreenInv
    <3>4. QED BY <3>1, <3>2, <3>3 DEF Screen!Next, Screen!Bring
  <2>13. CASE Tell
    BY <2>13 DEF Tell, Step, screen, Shown, Phase
  <2>14. QED BY <2>1, <2>2, <2>3, <2>4, <2>5, <2>6, <2>7, <2>8, <2>9, <2>10, <2>11, <2>12,
                <2>13, StepCases
<1>3. QED
  BY <1>1, <1>2, DataCorrect, HandCorrect, ScreenCorrect, PTL
     DEF Spec, ShowsOneAtATime, Screen!Spec

\* Frames recorded into an open side buffer leave the recording alone.
LEMMA RecordedAside ==
  ASSUME RecOK, NEW f \in AnyFrame
  PROVE  /\ rec.active => Recorded(f).kept = rec.kept /\ Recorded(f).active
         /\ f.type = "meta" => Recorded(f).active /\ Recorded(f).kept = rec.kept
<1>1. CASE f.type = "meta"
  BY <1>1 DEF Recorded, RecOK, Recordings
<1>2. CASE f.type # "meta" /\ rec.active
  <2> DEFINE t == rec.truncated \/ Len(rec.pending) >= RecordCap
             pending == Extended(rec.pending, f)
  <2>1. Recorded(f) = [rec EXCEPT !.pending = pending, !.truncated = t]
    BY <1>2, Zenon DEF Recorded
  <2> HIDE DEF t, pending
  <2>2. QED BY <1>2, <2>1 DEF RecOK, Recordings
<1>3. QED BY <1>1, <1>2

\* The steps that record: no step but these, of a commit and of a swap, changes
\* the recording.
LEMMA StepRecords ==
  ASSUME DataOK, [Next]_vars
  PROVE  \/ rec' = rec
         \/ \E f \in AnyFrame : rec' = Recorded(f)
         \/ CommitRecord /\ ~swapPending
         \/ SwapRecord
<1>1. CASE Quiet
  BY <1>1, QuietSteps
<1>2. CASE Remark
  BY <1>2, RemarkSteps DEF Noted
<1>3. CASE RecvMeta
  BY <1>3, MetaFrame DEF RecvMeta
<1>4. ASSUME NEW kind \in Kinds, RecvData(kind) PROVE \E f \in AnyFrame : rec' = Recorded(f)
  BY <1>4, DataFrame
<1>5. CASE RecvEnd
  BY <1>5, NoteFrames DEF RecvEnd, DataOK
<1>6. CASE CommitRecord
  BY <1>6 DEF CommitRecord
<1>7. CASE \/ CommitReset \/ CommitAnns \/ CommitMeta \/ AppendData
           \/ SwapBegin \/ SwapMarker \/ SwapLive \/ Tell
  BY <1>7, Zenon DEF CommitReset, CommitAnns, CommitMeta, AppendData,
                     SwapBegin, SwapMarker, SwapLive, Tell
<1>8. QED BY <1>1, <1>2, <1>3, <1>4, <1>5, <1>6, <1>7, StepCases

\* The side buffer is open while an acquisition is not committed, or hidden.
THEOREM SideBuffer == Spec => []SideBufferOpen
<1>1. Init => SideBufferOpen
  BY DEF Init, SideBufferOpen

<1>2. DataOK /\ RecOK /\ HandInv /\ ScreenInv /\ SideBufferOpen /\ [Next]_vars => SideBufferOpen'
  <2> SUFFICES ASSUME DataOK, RecOK, HandInv, ScreenInv, SideBufferOpen, [Next]_vars
               PROVE  SideBufferOpen'
    OBVIOUS
  <2>0. CASE /\ metaPending' \/ swapPending' \/ rpc' = "swapRecord" =>
                  metaPending \/ swapPending \/ rpc = "swapRecord"
             /\ \/ rec' = rec
                \/ \E f \in AnyFrame : rec' = Recorded(f)
    BY <2>0, RecordedAside DEF SideBufferOpen
  <2>1. CASE Quiet
    BY <2>0, <2>1, QuietSteps DEF Work, pend
  <2>2. CASE Remark
    BY <2>0, <2>2, RemarkSteps DEF Work, pend, Noted
  <2>3. CASE RecvMeta
    BY <2>3, MetaFrame, RecordedAside DEF RecvMeta, SideBufferOpen
  <2>4. ASSUME NEW kind \in Kinds, RecvData(kind) PROVE SideBufferOpen'
    <3>1. /\ UNCHANGED << metaPending, swapPending >> /\ rpc' # "swapRecord"
          /\ hand' \in AnyFrame /\ rec' = Recorded(hand')
      BY <2>4, DataFrame DEF RecvData, pend
    <3>2. QED BY <2>0, <3>1
  <2>5. CASE CommitReset \/ CommitAnns \/ CommitMeta
    <3>1. /\ metaPending /\ rec' = rec
      BY <2>5 DEF CommitReset, CommitAnns, CommitMeta, Step, HandInv, Committing
    <3>2. QED BY <2>0, <3>1
  <2>6. CASE CommitRecord
    <3>1. /\ metaPending /\ ~metaPending' /\ swapPending' = swapPending
          /\ rpc' = "first" /\ (swapPending => rec' = rec)
      BY <2>6 DEF CommitRecord, Step, HandInv, Committing
    <3>2. QED BY <3>1 DEF SideBufferOpen
  <2>7. CASE AppendData \/ SwapMarker \/ SwapLive \/ Tell
    BY <2>0, <2>7 DEF AppendData, SwapMarker, SwapLive, Tell, Step
  <2>8. CASE RecvEnd
    <3>1. /\ ~metaPending' /\ swapPending' = swapPending /\ rpc' = "swap"
          /\ \E f \in AnyFrame : rec' = Recorded(f)
      BY <2>8, NoteFrames DEF RecvEnd, DataOK
    <3>2. QED BY <2>0, <3>1
  <2>9. CASE SwapBegin
    BY <2>0, <2>9 DEF SwapBegin, Step
  <2>10. CASE SwapRecord
    <3>1. /\ rpc = "swapRecord" /\ rpc' = "swapMarker"
          /\ UNCHANGED << metaPending, swapPending >>
      BY <2>10 DEF SwapRecord, Step
    <3>2. ~metaPending /\ ~swapPending
      BY <3>1, Numbers DEF HandInv, ScreenInv, Swapping, Committing
    <3>3. QED BY <3>1, <3>2 DEF SideBufferOpen
  <2>11. QED BY <2>1, <2>2, <2>3, <2>4, <2>5, <2>6, <2>7, <2>8, <2>9, <2>10, StepCases
<1>3. QED BY <1>1, <1>2, DataCorrect, RecordCorrect, HandCorrect, ScreenCorrect, PTL DEF Spec

\* While an acquisition fills the hidden buffer, neither the screen nor what
\* Save would write changes.
THEOREM HiddenFill == Spec => NoBlink
<1>1. /\ DataOK /\ RecOK /\ HandInv /\ ScreenInv /\ SideBufferOpen /\ [Next]_vars
      => (swapPending /\ swapPending' => UNCHANGED << Shown, meta, rec.kept >>)
  <2> SUFFICES ASSUME DataOK, RecOK, HandInv, ScreenInv, SideBufferOpen, [Next]_vars,
                      swapPending, swapPending'
               PROVE  UNCHANGED << Shown, meta, rec.kept >>
    OBVIOUS
  <2>1. fill # live /\ meta < fillMeta /\ rpc \notin Swapping /\ rec.active
    BY Numbers DEF ScreenInv, SideBufferOpen
  <2>2. rec'.kept = rec.kept
    BY <2>1, StepRecords, RecordedAside DEF SwapRecord, Step, Swapping
  <2>3. Shown' = Shown /\ meta' = meta
    <3>1. CASE Quiet \/ Remark
      <4>1. UNCHANGED Work /\ SamplesStay
        BY <3>1, QuietSteps, RemarkSteps
      <4>2. QED BY <4>1, Numbers DEF Work, SamplesStay, Shown, screen
    <3>2. CASE RecvMeta
      BY <3>2 DEF RecvMeta, rx, Shown
    <3>3. ASSUME NEW kind \in Kinds, RecvData(kind) PROVE Shown' = Shown /\ meta' = meta
      BY <3>3 DEF RecvData, screen, Shown
    <3>4. CASE CommitReset
      <4>1. fill' # live /\ live' = live /\ meta' = meta
        BY <3>4, ResetDoes DEF CommitReset, screen
      <4>2. QED BY <3>4, <4>1, ResetDoes, Numbers DEF Shown
    <3>5. CASE CommitAnns
      BY <2>1, <3>5, AnnsSet, Numbers DEF CommitAnns, screen, Shown, SamplesStay
    <3>6. CASE CommitMeta
      BY <2>1, <3>6, CommitMetaDoes, Numbers DEF CommitMeta, Shown
    <3>7. CASE CommitRecord
      BY <3>7 DEF CommitRecord, Shown
    <3>8. CASE AppendData
      BY <2>1, <3>8, AppendDoes, Numbers DEF AppendData, screen, Shown
    <3>9. CASE RecvEnd
      BY <3>9 DEF RecvEnd, screen, Shown
    <3>10. CASE SwapBegin \/ SwapRecord \/ SwapMarker \/ SwapLive
      BY <2>1, <3>10 DEF SwapBegin, SwapRecord, SwapMarker, SwapLive, Step, Swapping
    <3>11. CASE Tell
      BY <3>11 DEF Tell, screen, Shown
    <3>12. QED BY <3>1, <3>2, <3>3, <3>4, <3>5, <3>6, <3>7, <3>8, <3>9, <3>10, <3>11, StepCases
  <2>4. QED BY <2>2, <2>3
<1>2. QED
  BY <1>1, DataCorrect, RecordCorrect, HandCorrect, ScreenCorrect, SideBuffer, PTL
     DEF Spec, NoBlink, vars

-----------------------------------------------------------------------------
(* Queues.                                                                 *)

LEMMA AppendAt ==
  ASSUME NEW S, NEW s \in Seq(S), NEW x \in S
  PROVE  /\ DOMAIN s = 1 .. Len(s) /\ Len(s) \in Nat
         /\ DOMAIN Append(s, x) = 1 .. Len(s) + 1
         /\ \A i \in 1 .. Len(s) : Append(s, x)[i] = s[i]
         /\ Append(s, x)[Len(s) + 1] = x
  OBVIOUS

LEMMA TailAt ==
  ASSUME NEW S, NEW s \in Seq(S), s # << >>
  PROVE  /\ DOMAIN s = 1 .. Len(s) /\ Len(s) \in Nat \ {0} /\ Head(s) = s[1]
         /\ DOMAIN Tail(s) = 1 .. Len(s) - 1
         /\ \A i \in 1 .. Len(s) - 1 : Tail(s)[i] = s[i + 1]
  OBVIOUS

-----------------------------------------------------------------------------
(* Annotations.                                                            *)

\* What the stream from the server has come to.
Streams ==
    /\ srv.state \in {"idle", "armed"} => srv.data = 0
    /\ srv.state = "streaming" => capturing
    /\ srv.state = "streaming" /\ metaPending /\ rpc = "recv" => srv.data = 0
    /\ rpc \in Handling => hand.n = srv.data

LEMMA StreamsCorrect == Spec => []Streams
<1>1. Init => Streams
  BY DEF Init, NoCapture, Streams, Handling, Committing

<1>2. FlagsOK /\ DataOK /\ HandInv /\ Streams /\ [Next]_vars => Streams'
  <2> SUFFICES ASSUME FlagsOK, DataOK, HandInv, Streams, [Next]_vars PROVE Streams'
    OBVIOUS
  <2>0. srv \in Servings
    BY DEF DataOK
  <2>1. CASE Quiet
    <3>1. UNCHANGED << metaPending, rpc, hand >> /\ StreamStays
      BY <2>1, QuietSteps DEF Work, pend
    <3>2. CASE srv' = srv
      <4>1. capturing' = capturing \/ srv.state # "streaming"
        <5>1. CASE Disconnect \/ Lose
          BY <3>2, <5>1 DEF Disconnect, Lose, Cut, NoCapture
        <5>2. CASE ~(Disconnect \/ Lose)
          BY <2>1, <5>2, Zenon DEF Quiet, UiThread, PressStart, StartDone, PressStop,
               ToggleRepeat, ChangeMode, HandleEnd, HandleDecoded, Redecode, Connect,
               Server, TakeStart, TakeDecode, CaptureOver, vars
        <5>3. QED BY <5>1, <5>2
      <4>2. QED BY <3>1, <3>2, <4>1 DEF Streams
    <3>3. CASE srv' # srv
      <4>1. \/ srv' = NoCapture /\ (srv.state = "streaming" => rpc = "recv")
            \/ srv.state = "idle" /\ srv' = [srv EXCEPT !.state = "armed"]
        <5>1. CASE Disconnect \/ Lose
          BY <5>1 DEF Disconnect, Lose, Cut, Receiving
        <5>2. CASE Server
          BY <3>3, <5>2 DEF Server, TakeStart, TakeDecode, CaptureOver
        <5>3. CASE UiThread /\ ~Disconnect
          BY <3>3, <5>3, Zenon DEF UiThread, PressStart, StartDone, PressStop,
               ToggleRepeat, ChangeMode, HandleEnd, HandleDecoded, Redecode, Connect, server
        <5>4. QED BY <2>1, <3>3, <5>1, <5>2, <5>3 DEF Quiet, vars, server
      <4>2. rpc \notin Handling
        BY <3>3, <4>1, <3>1 DEF HandInv, Handling, Committing, StreamStays
      <4>3. QED BY <2>0, <3>1, <4>1, <4>2 DEF Streams, NoCapture, Servings
    <3>4. QED BY <3>2, <3>3
  <2>2. CASE Remark
    <3>1. /\ UNCHANGED << metaPending, rpc, hand >> /\ rpc = "recv"
          /\ srv'.state = srv.state /\ srv'.data = srv.data
      BY <2>2, RemarkSteps DEF Work, pend
    <3>2. capturing' = capturing
      BY <2>2, Zenon DEF Remark, RecvTrigger, RecvAnn, Annotate, RecvRedecoded, RecvDecodeEnd
    <3>3. QED BY <3>1, <3>2 DEF Streams, Handling, Committing
  <2>3. CASE RecvMeta
    <3>1. /\ srv.state = "armed" /\ srv' = [srv EXCEPT !.state = "streaming"]
          /\ rpc' = "recv" /\ capturing'
      BY <2>3 DEF RecvMeta, rx, Receiving
    <3>2. srv'.data = 0
      BY <2>0, <3>1 DEF Streams, Servings
    <3>3. QED BY <2>0, <3>1, <3>2 DEF Streams, Servings, Handling, Committing
  <2>4. ASSUME NEW kind \in Kinds, RecvData(kind) PROVE Streams'
    <3>1. /\ srv.state = "streaming" /\ srv'.state = "streaming" /\ hand'.n = srv'.data
          /\ capturing' = capturing /\ rpc' # "recv"
      BY <2>4, DataFrame DEF RecvData
    <3>2. QED BY <3>1 DEF Streams
  <2>5. CASE \/ CommitReset \/ CommitAnns \/ CommitMeta \/ CommitRecord
             \/ SwapBegin \/ SwapRecord \/ SwapMarker \/ SwapLive
    <3>1. /\ UNCHANGED << srv, capturing, hand >> /\ rpc' # "recv"
          /\ rpc' \in Handling => rpc \in Handling
      BY <2>5 DEF CommitReset, CommitAnns, CommitMeta, CommitRecord, SwapBegin,
                  SwapRecord, SwapMarker, SwapLive, Step, server, Handling, Committing
    <3>2. QED BY <3>1 DEF Streams
  <2>6. CASE AppendData \/ Tell
    <3>1. /\ UNCHANGED << srv, capturing, metaPending >> /\ rpc' = "recv"
          /\ rpc \notin Committing /\ rpc # "recv"
      BY <2>6 DEF AppendData, Tell, Step, server, Committing
    <3>2. ~metaPending
      BY <3>1 DEF HandInv
    <3>3. QED BY <3>1, <3>2 DEF Streams, Handling, Committing
  <2>7. CASE RecvEnd
    BY <2>7 DEF RecvEnd, NoCapture, Streams, Handling, Committing
  <2>8. QED BY <2>1, <2>2, <2>3, <2>4, <2>5, <2>6, <2>7, StepCases
<1>3. QED BY <1>1, <1>2, FlagsCorrect, DataCorrect, HandCorrect, PTL DEF Spec

\* Without Repeat there is one buffer.
OneBuffer == ~repeat /\ ~swapPending /\ fill = live /\ rpc \notin Swapping

LEMMA OneBufferCorrect ==
  ASSUME "repeat" \notin Acts
  PROVE  Spec => []OneBuffer
<1>1. Init => OneBuffer
  BY DEF Init, OneBuffer, Swapping

<1>2. DataOK /\ OneBuffer /\ [Next]_vars => OneBuffer'
  <2> SUFFICES ASSUME DataOK, OneBuffer, [Next]_vars PROVE OneBuffer'
    OBVIOUS
  <2>1. CASE Quiet
    <3>1. repeat' = repeat
      BY <2>1, Zenon DEF Quiet, UiThread, PressStart, StartDone, PressStop,
           ToggleRepeat, ChangeMode, HandleEnd, HandleDecoded, Redecode, Connect, Disconnect,
           Server, TakeStart, TakeDecode, CaptureOver, Lose, Cut, vars, ui
    <3>2. QED BY <2>1, <3>1, QuietSteps DEF Work, screen, OneBuffer
  <2>2. CASE Remark
    <3>1. repeat' = repeat
      BY <2>2, Zenon DEF Remark, RecvTrigger, RecvAnn, Annotate, RecvRedecoded, RecvDecodeEnd,
                         ui
    <3>2. QED BY <2>2, <3>1, RemarkSteps DEF Work, screen, OneBuffer
  <2>3. CASE RecvMeta
    BY <2>3 DEF RecvMeta, rx, ui, OneBuffer
  <2>4. ASSUME NEW kind \in Kinds, RecvData(kind) PROVE OneBuffer'
    BY <2>4 DEF RecvData, ui, screen, OneBuffer, Swapping
  <2>5. CASE CommitReset
    <3>1. ~SwapMode
      BY DEF SwapMode, OneBuffer
    <3>2. QED BY <2>5, <3>1, ResetDoes DEF CommitReset, Step, ui, screen, OneBuffer, Swapping
  <2>6. CASE CommitAnns \/ CommitMeta \/ CommitRecord \/ AppendData \/ Tell
    BY <2>6 DEF CommitAnns, CommitMeta, CommitRecord, AppendData, Tell, Step, ui, screen,
                OneBuffer, Swapping
  <2>7. CASE RecvEnd
    BY <2>7 DEF RecvEnd, ui, screen, OneBuffer, Swapping
  <2>8. CASE SwapBegin
    BY <2>8 DEF SwapBegin, Step, ui, OneBuffer, Swapping
  <2>9. CASE SwapRecord \/ SwapMarker \/ SwapLive
    BY <2>9 DEF SwapRecord, SwapMarker, SwapLive, Step, OneBuffer, Swapping
  <2>10. QED BY <2>1, <2>2, <2>3, <2>4, <2>5, <2>6, <2>7, <2>8, <2>9, StepCases
<1>3. QED BY <1>1, <1>2, DataCorrect, PTL DEF Spec

Asked(m) == m.type = "DECODE" => m.of = meta /\ srv.state \notin {"armed", "streaming"}
Asking ==
    /\ Asked(decoding)
    /\ \A j \in DOMAIN toServer :
           /\ Asked(toServer[j])
           /\ toServer[j].type = "DECODE" =>
                  \A i \in 1 .. j - 1 : toServer[i].type # "START"

\* While a capture is armed or runs no re-decode is unanswered.
LEMMA Undecoded ==
  ASSUME Asking, srv.state \in {"armed", "streaming"}
  PROVE  decoding.type # "DECODE" /\ \A j \in DOMAIN toServer : toServer[j].type # "DECODE"
  BY DEF Asking, Asked

LEMMA NoneAsked ==
  ASSUME decoding'.type # "DECODE", \A j \in DOMAIN toServer' : toServer'[j].type # "DECODE"
  PROVE  Asking'
  BY DEF Asking, Asked

\* Nor does anything change for one when nothing is sent, taken or begun.
LEMMA StillAsking ==
  ASSUME Asking, meta' = meta, toServer' = toServer,
         decoding' = decoding \/ decoding'.type # "DECODE",
         srv'.state \in {"armed", "streaming"} => srv.state \in {"armed", "streaming"}
  PROVE  Asking'
<1>1. Asked(decoding)'
  BY DEF Asking, Asked
<1>2. \A j \in DOMAIN toServer : Asked(toServer[j]) => Asked(toServer[j])'
  BY DEF Asked
<1>3. QED BY <1>1, <1>2 DEF Asking, Asked

\* A START is put behind what is asked already.
LEMMA StartBehind ==
  ASSUME DataOK, Asking, StartSent, meta' = meta, srv' = srv, decoding' = decoding
  PROVE  Asking'
<1> DEFINE start == Frame("START", 0, 0)
<1>1. toServer' = Append(toServer, start) /\ toServer \in Seq(Requests) /\ start \in Requests
  BY StartIsRequest DEF StartSent, DataOK
<1>2. start.type # "DECODE"
  BY DEF Frame
<1> HIDE DEF start
<1>3. /\ DOMAIN toServer = 1 .. Len(toServer) /\ Len(toServer) \in Nat
      /\ DOMAIN toServer' = 1 .. Len(toServer) + 1
      /\ \A i \in 1 .. Len(toServer) : toServer'[i] = toServer[i]
      /\ toServer'[Len(toServer) + 1] = start
  BY <1>1, AppendAt
<1>4. ASSUME NEW j \in DOMAIN toServer'
      PROVE  /\ Asked(toServer[j])'
             /\ toServer'[j].type = "DECODE" =>
                    \A i \in 1 .. j - 1 : toServer'[i].type # "START"
  <2>1. CASE j = Len(toServer) + 1
    BY <2>1, <1>2, <1>3 DEF Asked
  <2>2. CASE j \in 1 .. Len(toServer)
    BY <2>2, <1>3 DEF Asking, Asked
  <2>3. QED BY <1>3, <2>1, <2>2
<1>5. Asked(decoding)'
  BY DEF Asking, Asked
<1>6. QED BY <1>4, <1>5 DEF Asking, Asked

\* The first message is taken.
LEMMA TakenFirst ==
  ASSUME DataOK, Asking, toServer # << >>, toServer' = Tail(toServer), meta' = meta
  PROVE  \A j \in DOMAIN toServer' :
             /\ j + 1 \in DOMAIN toServer /\ toServer'[j] = toServer[j + 1]
             /\ toServer'[j].type = "DECODE" =>
                    /\ toServer'[j].of = meta
                    /\ \A i \in 1 .. j - 1 : toServer'[i].type # "START"
                    /\ Head(toServer).type # "START"
<1>1. /\ DOMAIN toServer = 1 .. Len(toServer) /\ Len(toServer) \in Nat \ {0}
      /\ Head(toServer) = toServer[1]
      /\ DOMAIN toServer' = 1 .. Len(toServer) - 1
      /\ \A i \in 1 .. Len(toServer) - 1 : toServer'[i] = toServer[i + 1]
  BY TailAt DEF DataOK
<1> SUFFICES ASSUME NEW j \in DOMAIN toServer'
             PROVE  /\ j + 1 \in DOMAIN toServer /\ toServer'[j] = toServer[j + 1]
                    /\ toServer'[j].type = "DECODE" =>
                           /\ toServer'[j].of = meta
                           /\ \A i \in 1 .. j - 1 : toServer'[i].type # "START"
                           /\ Head(toServer).type # "START"
  OBVIOUS
<1>2. j + 1 \in DOMAIN toServer /\ toServer'[j] = toServer[j + 1]
  BY <1>1
<1>3. ASSUME toServer'[j].type = "DECODE"
      PROVE  /\ toServer'[j].of = meta
             /\ \A i \in 1 .. j - 1 : toServer'[i].type # "START"
             /\ Head(toServer).type # "START"
  <2>1. Asked(toServer[j + 1]) /\ \A i \in 1 .. j : toServer[i].type # "START"
    BY <1>1, <1>2, <1>3 DEF Asking
  <2>2. 1 \in 1 .. j /\ j \in Nat
    BY <1>1
  <2>3. \A i \in 1 .. j - 1 : toServer'[i] = toServer[i + 1] /\ i + 1 \in 1 .. j
    BY <1>1
  <2>4. QED BY <1>1, <1>2, <1>3, <2>1, <2>2, <2>3 DEF Asked
<1>4. QED BY <1>2, <1>3

\* Between the reset of the annotations and the new metadata there are none.
Cleared == rpc = "meta" => buf[fill].anns = {}

LEMMA BelongKept ==
  ASSUME AnnsBelong, Cleared, UNCHANGED << live, meta, fill, rpc >>, fill = live,
         buf'[live].anns = buf[live].anns
  PROVE  AnnsBelong' /\ Cleared'
  BY DEF AnnsBelong, Cleared

LEMMA AskingCorrect ==
  ASSUME "repeat" \notin Acts, Calm
  PROVE  Spec => [](Asking /\ AnnsBelong /\ Cleared)
<1> DEFINE I == Asking /\ AnnsBelong /\ Cleared
<1> DEFINE Known == DataOK /\ HandInv /\ ScreenInv /\ OneBuffer /\ Streams
<1>1. Init => I
  <2> SUFFICES ASSUME Init PROVE I
    OBVIOUS
  <2>1. toServer = << >> /\ decoding.type # "DECODE" /\ buf[live].anns = {} /\ rpc = "recv"
    BY DEF Init, NoDecode, EmptyBuf
  <2>2. QED BY <2>1 DEF Asking, Asked, AnnsBelong, Cleared

<1>2. Known /\ I /\ [Next]_vars => I'
  <2> SUFFICES ASSUME Known, I, [Next]_vars PROVE I'
    OBVIOUS
  <2>0. DataOK /\ HandInv /\ ScreenInv /\ OneBuffer /\ Streams /\ Asking /\ AnnsBelong /\ Cleared
    OBVIOUS
  <2>b. live \in {0, 1} /\ fill = live /\ buf \in [{0, 1} -> Buffers] /\ srv \in Servings
    BY <2>0 DEF OneBuffer, DataOK
  <2>1. CASE Quiet
    <3>0. UNCHANGED << live, meta, fill, rpc >>
      BY <2>0, <2>1, QuietSteps DEF Work, screen
    <3>1. CASE PressStart \/ HandleEnd
      <4>1. /\ buf' = buf /\ srv' = srv /\ decoding' = decoding
            /\ StartSent \/ toServer' = toServer
        BY <3>1, Zenon DEF PressStart, HandleEnd, StartRefused, rx, server
      <4>2. CASE StartSent
        BY <4>1, <4>2, <3>0, <2>0, <2>b, StartBehind, BelongKept
      <4>3. CASE toServer' = toServer
        BY <4>1, <4>3, <3>0, <2>0, <2>b, StillAsking, BelongKept
      <4>4. QED BY <4>1, <4>2, <4>3
    <3>2. CASE \/ StartDone \/ PressStop \/ ToggleRepeat \/ ChangeMode \/ HandleDecoded
               \/ Connect \/ CaptureOver \/ UNCHANGED vars
      <4>1. /\ buf' = buf /\ toServer' = toServer /\ decoding' = decoding
            /\ srv' = srv \/ srv' = NoCapture
        BY <3>2, Zenon DEF StartDone, PressStop, ToggleRepeat, ChangeMode, HandleDecoded,
             Connect, CaptureOver, vars, rx, server
      <4>2. srv'.state \in {"armed", "streaming"} => srv.state \in {"armed", "streaming"}
        BY <4>1 DEF NoCapture
      <4>3. QED BY <4>1, <4>2, <3>0, <2>0, <2>b, StillAsking, BelongKept
    <3>3. CASE Redecode
      <4>1. /\ srv' = srv /\ decoding' = decoding /\ ~Unanswered /\ ~capturing
            /\ buf' = [buf EXCEPT ![live].anns = {}]
            /\ \/ \E f \in Shown : toServer' = Append(toServer,
                                             Frame("DECODE", f.of, redecodes'))
               \/ toServer' = toServer
        BY <3>3 DEF Redecode, server
      <4>2. AnnsBelong' /\ Cleared'
        <5>1. buf'[live].anns = {}
          BY <4>1, <2>0, <2>b, AnnsSet
        <5>2. QED BY <2>b, <3>0, <5>1 DEF AnnsBelong, Cleared
      <4>3. CASE toServer' = toServer
        BY <4>1, <4>2, <4>3, <3>0, <2>0, StillAsking
      <4>4. ASSUME NEW f \in Shown,
                   toServer' = Append(toServer, Frame("DECODE", f.of, redecodes'))
            PROVE  Asking'
        <5> DEFINE m == Frame("DECODE", f.of, redecodes')
        <5>1. f \in SampleFrames /\ f.of = meta
          BY <2>0, <2>b DEF Shown, Buffers, ScreenInv, Screen!AllOf, OneBuffer
        <5>2. m.type = "DECODE" /\ m.of = meta
          BY <5>1 DEF Frame
        <5>3. srv.state \notin {"armed", "streaming"}
          BY <4>1, <2>0 DEF Unanswered, Streams
        <5>4. m \in Requests
          <6>1. redecodes' \in 1 .. MaxRedecode
            BY <3>3, <2>0, BoundsAssumption DEF Redecode, DataOK
          <6>2. f.of \in 1 .. MaxAcq
            BY <5>1 DEF SampleFrames
          <6>3. QED BY <6>1, <6>2, DecodeIsRequest
        <5> HIDE DEF m
        <5>5. /\ DOMAIN toServer = 1 .. Len(toServer) /\ Len(toServer) \in Nat
              /\ DOMAIN toServer' = 1 .. Len(toServer) + 1
              /\ \A i \in 1 .. Len(toServer) : toServer'[i] = toServer[i]
              /\ toServer'[Len(toServer) + 1] = m
          <6>1. toServer' = Append(toServer, m)
            BY <4>4 DEF m
          <6>2. QED BY <2>0, <5>4, <6>1, AppendAt DEF DataOK
        <5>6. \A i \in DOMAIN toServer : toServer[i].type # "START"
          BY <4>1 DEF Unanswered
        <5>7. ASSUME NEW j \in DOMAIN toServer'
              PROVE  /\ Asked(toServer[j])'
                     /\ toServer'[j].type = "DECODE" =>
                            \A i \in 1 .. j - 1 : toServer'[i].type # "START"
          <6>1. CASE j = Len(toServer) + 1
            BY <6>1, <3>0, <4>1, <5>2, <5>3, <5>5, <5>6 DEF Asked
          <6>2. CASE j \in 1 .. Len(toServer)
            BY <6>2, <3>0, <4>1, <5>5, <5>6, <2>0 DEF Asking, Asked
          <6>3. QED BY <5>5, <6>1, <6>2
        <5>8. Asked(decoding)'
          BY <2>0, <3>0, <4>1 DEF Asking, Asked
        <5>9. QED BY <5>7, <5>8 DEF Asking, Asked
      <4>5. QED BY <4>1, <4>2, <4>3, <4>4
    <3>4. CASE Disconnect \/ Lose
      <4>1. buf' = buf /\ decoding' = NoDecode /\ toServer' = << >>
        BY <3>4 DEF Disconnect, Lose, Cut, rx
      <4>2. QED BY <4>1, <3>0, <2>0, <2>b, NoneAsked, BelongKept DEF NoDecode
    <3>5. CASE TakeStart
      <4>1. /\ buf' = buf /\ decoding' = decoding /\ decoding = NoDecode
            /\ toServer # << >> /\ toServer' = Tail(toServer) /\ Head(toServer).type = "START"
        BY <3>5 DEF TakeStart, rx
      <4>2. \A j \in DOMAIN toServer' : toServer'[j].type # "DECODE"
        BY <4>1, <3>0, <2>0, TakenFirst
      <4>3. QED BY <4>1, <4>2, <3>0, <2>0, <2>b, NoneAsked, BelongKept DEF NoDecode
    <3>6. CASE TakeDecode
      <4>1. /\ buf' = buf /\ srv' = srv
            /\ toServer # << >> /\ toServer' = Tail(toServer) /\ decoding' = Head(toServer)
        BY <3>6 DEF TakeDecode, rx
      <4>2. \A j \in DOMAIN toServer' :
                /\ j + 1 \in DOMAIN toServer /\ toServer'[j] = toServer[j + 1]
                /\ toServer'[j].type = "DECODE" =>
                       /\ toServer'[j].of = meta
                       /\ \A i \in 1 .. j - 1 : toServer'[i].type # "START"
        BY <4>1, <3>0, <2>0, TakenFirst
      <4>3. Asked(Head(toServer)) /\ \A j \in DOMAIN toServer : Asked(toServer[j])
        BY <4>1, <2>0, TailAt DEF DataOK, Asking
      <4>4. Asking'
        BY <4>1, <4>2, <4>3, <3>0 DEF Asking, Asked
      <4>5. QED BY <4>1, <4>4, <3>0, <2>0, <2>b, BelongKept
    <3>7. QED BY <2>1, <3>1, <3>2, <3>3, <3>4, <3>5, <3>6 DEF Quiet, UiThread, Server
  <2>2. CASE Remark
    <3>0. /\ UNCHANGED << live, meta, fill, rpc >> /\ rpc = "recv" /\ srv'.state = srv.state
      BY <2>0, <2>2, RemarkSteps DEF Work, screen
    <3>1. CASE RecvTrigger \/ RecvDecodeEnd
      <4>1. /\ buf' = buf /\ toServer' = toServer
            /\ decoding' = decoding \/ decoding' = NoDecode
        BY <3>1 DEF RecvTrigger, RecvDecodeEnd, rx
      <4>2. QED BY <4>1, <3>0, <2>0, <2>b, StillAsking, BelongKept DEF NoDecode
    <3>2. CASE RecvAnn
      <4>1. /\ toServer' = toServer /\ decoding' = decoding
            /\ srv.state = "streaming" /\ srv.data > 0
            /\ buf' = [buf EXCEPT ![fill].anns = @ \cup {Frame("ann", acq, 0)}]
        BY <3>2 DEF RecvAnn, Annotate
      <4>2. acq = meta
        BY <4>1, <3>0, <2>0, <2>b DEF Streams, ScreenInv
      <4>3. AnnsBelong' /\ Cleared'
        <5>1. buf'[live].anns = buf[live].anns \cup {Frame("ann", acq, 0)}
          BY <4>1, <2>0, <2>b, AnnsSet
        <5>2. QED BY <4>2, <5>1, <3>0, <2>0 DEF AnnsBelong, Cleared, Frame
      <4>4. QED BY <4>1, <4>3, <2>0, Undecoded, NoneAsked
    <3>3. CASE RecvRedecoded
      <4>1. /\ toServer' = toServer /\ srv' = srv /\ decoding.type = "DECODE"
            /\ decoding' = [decoding EXCEPT !.type = "done"]
            /\ buf' = [buf EXCEPT ![fill].anns = @ \cup {Frame("ann", decoding.of, decoding.n)}]
        BY <3>3 DEF RecvRedecoded, Annotate
      <4>2. decoding.of = meta
        BY <4>1, <2>0 DEF Asking, Asked
      <4>3. AnnsBelong' /\ Cleared'
        <5>1. buf'[live].anns = buf[live].anns \cup {Frame("ann", decoding.of, decoding.n)}
          BY <4>1, <2>0, <2>b, AnnsSet
        <5>2. QED BY <4>2, <5>1, <3>0, <2>0 DEF AnnsBelong, Cleared, Frame
      <4>4. decoding'.type # "DECODE"
        BY <4>1, <2>0 DEF DataOK, NoDecode, Decodes
      <4>5. QED BY <4>1, <4>3, <4>4, <3>0, <2>0, StillAsking
    <3>4. QED BY <2>2, <3>1, <3>2, <3>3 DEF Remark
  <2>3. CASE RecvMeta
    <3>1. /\ UNCHANGED << live, meta, fill, rpc, buf, decoding, toServer >> /\ srv.state = "armed"
      BY <2>3 DEF RecvMeta, rx
    <3>2. QED BY <3>1, <2>0, <2>b, Undecoded, NoneAsked, BelongKept
  <2>4. ASSUME NEW kind \in Kinds, RecvData(kind) PROVE I'
    <3>1. /\ UNCHANGED << live, meta, buf, decoding, toServer >> /\ srv.state = "streaming"
          /\ rpc' # "meta"
      BY <2>4 DEF RecvData, screen
    <3>2. QED BY <3>1, <2>0, Undecoded, NoneAsked DEF AnnsBelong, Cleared
  <2>5. CASE CommitReset \/ CommitAnns \/ CommitMeta \/ CommitRecord \/ AppendData
    <3>1. UNCHANGED << live, decoding, toServer >> /\ rpc \in Handling
      BY <2>5, Zenon DEF CommitReset, CommitAnns, CommitMeta, CommitRecord, AppendData, Step,
                         screen, server, Handling, Committing
    <3>2. Asking'
      BY <3>1, <2>0, Undecoded, NoneAsked DEF HandInv
    <3>3. CASE CommitReset
      <4>1. meta' = meta /\ rpc' = "anns" /\ buf'[live].anns = buf[live].anns
        BY <3>3, <2>0, <2>b, ResetDoes DEF CommitReset, Step, screen
      <4>2. QED BY <3>1, <3>2, <4>1, <2>0 DEF AnnsBelong, Cleared
    <3>4. CASE CommitAnns
      <4>1. fill' = fill /\ buf'[fill].anns = {}
        BY <3>4, <2>0, <2>b, AnnsSet DEF CommitAnns
      <4>2. QED BY <2>b, <3>1, <3>2, <4>1 DEF AnnsBelong, Cleared
    <3>5. CASE CommitMeta
      <4>1. buf'[live].anns = {} /\ rpc' = "record"
        BY <3>5, <2>0, <2>b, CommitMetaDoes DEF CommitMeta, Step, Cleared
      <4>2. QED BY <3>1, <3>2, <4>1 DEF AnnsBelong, Cleared
    <3>6. CASE CommitRecord \/ AppendData
      <4>1. meta' = meta /\ rpc' # "meta" /\ buf'[live].anns = buf[live].anns
        BY <3>6, <2>0, <2>b, AppendDoes DEF CommitRecord, AppendData, Step, screen
      <4>2. QED BY <3>1, <3>2, <4>1, <2>0 DEF AnnsBelong, Cleared
    <3>7. QED BY <2>5, <3>3, <3>4, <3>5, <3>6
  <2>6. CASE RecvEnd \/ SwapBegin \/ Tell
    <3>1. /\ UNCHANGED << live, meta, buf, decoding, toServer >> /\ rpc' # "meta"
          /\ srv' = srv \/ srv'.state \notin {"armed", "streaming"}
      <4>1. CASE RecvEnd
        BY <4>1 DEF RecvEnd, screen, NoCapture
      <4>2. CASE SwapBegin
        BY <4>2, <2>0 DEF SwapBegin, Step, server, OneBuffer
      <4>3. CASE Tell
        BY <4>3 DEF Tell, Step, screen, server
      <4>4. QED BY <2>6, <4>1, <4>2, <4>3
    <3>2. QED BY <3>1, <2>0, StillAsking DEF AnnsBelong, Cleared
  <2>7. CASE SwapRecord \/ SwapMarker \/ SwapLive
    BY <2>7, <2>0 DEF SwapRecord, SwapMarker, SwapLive, Step, OneBuffer, Swapping
  <2>8. QED BY <2>1, <2>2, <2>3, <2>4, <2>5, <2>6, <2>7, StepCases
<1>3. QED
  BY <1>1, <1>2, DataCorrect, HandCorrect, ScreenCorrect, OneBufferCorrect, StreamsCorrect,
     PTL DEF Spec

\* The annotations on the screen were decoded from the samples on the screen, if
\* the user does not use Repeat and starts a re-decode only when no START is
\* unanswered.
THEOREM AnnotationsBelong ==
  ASSUME "repeat" \notin Acts, Calm
  PROVE  Spec => []AnnsBelong
BY AskingCorrect, PTL

-----------------------------------------------------------------------------
(* The Run/Stop button.                                                    *)

\* The invariant behind RunIsLive.
RunInv ==
    /\ run \/ upc = "starting" => Awaited \/ stranded
    /\ (run \/ upc = "starting") /\ ~connected => stranded
    /\ capturing => srv.state = "streaming"

\* It is kept by a step after which an acquisition streams or the end of one is
\* being handled, ...
LEMMA StreamsLive ==
  ASSUME RunInv, srv'.state = "streaming" \/ (ending' # "none" /\ ~capturing'),
         UNCHANGED << run, upc, stranded, connected >>
  PROVE  RunInv'
  BY Zenon DEF RunInv, Awaited

\* ... and by a step after which what was awaited still is.
LEMMA StaysLive ==
  ASSUME RunInv, Awaited => Awaited', UNCHANGED << stranded, connected >>,
         run' \/ upc' = "starting" => run \/ upc = "starting",
         capturing' => capturing /\ srv' = srv
  PROVE  RunInv'
  BY Zenon DEF RunInv

LEMMA StillAwaited ==
  ASSUME Awaited, UNCHANGED << toServer, ctrl, srv, ending >>
  PROVE  Awaited'
  BY DEF Awaited, Unanswered

\* A message more in a queue takes none away.
LEMMA SentAwaited ==
  ASSUME DataOK, Awaited, UNCHANGED << ctrl, srv, ending >>,
         NEW m \in Requests, toServer' = Append(toServer, m)
  PROVE  Awaited'
<1>1. \A i \in DOMAIN toServer : i \in DOMAIN toServer' /\ toServer'[i] = toServer[i]
  BY AppendAt DEF DataOK
<1>2. QED BY <1>1 DEF Awaited, Unanswered

LEMMA ToldAwaited ==
  ASSUME DataOK, Awaited, UNCHANGED << toServer, srv, ending >>,
         NEW a \in Answers, ctrl' = Append(ctrl, a)
  PROVE  Awaited'
<1>1. \A i \in DOMAIN ctrl : i \in DOMAIN ctrl' /\ ctrl'[i] = ctrl[i]
  BY AppendAt DEF DataOK
<1>2. QED BY <1>1 DEF Awaited, Unanswered

\* A START on its way is awaited, and a CAPTURE_END in ctrl_ is.
LEMMA StartAwaited ==
  ASSUME DataOK, StartSent
  PROVE  Awaited'
<1>1. toServer' = Append(toServer, Frame("START", 0, 0)) /\ toServer \in Seq(Requests)
  BY DEF StartSent, DataOK
<1>2. Len(toServer) + 1 \in DOMAIN toServer'
      /\ toServer'[Len(toServer) + 1] = Frame("START", 0, 0)
  BY <1>1, AppendAt, StartIsRequest
<1>3. QED BY <1>2 DEF Awaited, Unanswered, Frame

LEMMA EndAwaited ==
  ASSUME DataOK, Tell
  PROVE  Awaited'
<1>1. ending \in {"complete", "stopped"} /\ ctrl' = Append(ctrl, ending) /\ ctrl \in Seq(Answers)
  BY DEF Tell, Step, DataOK, Closing
<1>2. Len(ctrl) + 1 \in DOMAIN ctrl' /\ ctrl'[Len(ctrl) + 1] = ending
  BY <1>1, AppendAt DEF Answers
<1>3. QED BY <1>1, <1>2 DEF Awaited

\* Of a queue from which something else is taken nothing awaited is lost.
LEMMA PassedAwaited ==
  ASSUME DataOK, Awaited, srv' = srv, ending' = ending,
         \/ /\ toServer' = toServer /\ ctrl # << >> /\ ctrl' = Tail(ctrl)
            /\ Head(ctrl) \notin {"complete", "stopped"}
         \/ /\ ctrl' = ctrl /\ toServer # << >> /\ toServer' = Tail(toServer)
            /\ Head(toServer).type # "START"
  PROVE  Awaited'
<1>1. CASE /\ toServer' = toServer /\ ctrl # << >> /\ ctrl' = Tail(ctrl)
           /\ Head(ctrl) \notin {"complete", "stopped"}
  <2>1. /\ DOMAIN ctrl = 1 .. Len(ctrl) /\ Len(ctrl) \in Nat \ {0} /\ Head(ctrl) = ctrl[1]
        /\ DOMAIN ctrl' = 1 .. Len(ctrl) - 1
        /\ \A i \in 1 .. Len(ctrl) - 1 : ctrl'[i] = ctrl[i + 1]
    BY <1>1, TailAt DEF DataOK
  <2>2. ASSUME NEW i \in DOMAIN ctrl, ctrl[i] \in {"complete", "stopped"}
        PROVE  i - 1 \in DOMAIN ctrl' /\ ctrl'[i - 1] \in {"complete", "stopped"}
    <3>1. i # 1
      BY <2>1, <2>2, <1>1
    <3>2. i - 1 \in 1 .. Len(ctrl) - 1 /\ (i - 1) + 1 = i
      BY <2>1, <3>1
    <3>3. QED BY <2>1, <2>2, <3>2
  <2>3. QED BY <1>1, <2>2 DEF Awaited, Unanswered
<1>2. CASE /\ ctrl' = ctrl /\ toServer # << >> /\ toServer' = Tail(toServer)
           /\ Head(toServer).type # "START"
  <2>1. /\ DOMAIN toServer = 1 .. Len(toServer) /\ Len(toServer) \in Nat \ {0}
        /\ Head(toServer) = toServer[1]
        /\ DOMAIN toServer' = 1 .. Len(toServer) - 1
        /\ \A i \in 1 .. Len(toServer) - 1 : toServer'[i] = toServer[i + 1]
    BY <1>2, TailAt DEF DataOK
  <2>2. ASSUME NEW i \in DOMAIN toServer, toServer[i].type = "START"
        PROVE  i - 1 \in DOMAIN toServer' /\ toServer'[i - 1].type = "START"
    <3>1. i # 1
      BY <2>1, <2>2, <1>2
    <3>2. i - 1 \in 1 .. Len(toServer) - 1 /\ (i - 1) + 1 = i
      BY <2>1, <3>1
    <3>3. QED BY <2>1, <2>2, <3>2
  <2>3. QED BY <1>2, <2>2 DEF Awaited, Unanswered
<1>3. QED BY <1>1, <1>2

LEMMA RunInvCorrect == Spec => []RunInv
<1>1. Init => RunInv
  BY DEF Init, RunInv

<1>2. FlagsOK /\ DataOK /\ RunInv /\ [Next]_vars => RunInv'
  <2> SUFFICES ASSUME FlagsOK, DataOK, RunInv, [Next]_vars PROVE RunInv'
    OBVIOUS
  <2> USE DEF vars, ui, screen, pend, rx, server
  <2>0. srv \in Servings
    BY DEF DataOK
  <2>1. CASE UiThread
    <3>1. CASE PressStart
      <4>1. UNCHANGED << srv, capturing, connected >> /\ connected
        BY <3>1 DEF PressStart
      <4>2. CASE StartSent
        BY <4>1, <4>2, StartAwaited, Zenon DEF RunInv
      <4>3. CASE StartRefused
        <5>1. run' = FALSE /\ upc' # "starting"
          BY <3>1, <4>3 DEF PressStart, StartRefused
        <5>2. QED BY <4>1, <5>1, Zenon DEF RunInv
      <4>4. QED BY <3>1, <4>2, <4>3 DEF PressStart
    <3>2. CASE StartDone \/ PressStop \/ ToggleRepeat \/ ChangeMode
      <4>1. /\ UNCHANGED << toServer, ctrl, srv, ending, connected, capturing, stranded >>
            /\ run' \/ upc' = "starting" => run \/ upc = "starting"
        <5>1. UNCHANGED << toServer, ctrl, srv, ending, connected, capturing, stranded >>
          BY <3>2, Zenon DEF StartDone, PressStop, ToggleRepeat, ChangeMode
        <5>2. run' \/ upc' = "starting" => run \/ upc = "starting"
          BY <3>2 DEF StartDone, PressStop, ToggleRepeat, ChangeMode
        <5>3. QED BY <5>1, <5>2
      <4>2. QED BY <4>1, StillAwaited, StaysLive
    <3>3. CASE HandleEnd
      <4> DEFINE going == run /\ Head(ctrl) = "complete"
                 again == repeat /\ going /\ connected /\ ~capturing /\ triggered
      <4>1. UNCHANGED << srv, capturing, connected, ending >> /\ upc = "idle"
        BY <3>3 DEF HandleEnd
      <4>2. CASE again
        <5>1. connected
          BY <4>2
        <5>2. CASE StartSent
          BY <4>1, <5>1, <5>2, StartAwaited, Zenon DEF RunInv
        <5>3. CASE StartRefused
          <6>1. run' = FALSE /\ upc' # "starting"
            BY <4>1, <5>3 DEF StartRefused
          <6>2. QED BY <4>1, <6>1, Zenon DEF RunInv
        <5>4. QED BY <3>3, <4>2, <5>2, <5>3 DEF HandleEnd
      <4>3. CASE ~again
        <5>1. /\ run' = (going /\ repeat) /\ upc' = upc
              /\ stranded' = (stranded \/ (going /\ repeat /\ ~triggered))
          BY <3>3, <4>3, Zenon DEF HandleEnd
        <5>2. CASE going /\ repeat
          <6>1. ~connected \/ capturing \/ ~triggered
            BY <4>3, <5>2
          <6>2. ~connected => stranded'
            BY <5>1, <5>2, Zenon DEF RunInv
          <6>3. ~triggered => stranded'
            BY <5>1, <5>2, Zenon
          <6>4. capturing => Awaited'
            BY <4>1 DEF RunInv, Awaited
          <6>5. QED BY <4>1, <6>1, <6>2, <6>3, <6>4, Zenon DEF RunInv
        <5>3. CASE ~(going /\ repeat)
          <6>1. run' = FALSE /\ upc' # "starting"
            BY <4>1, <5>1, <5>3
          <6>2. QED BY <4>1, <6>1, Zenon DEF RunInv
        <5>4. QED BY <5>2, <5>3
      <4>4. QED BY <4>2, <4>3
    <3>4. CASE HandleDecoded
      <4>1. /\ UNCHANGED << toServer, srv, ending, connected, capturing, stranded, run, upc >>
            /\ ctrl # << >> /\ ctrl' = Tail(ctrl) /\ Head(ctrl) \in {"decoded", "failed"}
        BY <3>4 DEF HandleDecoded
      <4>2. QED BY <4>1, PassedAwaited, StaysLive
    <3>5. CASE Redecode
      <4>1. /\ UNCHANGED << srv, ending, connected, ctrl, capturing, stranded, run, upc >>
            /\ \/ toServer' = toServer
               \/ \E m \in Requests : toServer' = Append(toServer, m)
        <5>1. redecodes' \in 1 .. MaxRedecode /\ Shown \subseteq SampleFrames
          BY <3>5, BoundsAssumption DEF Redecode, DataOK, Shown, Buffers
        <5>2. \A f \in Shown : Frame("DECODE", f.of, redecodes') \in Requests
          BY <5>1, DecodeIsRequest DEF SampleFrames
        <5>3. /\ UNCHANGED << srv, ending, connected, ctrl, capturing, stranded, run, upc >>
              /\ \/ \E f \in Shown :
                       toServer' = Append(toServer, Frame("DECODE", f.of, redecodes'))
                 \/ toServer' = toServer
          BY <3>5, Zenon DEF Redecode
        <5>4. QED BY <5>2, <5>3
      <4>2. Awaited => Awaited'
        BY <4>1, StillAwaited, SentAwaited
      <4>3. QED BY <4>1, <4>2, StaysLive
    <3>6. CASE Connect
      <4>1. /\ ~connected /\ UNCHANGED << run, upc, srv, capturing, stranded >> /\ connected'
        BY <3>6 DEF Connect
      <4>2. QED BY <4>1, Zenon DEF RunInv
    <3>7. CASE Disconnect
      <4>1. run' = FALSE /\ upc' # "starting" /\ capturing' = FALSE
        BY <3>7 DEF Disconnect, Cut
      <4>2. QED BY <4>1, Zenon DEF RunInv
    <3>8. QED BY <2>1, <3>1, <3>2, <3>3, <3>4, <3>5, <3>6, <3>7 DEF UiThread
  <2>2. CASE RxThread
    <3>1. CASE RecvMeta
      <4>1. UNCHANGED << run, upc, stranded, connected >> /\ srv'.state = "streaming"
        BY <3>1, <2>0 DEF RecvMeta, Servings
      <4>2. QED BY <4>1, StreamsLive
    <3>2. CASE RecvTrigger \/ RecvAnn
      <4>1. UNCHANGED << run, upc, stranded, connected >> /\ srv'.state = "streaming"
        BY <3>2, <2>0 DEF RecvTrigger, RecvAnn, Annotate, Servings
      <4>2. QED BY <4>1, StreamsLive
    <3>3. ASSUME NEW kind \in Kinds, RecvData(kind) PROVE RunInv'
      <4>1. UNCHANGED << run, upc, stranded, connected >> /\ srv'.state = "streaming"
        BY <3>3, DataFrame DEF RecvData
      <4>2. QED BY <4>1, StreamsLive
    <3>4. CASE \/ Commit \/ AppendData \/ Swap \/ RecvRedecoded
      <4>1. UNCHANGED << toServer, ctrl, srv, ending, connected, capturing, stranded, run, upc >>
        BY <3>4, Zenon DEF Commit, CommitReset, CommitAnns, CommitMeta, CommitRecord, AppendData,
             Swap, SwapBegin, SwapRecord, SwapMarker, SwapLive, Step, RecvRedecoded, Annotate
      <4>2. QED BY <4>1, StillAwaited, StaysLive
    <3>5. CASE RecvDecodeEnd
      <4>1. /\ UNCHANGED << toServer, srv, ending, connected, capturing, stranded, run, upc >>
            /\ \E a \in Answers : ctrl' = Append(ctrl, a)
        BY <3>5 DEF RecvDecodeEnd, Answers
      <4>2. QED BY <4>1, ToldAwaited, StaysLive
    <3>6. CASE RecvEnd
      <4>1. /\ UNCHANGED << run, upc, stranded, connected >> /\ ending' # "none" /\ ~capturing'
        BY <3>6 DEF RecvEnd
      <4>2. QED BY <4>1, StreamsLive
    <3>7. CASE Tell
      <4>1. UNCHANGED << srv, connected, capturing, stranded, run, upc >>
        BY <3>7, Zenon DEF Tell, Step
      <4>2. QED BY <3>7, <4>1, EndAwaited, StaysLive
    <3>8. QED BY <2>2, <3>1, <3>2, <3>3, <3>4, <3>5, <3>6, <3>7 DEF RxThread
  <2>3. CASE Server
    <3>1. CASE TakeStart
      <4>1. /\ UNCHANGED << ctrl, ending, connected, capturing, run, upc >>
            /\ srv' = IF srv.state = "idle" THEN [srv EXCEPT !.state = "armed"] ELSE srv
            /\ stranded' = (stranded \/ srv.state = "ending")
        BY <3>1, Zenon DEF TakeStart
      <4>2. CASE srv.state = "ending"
        <5>1. stranded' /\ srv' = srv
          BY <4>1, <4>2
        <5>2. QED BY <4>1, <5>1, Zenon DEF RunInv
      <4>3. CASE srv.state # "ending"
        <5>1. /\ srv'.state \in {"armed", "streaming"}
              /\ srv.state = "streaming" => srv' = srv
          BY <4>1, <4>3, <2>0 DEF Servings
        <5>2. Awaited' /\ stranded' = stranded
          BY <4>1, <4>3, <5>1, <2>0 DEF Awaited, Unanswered, FlagsOK
        <5>3. QED BY <4>1, <5>1, <5>2, Zenon DEF RunInv
      <4>4. QED BY <4>2, <4>3
    <3>2. CASE TakeDecode
      <4>1. /\ UNCHANGED << ctrl, ending, connected, run, upc, srv, capturing, stranded >>
            /\ toServer # << >> /\ toServer' = Tail(toServer) /\ Head(toServer).type = "DECODE"
        BY <3>2 DEF TakeDecode
      <4>2. QED BY <4>1, PassedAwaited, StaysLive
    <3>3. CASE CaptureOver
      <4>1. /\ UNCHANGED << toServer, ctrl, ending, connected, run, upc, capturing, stranded >>
            /\ srv.state = "ending"
        BY <3>3 DEF CaptureOver
      <4>2. ~capturing
        BY <4>1 DEF RunInv
      <4>3. Awaited => Awaited'
        BY <4>1 DEF Awaited, Unanswered
      <4>4. QED BY <4>1, <4>2, <4>3, StaysLive
    <3>4. QED BY <2>3, <3>1, <3>2, <3>3 DEF Server
  <2>4. CASE Lose
    <4>1. stranded' = TRUE /\ capturing' = FALSE
      BY <2>4 DEF Lose, Cut
    <4>2. QED BY <4>1, Zenon DEF RunInv
  <2>5. CASE UNCHANGED vars
    <4>1. UNCHANGED << toServer, ctrl, srv, ending, connected, capturing, stranded, run, upc >>
      BY <2>5, Zenon
    <4>2. QED BY <4>1, StillAwaited, StaysLive
  <2>6. QED BY <2>1, <2>2, <2>3, <2>4, <2>5 DEF Next
<1>3. QED BY <1>1, <1>2, FlagsCorrect, DataCorrect, PTL DEF Spec

\* run_active_ outlives what it waits for in the three cases of RunIsLive only,
\* with any server, network and user.
THEOREM RunStaysLive == Spec => []RunIsLive
<1>1. RunInv => RunIsLive
  BY DEF RunInv, RunIsLive
<1>2. QED BY <1>1, RunInvCorrect, PTL

-----------------------------------------------------------------------------
(* The recording.                                                          *)

\* The samples of recording s are among those of d.
Within(s, a, d) ==
    Records(s, a) /\ \A i \in DOMAIN s : IsSample(s[i]) => s[i] \in d

\* Recording s has come to sample k; if it is not full, it has that.
Reaches(s, k) ==
    /\ \A i \in DOMAIN s : IsSample(s[i]) => s[i].n <= k
    /\ Len(s) < RecordCap /\ k > 0 =>
           \E i \in DOMAIN s : IsSample(s[i]) /\ s[i].n = k

\* A swap is never pending when the connection may break: Repeat on a
\* connection that breaks can publish a torso with the recording of another.
Unbroken == "lose" \in Acts \/ "disconnect" \in Acts => ~swapPending

\* Which buffer and which recording the stream goes to.
Filling ==
    /\ rpc \in Closing => srv.state # "streaming"
    /\ swapPending => \/ srv.state = "streaming" /\ ~metaPending
                      \/ rpc \in {"anns", "meta", "record", "swap"}
    /\ srv.state = "streaming" /\ ~metaPending /\ ~swapPending =>
           fill = live /\ ~rec.active

\* What is recorded in the side buffer: the acquisition announced, and the one
\* that fills the hidden buffer.
Aside ==
    /\ rec.active => rec.pending # << >>
    /\ srv.state = "streaming" /\ metaPending =>
           Within(rec.pending, acq, {hand}) /\ Reaches(rec.pending, srv.data)
    /\ swapPending /\ ~metaPending =>
           Within(rec.pending, fillMeta, buf[fill].samples \cup {hand})
    /\ swapPending /\ ~metaPending /\ srv.state = "streaming" =>
           Reaches(rec.pending, srv.data)
    /\ rpc = "swapRecord" => Within(rec.pending, fillMeta, buf[fill].samples)

\* What Save writes: the acquisition on the screen, or about to be.
Kept ==
    rec.kept # << >> =>
      /\ Records(rec.kept, rec.kept[1].of)
      /\ Phase = "whole" \/ rpc = "first" => Within(rec.kept, meta, Shown \cup {hand})
      /\ rpc \in {"swapMarker", "swapLive"} =>
             Within(rec.kept, fillMeta, buf[fill].samples)
      /\ srv.state = "streaming" /\ ~metaPending /\ ~swapPending =>
             Reaches(rec.kept, srv.data)

LEMMA UnbrokenCorrect ==
  ASSUME "repeat" \notin Acts \/ ("lose" \notin Acts /\ "disconnect" \notin Acts)
  PROVE  Spec => []Unbroken
<1>1. CASE "repeat" \notin Acts
  <2>1. OneBuffer => Unbroken
    BY Zenon DEF OneBuffer, Unbroken
  <2>2. QED BY <1>1, <2>1, OneBufferCorrect, PTL
<1>2. CASE "lose" \notin Acts /\ "disconnect" \notin Acts
  <2>1. TRUE => Unbroken
    BY <1>2 DEF Unbroken
  <2>2. QED BY <2>1, PTL
<1>3. QED BY <1>1, <1>2

\* Where record_frame puts a frame.
LEMMA RecordedWhere ==
  ASSUME RecOK, NEW f \in AnyFrame
  PROVE  /\ f.type = "meta" =>
                /\ Recorded(f).pending = << f >> /\ Recorded(f).kept = rec.kept
                /\ Recorded(f).active
         /\ f.type # "meta" /\ rec.active =>
                /\ Recorded(f).pending = Extended(rec.pending, f)
                /\ Recorded(f).kept = rec.kept /\ Recorded(f).active
         /\ f.type # "meta" /\ ~rec.active =>
                /\ Recorded(f).pending = rec.pending /\ ~Recorded(f).active
                /\ Recorded(f).kept = IF rec.kept = << >> THEN << >>
                                      ELSE Extended(rec.kept, f)
<1> USE DEF RecOK, Recordings
<1>1. CASE f.type = "meta"
  BY <1>1 DEF Recorded
<1>2. CASE f.type # "meta" /\ rec.active
  <2> DEFINE t == rec.truncated \/ Len(rec.pending) >= RecordCap
             pending == Extended(rec.pending, f)
  <2>1. Recorded(f) = [rec EXCEPT !.pending = pending, !.truncated = t]
    BY <1>2, Zenon DEF Recorded
  <2> HIDE DEF t, pending
  <2>2. QED BY <1>2, <2>1 DEF pending
<1>3. CASE f.type # "meta" /\ ~rec.active
  <2>1. CASE rec.kept = << >>
    <3>1. Recorded(f) = rec
      BY <1>3, <2>1, Zenon DEF Recorded
    <3>2. QED BY <1>3, <2>1, <3>1
  <2>2. CASE rec.kept # << >>
    <3> DEFINE t == rec.truncated \/ Len(rec.kept) >= RecordCap
               kept == Extended(rec.kept, f)
    <3>1. Recorded(f) = [rec EXCEPT !.kept = kept, !.truncated = t]
      BY <1>3, <2>2, Zenon DEF Recorded
    <3> HIDE DEF t, kept
    <3>2. QED BY <1>3, <2>2, <3>1 DEF kept
  <2>3. QED BY <2>1, <2>2
<1>4. QED BY <1>1, <1>2, <1>3

LEMMA SampleIsAny == \A f \in SampleFrames : f \in AnyFrame /\ IsSample(f) /\ f.type # "meta"
<1>1. 1 .. MaxAcq \subseteq Nat /\ 1 .. MaxFrames \subseteq Nat
  OBVIOUS
<1>2. QED BY <1>1 DEF SampleFrames, AnyFrame, FrameTypes, IsSample

\* A recording that has begun.
LEMMA WithinFresh ==
  ASSUME NEW a \in Nat, NEW d
  PROVE  Within(<< Frame("meta", a, 0) >>, a, d) /\ Reaches(<< Frame("meta", a, 0) >>, 0)
<1> DEFINE s == << Frame("meta", a, 0) >>
<1>1. DOMAIN s = {1} /\ s[1] = Frame("meta", a, 0) /\ ~IsSample(s[1])
  BY DEF Frame, IsSample
<1> HIDE DEF s
<1>2. Within(s, a, d) /\ Reaches(s, 0)
  BY <1>1 DEF Within, Reaches, Records
<1>3. QED BY <1>2 DEF s

\* Of the set it is within only the samples matter.
LEMMA WithinMore ==
  ASSUME NEW s, NEW a, NEW d, NEW e, Within(s, a, d), \A f \in d : IsSample(f) => f \in e
  PROVE  Within(s, a, e)
  BY DEF Within

\* s with f, frame by frame.
LEMMA ExtendedAt ==
  ASSUME NEW s \in Seq(AnyFrame), NEW f \in AnyFrame, s # << >>
  PROVE  /\ Extended(s, f) # << >> /\ Extended(s, f) \in Seq(AnyFrame)
         /\ Len(s) \in Nat \ {0} /\ DOMAIN s = 1 .. Len(s)
         /\ \A i \in 1 .. Len(s) : i \in DOMAIN Extended(s, f) /\ Extended(s, f)[i] = s[i]
         /\ \/ /\ Len(s) >= RecordCap /\ Extended(s, f) = s
            \/ /\ Len(s) < RecordCap /\ Len(Extended(s, f)) = Len(s) + 1
               /\ DOMAIN Extended(s, f) = 1 .. Len(s) + 1
               /\ Extended(s, f)[Len(s) + 1] = f
<1>1. CASE Len(s) < RecordCap
  BY <1>1 DEF Extended
<1>2. CASE ~(Len(s) < RecordCap)
  <2>1. Extended(s, f) = s
    BY <1>2 DEF Extended
  <2>2. QED BY <1>2, <2>1, BoundsAssumption
<1>3. QED BY <1>1, <1>2

\* Recording anything but a sample leaves the samples in place.
LEMMA WithinOther ==
  ASSUME NEW s \in Seq(AnyFrame), s # << >>, NEW f \in AnyFrame, ~IsSample(f),
         NEW a, NEW d, NEW k \in Nat
  PROVE  /\ Records(s, a) => Records(Extended(s, f), a)
         /\ Within(s, a, d) => Within(Extended(s, f), a, d)
         /\ Reaches(s, k) => Reaches(Extended(s, f), k)
         /\ Extended(s, f)[1] = s[1]
<1> DEFINE e == Extended(s, f)
<1>1. /\ e # << >> /\ Len(s) \in Nat \ {0} /\ DOMAIN s = 1 .. Len(s)
      /\ \A i \in 1 .. Len(s) : i \in DOMAIN e /\ e[i] = s[i]
      /\ \/ Len(s) >= RecordCap /\ e = s
         \/ /\ Len(s) < RecordCap /\ Len(e) = Len(s) + 1
            /\ DOMAIN e = 1 .. Len(s) + 1 /\ e[Len(s) + 1] = f
  BY ExtendedAt
<1> HIDE DEF e
<1>2. e[1] = s[1]
  BY <1>1
<1>3. CASE e = s
  BY <1>3 DEF e
<1>4. CASE /\ Len(s) < RecordCap /\ Len(e) = Len(s) + 1
           /\ DOMAIN e = 1 .. Len(s) + 1 /\ e[Len(s) + 1] = f
  <2>1. ASSUME NEW i \in DOMAIN e, IsSample(e[i])
        PROVE  i \in DOMAIN s /\ e[i] = s[i] /\ \A j \in 1 .. i - 1 : e[j] = s[j]
    <3>1. i \in 1 .. Len(s)
      BY <1>1, <1>4, <2>1
    <3>2. QED BY <1>1, <3>1
  <2>2. Records(s, a) => Records(e, a)
    <3> SUFFICES ASSUME Records(s, a) PROVE Records(e, a)
      OBVIOUS
    <3>1. e[1] = Frame("meta", a, 0)
      BY <1>2 DEF Records
    <3>2. ASSUME NEW i \in DOMAIN e, IsSample(e[i])
          PROVE  /\ e[i].of = a
                 /\ e[i].n > 1 =>
                      \E j \in 1 .. i - 1 : IsSample(e[j]) /\ e[j].n = e[i].n - 1
                 /\ \A j \in 1 .. i - 1 : IsSample(e[j]) => e[j].n < e[i].n
      BY <2>1, <3>2 DEF Records
    <3>3. QED BY <3>1, <3>2 DEF Records
  <2>3. Within(s, a, d) => Within(e, a, d)
    BY <2>1, <2>2 DEF Within
  <2>4. Reaches(s, k) => Reaches(e, k)
    <3> SUFFICES ASSUME Reaches(s, k) PROVE Reaches(e, k)
      OBVIOUS
    <3>1. \A i \in DOMAIN e : IsSample(e[i]) => e[i].n <= k
      BY <2>1 DEF Reaches
    <3>2. k > 0 => \E i \in DOMAIN s : IsSample(s[i]) /\ s[i].n = k
      BY <1>4 DEF Reaches
    <3>3. k > 0 => \E i \in DOMAIN e : IsSample(e[i]) /\ e[i].n = k
      BY <1>1, <3>2
    <3>4. QED BY <3>1, <3>3 DEF Reaches
  <2>5. QED BY <1>2, <2>2, <2>3, <2>4 DEF e
<1>5. QED BY <1>1, <1>3, <1>4

\* The next sample of the acquisition is recorded.
LEMMA WithinSample ==
  ASSUME NEW s \in Seq(AnyFrame), s # << >>, NEW d, NEW a, NEW k \in Nat,
         NEW f \in SampleFrames, f.of = a, f.n = k + 1, Within(s, a, d), Reaches(s, k)
  PROVE  /\ Within(Extended(s, f), a, d \cup {f})
         /\ Reaches(Extended(s, f), k + 1)
         /\ Extended(s, f)[1] = s[1]
<1> DEFINE e == Extended(s, f)
<1>1. /\ e # << >> /\ Len(s) \in Nat \ {0} /\ DOMAIN s = 1 .. Len(s)
      /\ \A i \in 1 .. Len(s) : i \in DOMAIN e /\ e[i] = s[i]
      /\ \/ Len(s) >= RecordCap /\ e = s
         \/ /\ Len(s) < RecordCap /\ Len(e) = Len(s) + 1
            /\ DOMAIN e = 1 .. Len(s) + 1 /\ e[Len(s) + 1] = f
      /\ IsSample(f)
  BY ExtendedAt, SampleIsAny
<1> HIDE DEF e
<1>2. e[1] = s[1] /\ e[1] = Frame("meta", a, 0)
  BY <1>1 DEF Within, Records
<1>3. \A i \in DOMAIN s : IsSample(s[i]) => s[i].n \in Nat /\ s[i].n <= k /\ s[i] \in d
  <2>1. \A i \in DOMAIN s : s[i] \in AnyFrame
    OBVIOUS
  <2>2. QED BY <2>1 DEF Reaches, Within, AnyFrame
<1>4. CASE e = s /\ Len(s) >= RecordCap
  <2>1. Within(e, a, d \cup {f})
    BY <1>4 DEF Within
  <2>2. ~(Len(e) < RecordCap)
    <3>1. Len(e) = Len(s)
      BY <1>4
    <3>2. Len(s) \in Nat /\ RecordCap \in Nat /\ Len(s) >= RecordCap
      BY <1>1, <1>4, BoundsAssumption
    <3>3. QED BY <3>1, <3>2
  <2>3. Reaches(e, k + 1)
    <3>1. \A i \in DOMAIN e : IsSample(e[i]) => e[i].n <= k + 1
      BY <1>3, <1>4
    <3>2. QED BY <2>2, <3>1 DEF Reaches
  <2>4. QED BY <1>2, <2>1, <2>3 DEF e
<1>5. CASE /\ Len(s) < RecordCap /\ Len(e) = Len(s) + 1
           /\ DOMAIN e = 1 .. Len(s) + 1 /\ e[Len(s) + 1] = f
  <2>1. ASSUME NEW i \in DOMAIN e, IsSample(e[i])
        PROVE  /\ e[i].of = a /\ e[i] \in d \cup {f} /\ e[i].n <= k + 1
               /\ e[i].n > 1 =>
                    \E j \in 1 .. i - 1 : IsSample(e[j]) /\ e[j].n = e[i].n - 1
               /\ \A j \in 1 .. i - 1 : IsSample(e[j]) => e[j].n < e[i].n
    <3>1. CASE i \in 1 .. Len(s)
      <4>1. e[i] = s[i] /\ \A j \in 1 .. i - 1 : e[j] = s[j]
        BY <1>1, <3>1
      <4>2. /\ s[i].of = a
            /\ s[i].n > 1 =>
                 \E j \in 1 .. i - 1 : IsSample(s[j]) /\ s[j].n = s[i].n - 1
            /\ \A j \in 1 .. i - 1 : IsSample(s[j]) => s[j].n < s[i].n
        BY <1>1, <2>1, <3>1, <4>1 DEF Within, Records
      <4>3. s[i].n <= k + 1 /\ s[i] \in d
        BY <1>1, <1>3, <2>1, <3>1, <4>1
      <4>4. QED BY <4>1, <4>2, <4>3
    <3>2. CASE i = Len(s) + 1
      <4>1. e[i] = f /\ \A j \in 1 .. i - 1 : j \in DOMAIN s /\ e[j] = s[j]
        BY <1>1, <1>5, <3>2
      <4>2. f.n > 1 => \E j \in 1 .. i - 1 : IsSample(e[j]) /\ e[j].n = f.n - 1
        <5> SUFFICES ASSUME f.n > 1
                     PROVE  \E j \in 1 .. i - 1 : IsSample(e[j]) /\ e[j].n = f.n - 1
          OBVIOUS
        <5>1. k > 0 /\ f.n - 1 = k
          OBVIOUS
        <5>2. PICK j \in DOMAIN s : IsSample(s[j]) /\ s[j].n = k
          BY <1>5, <5>1 DEF Reaches
        <5>3. j \in 1 .. i - 1 /\ e[j] = s[j]
          BY <1>1, <3>2
        <5>4. QED BY <5>1, <5>2, <5>3
      <4>3. \A j \in 1 .. i - 1 : IsSample(e[j]) => e[j].n < f.n
        BY <1>3, <4>1
      <4>4. QED BY <4>1, <4>2, <4>3
    <3>3. QED BY <1>1, <1>5, <3>1, <3>2
  <2>2. Within(e, a, d \cup {f})
    BY <1>2, <2>1 DEF Within, Records
  <2>3. Len(s) + 1 \in DOMAIN e /\ IsSample(e[Len(s) + 1]) /\ e[Len(s) + 1].n = k + 1
    BY <1>1, <1>5
  <2>4. Reaches(e, k + 1)
    BY <2>1, <2>3 DEF Reaches
  <2>5. QED BY <1>2, <2>2, <2>4 DEF e
<1>6. QED BY <1>1, <1>4, <1>5

\* The same, as a step sees it.
LEMMA SampleRecorded ==
  ASSUME NEW s \in Seq(AnyFrame), s # << >>, NEW a, NEW d, NEW k \in Nat,
         NEW f \in SampleFrames, f.of = a, f.n = k + 1, Within(s, a, d), Reaches(s, k),
         NEW t, t = Extended(s, f), NEW m, m = k + 1,
         NEW e, f \in e, \A x \in d : IsSample(x) => x \in e
  PROVE  Within(t, a, e) /\ Reaches(t, m)
<1>1. Within(t, a, d \cup {f}) /\ Reaches(t, m)
  BY WithinSample
<1>2. \A x \in d \cup {f} : IsSample(x) => x \in e
  OBVIOUS
<1>3. QED BY <1>1, <1>2, WithinMore
LEMMA FillingCorrect ==
  ASSUME "repeat" \notin Acts \/ ("lose" \notin Acts /\ "disconnect" \notin Acts)
  PROVE  Spec => []Filling
<1> USE DEF Closing, Swapping
<1>1. Init => Filling
  BY DEF Init, Filling, NoCapture

<1>2. /\ DataOK /\ RecOK /\ HandInv /\ ScreenInv /\ Unbroken /\ Filling /\ [Next]_vars
      => Filling'
  <2> SUFFICES ASSUME DataOK, RecOK, HandInv, ScreenInv, Unbroken, Filling, [Next]_vars
               PROVE  Filling'
    OBVIOUS
  <2>1. CASE Quiet
    <3>1. UNCHANGED << metaPending, live, fill, swapPending, rpc, rec >> /\ StreamStays
      BY <2>1, QuietSteps DEF Work, pend, screen
    <3>2. srv'.state = "streaming" => srv.state = "streaming"
      BY <3>1 DEF StreamStays
    <3>3. swapPending /\ srv.state = "streaming" => srv'.state = "streaming"
      BY <3>1 DEF StreamStays, Unbroken
    <3>4. QED BY <3>1, <3>2, <3>3 DEF Filling
  <2>2. CASE Remark
    <3>1. /\ UNCHANGED << metaPending, live, fill, swapPending, rpc >> /\ Noted
          /\ srv'.state = srv.state
      BY <2>2, RemarkSteps DEF Work, pend, screen
    <3>2. rec'.active <=> rec.active
      BY <3>1, RecordedWhere DEF Noted
    <3>3. QED BY <3>1, <3>2 DEF Filling
  <2>3. CASE RecvMeta
    <3>1. /\ rpc = "recv" /\ rpc' = rpc /\ srv.state = "armed" /\ metaPending'
          /\ swapPending' = swapPending
      BY <2>3 DEF RecvMeta, rx, Receiving
    <3>2. QED BY <3>1 DEF Filling
  <2>4. ASSUME NEW kind \in Kinds, RecvData(kind) PROVE Filling'
    <3>1. /\ rpc = "recv" /\ rpc' \in {"reset", "append"} /\ srv.state = "streaming"
          /\ UNCHANGED << metaPending, live, fill, swapPending >>
      BY <2>4 DEF RecvData, pend, screen, Receiving
    <3>2. /\ srv'.state = "streaming" /\ hand' \in AnyFrame /\ hand'.type # "meta"
          /\ rec' = Recorded(hand')
      BY <2>4, DataFrame
    <3>3. ~rec.active => ~rec'.active
      BY <3>2, RecordedWhere
    <3>4. QED BY <3>1, <3>2, <3>3 DEF Filling
  <2>5. CASE CommitReset
    <3>1. rpc' = "anns" /\ metaPending' /\ srv' = srv
      BY <2>5 DEF CommitReset, Step, server, HandInv, Committing
    <3>2. QED BY <3>1 DEF Filling
  <2>6. CASE CommitAnns
    BY <2>6 DEF CommitAnns, Step, server, screen, Filling
  <2>7. CASE CommitMeta
    BY <2>7 DEF CommitMeta, Step, server, Filling
  <2>8. CASE CommitRecord
    <3>1. /\ rpc = "record" /\ rpc' = "first" /\ UNCHANGED << live, fill, swapPending, srv >>
          /\ ~metaPending' /\ ~swapPending => rec' = Committed(rec)
      BY <2>8 DEF CommitRecord, Step, server
    <3>2. srv.state = "streaming" /\ (swapPending <=> fill # live)
      BY <3>1 DEF HandInv, Handling, Committing, ScreenInv
    <3>3. ~metaPending' /\ ~swapPending => fill = live /\ ~rec'.active
      BY <3>1, <3>2 DEF Committed
    <3>4. QED BY <3>1, <3>2, <3>3, <2>8 DEF Filling, CommitRecord
  <2>9. CASE AppendData
    <3>1. /\ rpc \in {"first", "append"} /\ rpc' = "recv"
          /\ UNCHANGED << metaPending, live, fill, swapPending, srv, rec >>
      BY <2>9 DEF AppendData, Step, server, screen
    <3>2. QED BY <3>1 DEF Filling
  <2>10. CASE RecvEnd
    BY <2>10 DEF RecvEnd, NoCapture, Filling
  <2>11. CASE SwapBegin
    <3>1. rpc = "swap" /\ rpc' \in Closing /\ ~swapPending' /\ srv' = srv
      BY <2>11 DEF SwapBegin, Step, server
    <3>2. QED BY <3>1 DEF Filling
  <2>12. CASE SwapRecord \/ SwapMarker \/ SwapLive
    <3>1. /\ rpc \in Swapping /\ rpc' \in Closing
          /\ UNCHANGED << srv, swapPending, fill >>
      BY <2>12 DEF SwapRecord, SwapMarker, SwapLive, Step, server
    <3>2. ~swapPending
      BY <3>1, Numbers DEF ScreenInv
    <3>3. QED BY <3>1, <3>2 DEF Filling
  <2>13. CASE Tell
    <3>1. rpc = "tell" /\ rpc' = "recv" /\ UNCHANGED << srv, swapPending >>
      BY <2>13 DEF Tell, Step, server
    <3>2. QED BY <3>1 DEF Filling
  <2>14. QED BY <2>1, <2>2, <2>3, <2>4, <2>5, <2>6, <2>7, <2>8, <2>9, <2>10, <2>11, <2>12,
                <2>13, StepCases
<1>3. QED
  BY <1>1, <1>2, DataCorrect, RecordCorrect, HandCorrect, ScreenCorrect, UnbrokenCorrect, PTL
     DEF Spec

\* A remark in the side buffer, and one in the recording.
LEMMA AsideNoted ==
  ASSUME RecOK, rec.active, rec.pending # << >>, Noted
  PROVE  /\ rec'.active /\ rec'.pending # << >> /\ rec'.kept = rec.kept
         /\ \A a, d : Within(rec.pending, a, d) => Within(rec'.pending, a, d)
         /\ \A k \in Nat : Reaches(rec.pending, k) => Reaches(rec'.pending, k)
<1>1. PICK f \in AnyFrame : ~IsSample(f) /\ f.type # "meta" /\ rec' = Recorded(f)
  BY DEF Noted
<1>2. rec.pending \in Seq(AnyFrame)
  BY DEF RecOK, Recordings
<1>3. /\ rec'.active /\ rec'.pending = Extended(rec.pending, f) /\ rec'.kept = rec.kept
  BY <1>1, RecordedWhere
<1>4. rec'.pending # << >>
  BY <1>1, <1>2, <1>3, ExtendedAt
<1>5. ASSUME NEW a, NEW d, Within(rec.pending, a, d) PROVE Within(rec'.pending, a, d)
  <2>1. 0 \in Nat
    OBVIOUS
  <2>2. QED BY <1>1, <1>2, <1>3, <1>5, <2>1, WithinOther
<1>6. ASSUME NEW k \in Nat, Reaches(rec.pending, k) PROVE Reaches(rec'.pending, k)
  BY <1>1, <1>2, <1>3, <1>6, WithinOther
<1>7. QED BY <1>3, <1>4, <1>5, <1>6

LEMMA KeptNoted ==
  ASSUME RecOK, ~rec.active, Noted
  PROVE  /\ ~rec'.active /\ rec'.pending = rec.pending
         /\ rec'.kept # << >> =>
              /\ rec.kept # << >> /\ rec'.kept[1] = rec.kept[1]
              /\ \A a : Records(rec.kept, a) => Records(rec'.kept, a)
              /\ \A a, d : Within(rec.kept, a, d) => Within(rec'.kept, a, d)
              /\ \A k \in Nat : Reaches(rec.kept, k) => Reaches(rec'.kept, k)
<1>1. PICK f \in AnyFrame : ~IsSample(f) /\ f.type # "meta" /\ rec' = Recorded(f)
  BY DEF Noted
<1>2. rec.kept \in Seq(AnyFrame) /\ 0 \in Nat
  BY DEF RecOK, Recordings
<1>3. /\ ~rec'.active /\ rec'.pending = rec.pending
      /\ rec'.kept = IF rec.kept = << >> THEN << >> ELSE Extended(rec.kept, f)
  BY <1>1, RecordedWhere
<1>4. CASE rec.kept # << >>
  <2>1. rec'.kept = Extended(rec.kept, f)
    BY <1>3, <1>4
  <2>2. rec'.kept[1] = rec.kept[1]
    BY <1>1, <1>2, <1>4, <2>1, WithinOther
  <2>3. ASSUME NEW a, Records(rec.kept, a) PROVE Records(rec'.kept, a)
    BY <1>1, <1>2, <1>4, <2>1, <2>3, WithinOther
  <2>4. ASSUME NEW a, NEW d, Within(rec.kept, a, d) PROVE Within(rec'.kept, a, d)
    BY <1>1, <1>2, <1>4, <2>1, <2>4, WithinOther
  <2>5. ASSUME NEW k \in Nat, Reaches(rec.kept, k) PROVE Reaches(rec'.kept, k)
    BY <1>1, <1>2, <1>4, <2>1, <2>5, WithinOther
  <2>6. QED BY <1>3, <1>4, <2>2, <2>3, <2>4, <2>5
<1>5. QED BY <1>3, <1>4

\* A recording begins with its metadata.
LEMMA WithinRecords ==
  ASSUME NEW s, NEW a, NEW d, Within(s, a, d)
  PROVE  Records(s, s[1].of)
<1>1. s[1].of = a
  BY DEF Within, Records, Frame
<1>2. QED BY <1>1 DEF Within

LEMMA AsideCorrect ==
  ASSUME "repeat" \notin Acts \/ ("lose" \notin Acts /\ "disconnect" \notin Acts)
  PROVE  Spec => []Aside
<1> DEFINE Known == /\ DataOK /\ RecOK /\ HandInv /\ ScreenInv /\ SideBufferOpen
                    /\ Streams /\ Filling
<1>1. Init => Aside
  BY DEF Init, Aside, NoCapture

<1>2. Known /\ Aside /\ [Next]_vars => Aside'
  <2> SUFFICES ASSUME Known, Aside, [Next]_vars PROVE Aside'
    OBVIOUS
  <2>0. DataOK /\ RecOK /\ HandInv /\ ScreenInv /\ SideBufferOpen /\ Streams /\ Filling
    OBVIOUS
  <2>n. ~IsSample(NoFrame)
    BY DEF IsSample, NoFrame
  <2>d. srv.data \in Nat /\ acq \in Nat
    BY <2>0, Numbers, BoundsAssumption DEF DataOK, Servings
  <2>1. CASE Quiet
    <3>1. /\ UNCHANGED << metaPending, swapPending, fillMeta, acq, hand, fill, rpc, rec >>
          /\ SamplesStay /\ StreamStays
      BY <2>0, <2>1, QuietSteps DEF Work, pend
    <3>2. buf'[fill].samples = buf[fill].samples
      BY <2>0, <3>1, Numbers DEF SamplesStay
    <3>3. srv'.state = "streaming" => srv' = srv
      BY <3>1 DEF StreamStays
    <3>4. QED BY <3>1, <3>2, <3>3, Zenon DEF Aside
  <2>2. CASE Remark
    <3>1. /\ UNCHANGED << metaPending, swapPending, fillMeta, acq, hand, fill, rpc >>
          /\ SamplesStay /\ Noted /\ rpc = "recv"
          /\ srv'.state = srv.state /\ srv'.data = srv.data
      BY <2>0, <2>2, RemarkSteps DEF Work, pend
    <3>2. buf'[fill].samples = buf[fill].samples
      BY <2>0, <3>1, Numbers DEF SamplesStay
    <3>3. CASE rec.active
      <4>1. rec.pending # << >>
        BY <3>3 DEF Aside
      <4>2. /\ rec'.active /\ rec'.pending # << >>
            /\ \A a, d : Within(rec.pending, a, d) => Within(rec'.pending, a, d)
            /\ \A k \in Nat : Reaches(rec.pending, k) => Reaches(rec'.pending, k)
        BY <2>0, <3>1, <3>3, <4>1, AsideNoted
      <4>3. QED BY <2>d, <3>1, <3>2, <4>2 DEF Aside
    <3>4. CASE ~rec.active
      <4>1. ~rec'.active /\ ~metaPending /\ ~swapPending
        BY <2>0, <3>1, <3>4, KeptNoted DEF SideBufferOpen
      <4>2. QED BY <3>1, <4>1 DEF Aside
    <3>5. QED BY <3>3, <3>4
  <2>3. CASE RecvMeta
    <3>1. /\ rec' = Recorded(Frame("meta", acq', 0)) /\ metaPending' /\ rpc' = "recv"
          /\ srv'.data = 0 /\ acq' \in Nat
      BY <2>0, <2>3, <2>d DEF RecvMeta, rx, Receiving, Streams, DataOK, Servings
    <3>2. rec'.pending = << Frame("meta", acq', 0) >>
      BY <2>0, <2>3, <3>1, MetaFrame, RecordedWhere
    <3>3. Within(rec'.pending, acq', {hand'}) /\ Reaches(rec'.pending, 0)
      BY <3>1, <3>2, WithinFresh
    <3>4. rec'.pending # << >>
      BY <3>2
    <3>5. QED BY <3>1, <3>3, <3>4 DEF Aside
  <2>4. ASSUME NEW kind \in Kinds, RecvData(kind) PROVE Aside'
    <3>1. /\ rpc = "recv" /\ rpc' \in {"reset", "append"} /\ srv.state = "streaming"
          /\ UNCHANGED << metaPending, swapPending, fillMeta, acq, fill, buf >>
      BY <2>4 DEF RecvData, pend, Receiving
    <3>2. /\ hand' \in SampleFrames /\ hand'.of = acq /\ hand'.n = srv.data + 1
          /\ hand' \in AnyFrame /\ hand'.type # "meta"
          /\ rec' = Recorded(hand') /\ srv'.data = srv.data + 1
      BY <2>0, <2>4, DataFrame
    <3>3. hand = NoFrame
      BY <2>0, <3>1 DEF HandInv, Handling, Committing
    <3>4. CASE rec.active
      <4>1. /\ rec'.active /\ rec'.pending = Extended(rec.pending, hand')
            /\ rec.pending # << >> /\ rec.pending \in Seq(AnyFrame)
        BY <2>0, <3>2, <3>4, RecordedWhere DEF Aside, RecOK, Recordings
      <4>2. rec'.pending # << >>
        BY <3>2, <4>1, ExtendedAt
      <4>3. ASSUME metaPending
            PROVE  Within(rec'.pending, acq, {hand'}) /\ Reaches(rec'.pending, srv'.data)
        <5> DEFINE d == {hand}
                   e == {hand'}
        <5>1. Within(rec.pending, acq, d) /\ Reaches(rec.pending, srv.data)
          BY <3>1, <4>3 DEF Aside
        <5>2. hand' \in e /\ \A f \in d : IsSample(f) => f \in e
          BY <2>n, <3>3
        <5> HIDE DEF d, e
        <5>3. Within(rec'.pending, acq, e) /\ Reaches(rec'.pending, srv'.data)
          BY <2>d, <3>2, <4>1, <5>1, <5>2, SampleRecorded
        <5>4. QED BY <5>3 DEF e
      <4>4. ASSUME ~metaPending, swapPending
            PROVE  /\ Within(rec'.pending, fillMeta, buf[fill].samples \cup {hand'})
                   /\ Reaches(rec'.pending, srv'.data)
        <5> DEFINE d == buf[fill].samples \cup {hand}
                   e == buf[fill].samples \cup {hand'}
        <5>1. Within(rec.pending, acq, d) /\ Reaches(rec.pending, srv.data) /\ fillMeta = acq
          BY <2>0, <3>1, <4>4 DEF Aside, ScreenInv
        <5>2. hand' \in e /\ \A f \in d : IsSample(f) => f \in e
          BY <2>n, <3>3
        <5> HIDE DEF d, e
        <5>3. Within(rec'.pending, acq, e) /\ Reaches(rec'.pending, srv'.data)
          BY <2>d, <3>2, <4>1, <5>1, <5>2, SampleRecorded
        <5>4. QED BY <5>1, <5>3 DEF e
      <4>5. QED BY <3>1, <4>1, <4>2, <4>3, <4>4 DEF Aside
    <3>5. CASE ~rec.active
      <4>1. ~rec'.active /\ ~metaPending /\ ~swapPending
        BY <2>0, <3>2, <3>5, RecordedWhere DEF SideBufferOpen
      <4>2. QED BY <3>1, <4>1 DEF Aside
    <3>6. QED BY <3>4, <3>5
  <2>5. CASE CommitReset \/ CommitAnns \/ CommitMeta
    <3>1. /\ metaPending /\ rpc' # "swapRecord"
          /\ UNCHANGED << metaPending, acq, hand, rec, srv >>
      BY <2>0, <2>5 DEF CommitReset, CommitAnns, CommitMeta, Step, server, HandInv, Committing
    <3>2. QED BY <3>1 DEF Aside
  <2>6. CASE CommitRecord
    <3>1. /\ rpc = "record" /\ rpc' = "first" /\ ~metaPending'
          /\ UNCHANGED << swapPending, fillMeta, fill, buf, hand, srv, acq >>
          /\ rec' = IF swapPending THEN rec ELSE Committed(rec)
      BY <2>6 DEF CommitRecord, Step, server
    <3>2. CASE swapPending
      <4>1. /\ Within(rec.pending, acq, {hand}) /\ Reaches(rec.pending, srv.data)
            /\ fillMeta = acq
        BY <2>0, <3>1 DEF Aside, HandInv, Handling, Committing, ScreenInv
      <4>2. Within(rec.pending, fillMeta, buf[fill].samples \cup {hand})
        BY <4>1, WithinMore
      <4>3. QED BY <3>1, <3>2, <4>1, <4>2 DEF Aside
    <3>3. CASE ~swapPending
      BY <3>1, <3>3 DEF Aside, Committed
    <3>4. QED BY <3>2, <3>3
  <2>7. CASE AppendData
    <3>1. /\ rpc \in {"first", "append"} /\ rpc' = "recv"
          /\ UNCHANGED << metaPending, swapPending, fillMeta, fill, srv, acq, rec >>
          /\ buf'[fill].samples = buf[fill].samples \cup {hand}
      BY <2>0, <2>7, AppendDoes DEF AppendData, Step, server
    <3>2. ~metaPending
      BY <2>0, <3>1 DEF HandInv, Committing
    <3>3. Within(rec.pending, fillMeta, buf[fill].samples \cup {hand}) =>
            Within(rec.pending, fillMeta, buf'[fill].samples \cup {hand'})
      BY <3>1, WithinMore
    <3>4. QED BY <3>1, <3>2, <3>3 DEF Aside
  <2>8. CASE RecvEnd
    <3>1. /\ Noted /\ ~metaPending' /\ srv'.state # "streaming" /\ rpc = "recv" /\ rpc' = "swap"
          /\ UNCHANGED << swapPending, fillMeta, fill, buf, hand >>
      BY <2>0, <2>8, NoteFrames DEF RecvEnd, Noted, DataOK, NoCapture, Receiving
    <3>2. CASE rec.active
      <4>1. rec.pending # << >>
        BY <3>2 DEF Aside
      <4>2. /\ rec'.active /\ rec'.pending # << >>
            /\ \A a, d : Within(rec.pending, a, d) => Within(rec'.pending, a, d)
        BY <2>0, <3>1, <3>2, <4>1, AsideNoted
      <4>3. swapPending => ~metaPending
        BY <2>0, <3>1 DEF Filling
      <4>4. QED BY <3>1, <4>2, <4>3 DEF Aside
    <3>3. CASE ~rec.active
      <4>1. ~rec'.active /\ ~swapPending
        BY <2>0, <3>1, <3>3, KeptNoted DEF SideBufferOpen
      <4>2. QED BY <3>1, <4>1 DEF Aside
    <3>4. QED BY <3>2, <3>3
  <2>9. CASE SwapBegin
    <3>1. /\ rpc = "swap" /\ ~swapPending' /\ UNCHANGED << fillMeta, fill, buf, rec, srv >>
          /\ rpc' = "swapRecord" => swapPending
      BY <2>9 DEF SwapBegin, Step, server
    <3>2. ~metaPending /\ hand = NoFrame /\ srv.state # "streaming"
      BY <2>0, <3>1 DEF HandInv, Committing, Handling, Filling, Closing
    <3>3. swapPending => Within(rec.pending, fillMeta, buf[fill].samples)
      BY <2>n, <3>2, WithinMore DEF Aside
    <3>4. QED BY <3>1, <3>2, <3>3 DEF Aside
  <2>10. CASE SwapRecord \/ SwapMarker \/ SwapLive
    <3>1. /\ rpc \in Swapping /\ rpc' # "swapRecord"
          /\ UNCHANGED << srv, swapPending >>
          /\ rec' = rec \/ rec' = Committed(rec)
      BY <2>10 DEF SwapRecord, SwapMarker, SwapLive, Step, server, Swapping
    <3>2. ~swapPending /\ srv.state # "streaming"
      BY <2>0, <3>1, Numbers DEF ScreenInv, Filling, Closing
    <3>3. QED BY <3>1, <3>2 DEF Aside, Committed
  <2>11. CASE Tell
    <3>1. rpc = "tell" /\ rpc' = "recv" /\ UNCHANGED << srv, swapPending, rec >>
      BY <2>11 DEF Tell, Step, server
    <3>2. ~swapPending /\ srv.state # "streaming"
      BY <2>0, <3>1 DEF Filling, Closing
    <3>3. QED BY <3>1, <3>2 DEF Aside
  <2>12. QED BY <2>1, <2>2, <2>3, <2>4, <2>5, <2>6, <2>7, <2>8, <2>9, <2>10, <2>11, StepCases
<1>3. QED
  BY <1>1, <1>2, DataCorrect, RecordCorrect, HandCorrect, ScreenCorrect, SideBuffer,
     StreamsCorrect, FillingCorrect, PTL DEF Spec

\* The recording is of one acquisition at any step: the parts of Kept, for a
\* step that does not touch it.
LEMMA KeptStays ==
  ASSUME Kept, rec'.kept = rec.kept,
         Phase' = "whole" \/ rpc' = "first" =>
             /\ Phase = "whole" \/ rpc = "first"
             /\ meta' = meta
             /\ \A f \in Shown \cup {hand} : IsSample(f) => f \in Shown' \cup {hand'},
         rpc' \in {"swapMarker", "swapLive"} =>
             /\ rpc \in {"swapMarker", "swapLive"}
             /\ fillMeta' = fillMeta /\ buf'[fill'].samples = buf[fill].samples,
         srv'.state = "streaming" /\ ~metaPending' /\ ~swapPending' =>
             /\ srv.state = "streaming" /\ ~metaPending /\ ~swapPending
             /\ srv'.data = srv.data
  PROVE  Kept'
<1> SUFFICES ASSUME rec.kept # << >> PROVE Kept'
  BY DEF Kept
<1>1. Records(rec'.kept, rec'.kept[1].of)
  BY DEF Kept
<1>2. ASSUME Phase' = "whole" \/ rpc' = "first"
      PROVE  Within(rec'.kept, meta', Shown' \cup {hand'})
  <2> DEFINE d == Shown \cup {hand}
             e == Shown' \cup {hand'}
  <2>1. /\ Within(rec.kept, meta, d) /\ meta' = meta
        /\ \A f \in d : IsSample(f) => f \in e
    BY <1>2 DEF Kept
  <2> HIDE DEF d, e
  <2>2. Within(rec.kept, meta, e)
    BY <2>1, WithinMore
  <2>3. QED BY <2>1, <2>2 DEF e
<1>3. rpc' \in {"swapMarker", "swapLive"} =>
          Within(rec'.kept, fillMeta', buf'[fill'].samples)
  BY DEF Kept
<1>4. srv'.state = "streaming" /\ ~metaPending' /\ ~swapPending' =>
          Reaches(rec'.kept, srv'.data)
  BY DEF Kept
<1>5. QED BY <1>1, <1>2, <1>3, <1>4 DEF Kept

LEMMA KeptCorrect ==
  ASSUME "repeat" \notin Acts \/ ("lose" \notin Acts /\ "disconnect" \notin Acts)
  PROVE  Spec => []Kept
<1> DEFINE Known == /\ DataOK /\ RecOK /\ HandInv /\ ScreenInv /\ SideBufferOpen
                    /\ Streams /\ Filling /\ Aside
<1>1. Init => Kept
  BY DEF Init, Kept

<1>2. Known /\ Kept /\ [Next]_vars => Kept'
  <2> SUFFICES ASSUME Known, Kept, [Next]_vars PROVE Kept'
    OBVIOUS
  <2>0. /\ DataOK /\ RecOK /\ HandInv /\ ScreenInv /\ SideBufferOpen /\ Streams /\ Filling
        /\ Aside /\ live \in {0, 1} /\ fill \in {0, 1}
    BY Numbers
  <2>n. ~IsSample(NoFrame)
    BY DEF IsSample, NoFrame
  <2>d. srv.data \in Nat /\ acq \in Nat
    BY <2>0, Numbers, BoundsAssumption DEF DataOK, Servings
  <2>1. CASE Quiet
    <3>1. /\ UNCHANGED << metaPending, live, meta, fill, swapPending, fillMeta, hand, rpc, rec >>
          /\ SamplesStay /\ StreamStays
      BY <2>0, <2>1, QuietSteps DEF Work, pend, screen
    <3>2. Shown' = Shown /\ buf'[fill'].samples = buf[fill].samples /\ Phase' = Phase
      BY <2>0, <3>1 DEF SamplesStay, Shown, Phase
    <3>3. srv'.state = "streaming" => srv' = srv
      BY <3>1 DEF StreamStays
    <3>4. QED BY <3>1, <3>2, <3>3, KeptStays
  <2>2. CASE Remark \/ RecvEnd
    <3>1. /\ UNCHANGED << live, meta, fill, swapPending, fillMeta, hand >>
          /\ SamplesStay /\ Noted /\ rpc = "recv" /\ rpc' \in {"recv", "swap"}
          /\ srv'.state = "streaming" =>
                 /\ srv.state = "streaming" /\ srv'.data = srv.data
                 /\ metaPending' = metaPending
      <4>1. CASE Remark
        BY <2>0, <4>1, RemarkSteps DEF Work, pend, screen
      <4>2. CASE RecvEnd
        BY <2>0, <4>2, NoteFrames
           DEF RecvEnd, Noted, DataOK, NoCapture, Receiving, SamplesStay, screen
      <4>3. QED BY <2>2, <4>1, <4>2
    <3>2. Shown' = Shown /\ Phase' = "whole" /\ Phase = "whole" /\ rpc' # "first"
      BY <2>0, <3>1 DEF SamplesStay, Shown, Phase, Swapping
    <3>3. rpc' \notin {"swapMarker", "swapLive"}
      BY <3>1
    <3>4. CASE rec.active
      <4>1. rec'.kept = rec.kept
        BY <2>0, <3>1, <3>4, AsideNoted DEF Aside
      <4>2. QED BY <3>1, <3>2, <3>3, <4>1, KeptStays
    <3>5. CASE ~rec.active
      <4> SUFFICES ASSUME rec'.kept # << >> PROVE Kept'
        BY DEF Kept
      <4>1. /\ rec.kept # << >> /\ rec'.kept[1] = rec.kept[1]
            /\ \A a : Records(rec.kept, a) => Records(rec'.kept, a)
            /\ \A a, d : Within(rec.kept, a, d) => Within(rec'.kept, a, d)
            /\ \A k \in Nat : Reaches(rec.kept, k) => Reaches(rec'.kept, k)
        BY <2>0, <3>1, <3>5, KeptNoted
      <4>2. Records(rec'.kept, rec'.kept[1].of)
        BY <4>1 DEF Kept
      <4>3. Within(rec'.kept, meta', Shown' \cup {hand'})
        <5> DEFINE d == Shown \cup {hand}
        <5>1. Within(rec.kept, meta, d)
          BY <3>2, <4>1 DEF Kept
        <5> HIDE DEF d
        <5>2. Within(rec'.kept, meta, d)
          BY <4>1, <5>1
        <5>3. meta' = meta /\ Shown' \cup {hand'} = d
          BY <3>1, <3>2 DEF d
        <5>4. QED BY <5>2, <5>3
      <4>4. srv'.state = "streaming" /\ ~metaPending' /\ ~swapPending' =>
              Reaches(rec'.kept, srv'.data)
        BY <2>d, <3>1, <4>1 DEF Kept
      <4>5. QED BY <3>3, <4>2, <4>3, <4>4 DEF Kept
    <3>6. QED BY <3>4, <3>5
  <2>3. CASE RecvMeta
    <3>1. /\ UNCHANGED << live, meta, buf, fill, fillMeta, hand, rpc >> /\ metaPending'
          /\ rec' = Recorded(Frame("meta", acq', 0))
      BY <2>3 DEF RecvMeta, rx
    <3>2. rec'.kept = rec.kept
      BY <2>0, <2>3, <3>1, MetaFrame, RecordedWhere
    <3>3. Shown' = Shown /\ Phase' = Phase
      BY <3>1 DEF Shown, Phase
    <3>4. QED BY <3>1, <3>2, <3>3, KeptStays
  <2>4. ASSUME NEW kind \in Kinds, RecvData(kind) PROVE Kept'
    <3>1. /\ rpc = "recv" /\ rpc' \in {"reset", "append"} /\ srv.state = "streaming"
          /\ UNCHANGED << metaPending, live, meta, swapPending, fillMeta, fill, buf >>
      BY <2>4 DEF RecvData, pend, screen, Receiving
    <3>2. /\ hand' \in SampleFrames /\ hand'.of = acq /\ hand'.n = srv.data + 1
          /\ hand' \in AnyFrame /\ hand'.type # "meta"
          /\ rec' = Recorded(hand') /\ srv'.data = srv.data + 1
      BY <2>0, <2>4, DataFrame
    <3>3. /\ hand = NoFrame /\ Shown' = Shown /\ Phase = "whole"
          /\ rpc' \notin {"swapMarker", "swapLive"}
      BY <2>0, <3>1 DEF HandInv, Handling, Committing, Shown, Phase, Swapping
    <3>4. CASE rec.active
      <4>1. rec'.kept = rec.kept
        BY <2>0, <3>2, <3>4, RecordedWhere
      <4>2. metaPending \/ swapPending
        BY <2>0, <3>1, <3>4 DEF Filling
      <4>3. \A f \in Shown \cup {hand} : IsSample(f) => f \in Shown' \cup {hand'}
        BY <2>n, <3>3
      <4>4. QED BY <3>1, <3>3, <4>1, <4>2, <4>3, KeptStays
    <3>5. CASE ~rec.active
      <4>1. ~metaPending /\ ~swapPending
        BY <2>0, <3>5 DEF SideBufferOpen
      <4>2. meta = acq
        BY <2>0, <3>1, <4>1 DEF Filling, ScreenInv
      <4>3. rec'.kept = IF rec.kept = << >> THEN << >> ELSE Extended(rec.kept, hand')
        BY <2>0, <3>2, <3>5, RecordedWhere
      <4>4. CASE rec.kept = << >>
        BY <4>3, <4>4 DEF Kept
      <4>5. CASE rec.kept # << >>
        <5> DEFINE d == Shown \cup {hand}
                   e == Shown' \cup {hand'}
        <5>1. rec.kept \in Seq(AnyFrame) /\ rec'.kept = Extended(rec.kept, hand')
          BY <2>0, <4>3, <4>5 DEF RecOK, Recordings
        <5>2. Within(rec.kept, acq, d) /\ Reaches(rec.kept, srv.data)
          BY <3>1, <3>3, <4>1, <4>2, <4>5 DEF Kept
        <5>3. hand' \in e /\ \A f \in d : IsSample(f) => f \in e
          BY <2>n, <3>3
        <5> HIDE DEF d, e
        <5>4. Within(rec'.kept, acq, e) /\ Reaches(rec'.kept, srv'.data)
          BY <2>d, <3>2, <4>5, <5>1, <5>2, <5>3, SampleRecorded
        <5>5. Records(rec'.kept, rec'.kept[1].of)
          BY <5>4, WithinRecords
        <5>6. QED BY <3>1, <3>3, <4>2, <5>4, <5>5 DEF Kept, e
      <4>6. QED BY <4>4, <4>5
    <3>6. QED BY <3>4, <3>5
  <2>5. CASE CommitReset
    <3>1. /\ rpc = "reset" /\ rpc' = "anns" /\ metaPending'
          /\ UNCHANGED << live, meta, hand, rec, srv >>
      BY <2>0, <2>5 DEF CommitReset, Step, server, screen, HandInv, Committing
    <3>2. Phase = "whole" /\ (Phase' = "whole" => fill' # live)
      BY <3>1 DEF Phase, Swapping
    <3>3. fill' # live => Shown' = Shown
      BY <2>0, <2>5, <3>1, ResetDoes DEF Shown
    <3>4. QED BY <3>1, <3>2, <3>3, KeptStays
  <2>6. CASE CommitAnns
    <3>1. /\ rpc = "anns" /\ rpc' = "meta" /\ metaPending'
          /\ UNCHANGED << live, meta, hand, rec, fill >>
          /\ buf' = [buf EXCEPT ![fill].anns = {}]
      BY <2>0, <2>6 DEF CommitAnns, Step, server, screen, HandInv, Committing
    <3>2. Shown' = Shown
      BY <2>0, <3>1, AnnsSet DEF Shown, SamplesStay
    <3>3. Phase' = Phase
      BY <3>1 DEF Phase, Swapping
    <3>4. QED BY <3>1, <3>2, <3>3, KeptStays
  <2>7. CASE CommitMeta
    <3>1. /\ rpc = "meta" /\ rpc' = "record" /\ metaPending'
          /\ UNCHANGED << live, hand, rec, fill >> /\ (swapPending => meta' = meta)
      BY <2>0, <2>7 DEF CommitMeta, Step, server, HandInv, Committing
    <3>2. Phase' = "whole" => fill # live /\ Phase = "whole"
      BY <3>1 DEF Phase, Swapping
    <3>3. fill # live => Shown' = Shown /\ meta' = meta
      BY <2>0, <2>7, <3>1, CommitMetaDoes DEF Shown, ScreenInv
    <3>4. QED BY <3>1, <3>2, <3>3, KeptStays
  <2>8. CASE CommitRecord
    <3>1. /\ rpc = "record" /\ rpc' = "first"
          /\ UNCHANGED << swapPending, fillMeta, fill, buf, hand, srv, acq, live, meta >>
          /\ rec' = IF swapPending THEN rec ELSE Committed(rec)
          /\ srv.state = "streaming" /\ metaPending /\ (swapPending <=> fill # live)
      BY <2>0, <2>8
         DEF CommitRecord, Step, server, HandInv, Handling, Committing, ScreenInv
    <3>2. Shown' = Shown
      BY <3>1 DEF Shown
    <3>3. CASE swapPending
      <4>1. Phase = "whole"
        BY <3>1, <3>3 DEF Phase, Swapping
      <4>2. QED BY <3>1, <3>2, <3>3, <4>1, KeptStays
    <3>4. CASE ~swapPending
      <4>1. rec'.kept = rec.pending /\ meta = acq
        BY <2>0, <3>1, <3>4 DEF Committed, ScreenInv
      <4>2. Within(rec.pending, acq, {hand}) /\ Reaches(rec.pending, srv.data)
        BY <2>0, <3>1 DEF Aside
      <4> DEFINE d == {hand}
                 e == Shown' \cup {hand'}
      <4>3. Within(rec.pending, acq, d) /\ \A f \in d : IsSample(f) => f \in e
        BY <3>1, <4>2
      <4> HIDE DEF d, e
      <4>4. Within(rec.pending, acq, e)
        BY <4>3, WithinMore
      <4>5. Records(rec'.kept, rec'.kept[1].of) /\ Within(rec'.kept, meta', e)
        BY <3>1, <4>1, <4>4, WithinRecords
      <4>6. Reaches(rec'.kept, srv'.data)
        BY <3>1, <4>1, <4>2
      <4>7. rpc' \notin {"swapMarker", "swapLive"}
        BY <3>1
      <4>8. QED BY <4>5, <4>6, <4>7 DEF Kept, e
    <3>5. QED BY <3>3, <3>4
  <2>9. CASE AppendData
    <3>1. /\ rpc \in {"first", "append"} /\ rpc' = "recv" /\ hand' = NoFrame
          /\ UNCHANGED << metaPending, swapPending, live, meta, fill, srv, rec >>
          /\ srv.state = "streaming" /\ ~metaPending /\ hand.of = acq
      BY <2>0, <2>9
         DEF AppendData, Step, server, screen, HandInv, Handling, Committing
    <3>2. Phase = "whole" \/ rpc = "first"
      BY <3>1 DEF Phase, Swapping
    <3>3. CASE fill = live
      <4>1. Shown' = Shown \cup {hand}
        BY <2>0, <2>9, <3>1, <3>3, AppendDoes DEF Shown
      <4>2. QED BY <3>1, <3>2, <4>1, KeptStays
    <3>4. CASE fill # live
      <4>1. Shown' = Shown
        BY <2>0, <2>9, <3>1, <3>4, AppendDoes DEF Shown
      <4>2. meta < acq
        BY <2>0, <3>1, <3>4 DEF Filling, ScreenInv
      <4>3. hand.of # meta
        BY <2>0, <3>1, <4>2, Numbers
      <4> SUFFICES ASSUME rec.kept # << >> PROVE Kept'
        BY <3>1 DEF Kept
      <4>4. Within(rec.kept, meta, Shown \cup {hand}) /\ Records(rec.kept, rec.kept[1].of)
        BY <3>2 DEF Kept
      <4>5. Within(rec.kept, meta, Shown' \cup {hand'})
        BY <4>1, <4>3, <4>4 DEF Within, Records
      <4>6. swapPending'
        BY <2>0, <3>1, <3>4 DEF Filling
      <4>7. QED BY <3>1, <4>4, <4>5, <4>6 DEF Kept
    <3>5. QED BY <3>3, <3>4
  <2>10. CASE SwapBegin
    <3>1. /\ rpc = "swap" /\ UNCHANGED << live, hand, fill, fillMeta, buf, rec, srv >>
          /\ rpc' \in {"swapRecord", "tell"} /\ (rpc' = "tell" => meta' = meta)
      BY <2>10 DEF SwapBegin, Step, server
    <3>2. srv'.state # "streaming" /\ Shown' = Shown
      BY <2>0, <3>1 DEF Filling, Closing, Shown
    <3>3. Phase = "whole" /\ (rpc' = "swapRecord" => Phase' # "whole")
      BY <3>1 DEF Phase, Swapping
    <3>4. QED BY <3>1, <3>2, <3>3, KeptStays
  <2>11. CASE SwapRecord
    <3>1. /\ rpc = "swapRecord" /\ rpc' = "swapMarker"
          /\ UNCHANGED << fill, fillMeta, buf, srv >> /\ rec'.kept = rec.pending
      BY <2>11 DEF SwapRecord, Step, server, Committed
    <3>2. Within(rec.pending, fillMeta, buf[fill].samples) /\ srv.state # "streaming"
      BY <2>0, <3>1 DEF Aside, Filling, Closing, Swapping
    <3>3. Records(rec.pending, rec.pending[1].of)
      BY <3>2, WithinRecords
    <3>4. Phase' # "whole" /\ rpc' # "first"
      BY <3>1 DEF Phase, Swapping
    <3>5. QED BY <3>1, <3>2, <3>3, <3>4 DEF Kept
  <2>12. CASE SwapMarker
    <3>1. /\ rpc = "swapMarker" /\ rpc' = "swapLive"
          /\ UNCHANGED << fill, fillMeta, buf, srv, rec >>
      BY <2>12 DEF SwapMarker, Step, server
    <3>2. Phase' # "whole" /\ srv'.state # "streaming"
      BY <2>0, <3>1 DEF Phase, Swapping, Filling, Closing
    <3>3. QED BY <3>1, <3>2, KeptStays
  <2>13. CASE SwapLive
    <3>1. /\ rpc = "swapLive" /\ rpc' = "tell" /\ live' = fill
          /\ UNCHANGED << fill, fillMeta, meta, buf, srv, rec >>
      BY <2>13 DEF SwapLive, Step, server
    <3>2. meta = fillMeta /\ srv'.state # "streaming" /\ Shown' = buf[fill].samples
      BY <2>0, <3>1 DEF ScreenInv, Swapping, Filling, Closing, Shown
    <3>3. rec.kept # << >> => /\ Within(rec.kept, fillMeta, buf[fill].samples)
                              /\ Records(rec.kept, rec.kept[1].of)
      BY <3>1 DEF Kept
    <3>4. rec.kept # << >> => Within(rec.kept, fillMeta, buf[fill].samples \cup {hand'})
      BY <3>3, WithinMore
    <3>5. QED BY <3>1, <3>2, <3>3, <3>4 DEF Kept
  <2>14. CASE Tell
    <3>1. /\ rpc = "tell" /\ rpc' = "recv"
          /\ UNCHANGED << live, meta, hand, fill, buf, rec, srv >>
      BY <2>14 DEF Tell, Step, server, screen
    <3>2. Phase = "whole" /\ Shown' = Shown /\ srv'.state # "streaming"
      BY <2>0, <3>1 DEF Phase, Swapping, Shown, Filling, Closing
    <3>3. QED BY <3>1, <3>2, KeptStays
  <2>15. QED BY <2>1, <2>2, <2>3, <2>4, <2>5, <2>6, <2>7, <2>8, <2>9, <2>10, <2>11, <2>12,
                <2>13, <2>14, StepCases
<1>3. QED
  BY <1>1, <1>2, DataCorrect, RecordCorrect, HandCorrect, ScreenCorrect, SideBuffer,
     StreamsCorrect, FillingCorrect, AsideCorrect, PTL DEF Spec

\* Save (save_capture of app.cpp) writes at any moment, in the middle of a commit
\* or a swap too, a recording of one acquisition: its metadata, then its samples
\* in order and without a gap, up to the cap; and but for these middles it is the
\* acquisition on the screen, with its samples.  Repeat on a connection that may
\* break is left out: it can publish a torso with the recording of another.
THEOREM RecordingMatches ==
  ASSUME "repeat" \notin Acts \/ ("lose" \notin Acts /\ "disconnect" \notin Acts)
  PROVE  Spec => []RecordMatches
<1>1. Kept => RecordMatches
  <2> SUFFICES ASSUME Kept, rec.kept # << >>
               PROVE  /\ Records(rec.kept, rec.kept[1].of)
                      /\ Phase = "whole" =>
                           /\ rec.kept[1].of = meta
                           /\ \A i \in DOMAIN rec.kept :
                                IsSample(rec.kept[i]) => rec.kept[i] \in Shown \cup {hand}
    BY DEF RecordMatches
  <2>1. Records(rec.kept, rec.kept[1].of)
    BY DEF Kept
  <2>2. ASSUME Phase = "whole" PROVE Within(rec.kept, meta, Shown \cup {hand})
    BY <2>2 DEF Kept
  <2>3. QED BY <2>1, <2>2 DEF Within, Records, Frame
<1>2. QED BY <1>1, KeptCorrect, PTL
=============================================================================
