---------------------------- MODULE Acquisition ----------------------------
(***************************************************************************)
(* How sonview takes acquisitions (client/src/app.cpp): the RX thread that  *)
(* fills the two capture buffers, stages triggers, records frames and swaps *)
(* the buffers; the UI thread with its Run/Stop button, Repeat, re-arming   *)
(* and re-decoding.  sond is external: what it sends, and when.             *)
(*                                                                         *)
(* Acquisitions are numbered in the order of their SESSION_META; 0 stands   *)
(* for none.  A frame carries its acquisition and a number, its payload is  *)
(* left out.  A server step that sends is fused with its receipt: one TCP   *)
(* stream, one RX thread.  The handlers of the first data and of            *)
(* CAPTURE_END take a step for every store the UI thread can see, since it  *)
(* draws and saves in between; `rpc' is the RX thread's place in them.      *)
(* start_capture is two steps: it raises run_active_ after it has sent      *)
(* START.                                                                   *)
(***************************************************************************)
EXTENDS Naturals, Sequences, FiniteSets

CONSTANTS
    MaxAcq,      \* bound: acquisitions
    MaxFrames,   \* bound: sample frames of one acquisition
    MaxRedecode, \* bound: re-decodes
    MaxQueue,    \* bound: messages to the server, messages in ctrl_
    RecordCap,   \* CAP, the 512 MB of a recording, in frames
    Kinds,       \* kinds of samples acquisitions deliver
    Acts,        \* what happens besides Start and Stop
    Calm         \* TRUE: the user presses neither Start nor Re-decode while a
                 \* START is unanswered

ASSUME BoundsAssumption ==
    /\ MaxAcq \in Nat /\ MaxFrames \in Nat /\ MaxRedecode \in Nat
    /\ MaxQueue \in Nat /\ RecordCap \in Nat \ {0}
ASSUME KindsAssumption == Kinds \subseteq {"logic", "analog"}
ASSUME ActsAssumption  ==
    Acts \subseteq {"repeat", "continuous", "redecode", "disconnect", "lose",
                    "slow", "trigger"}
ASSUME CalmAssumption  == Calm \in BOOLEAN

VARIABLES
    \* the UI thread
    repeat,      \* repeat_capture_
    triggered,   \* mode_idx_ = 0
    run,         \* run_active_
    redecoding,  \* redecoding_
    window,      \* pending_window_ # 0
    upc,         \* "starting" between the START and run_active_ = true
    redecodes,   \* ghost: re-decodes so far
    stranded,    \* ghost: since the last START the run may have lost what it
                 \* waits for (RunIsLive says how)
    \* shared between the threads
    connected, capturing, metaPending, pendingMeta,
    live,        \* live_idx_
    meta,        \* meta_, the metadata of the screen
    marker,      \* trigger_sample_ if has_trigger_, 0 otherwise
    ctrl,        \* ctrl_, control messages for the UI thread
    \* the RX thread
    fill,        \* fill_idx_
    swapPending, fillMeta,
    staged,      \* staged_trigger_ if staged_has_trigger_, 0 otherwise
    buf,         \* bufs_
    rpc,         \* "recv", or the next step of the handler it is in
    hand,        \* the sample frame recorded and not yet appended
    ending,      \* reason of a CAPTURE_END whose handler has not returned
    rec,         \* record_, pending_record_, pending_rec_active_, truncated
    \* the server and the stream to it
    toServer,
    srv,         \* its capture thread, and what that has sent
    acq,         \* acquisitions announced so far
    decoding     \* the re-decode it works on

ui     == << repeat, triggered, run, redecoding, window, upc, redecodes,
             stranded >>
screen == << live, meta, marker >>
pend   == << metaPending, pendingMeta >>
rx     == << fill, swapPending, fillMeta, staged, buf, rpc, hand, ending >>
server == << srv, acq, decoding >>
vars   == << ui, connected, capturing, pend, screen, ctrl, rx, rec,
             toServer, server >>

-----------------------------------------------------------------------------
(* Values.                                                                 *)

Acquisitions == 0 .. MaxAcq

\* A recorded frame.  `n` numbers the samples of an acquisition; for an
\* annotation batch it is 0 (decoded live) or the re-decode it comes from.
Frame(type, of, n) == [type |-> type, of |-> of, n |-> n]

\* An empty CaptureBuf: logic, analog and annotation store.
EmptyBuf == [samples |-> {}, anns |-> {}]

NoFrame == [type |-> "none", of |-> 0, n |-> 0]
NoDecode == [type |-> "none", of |-> 0, n |-> 0]
NoCapture == [state |-> "idle", data |-> 0, ann |-> FALSE, trigger |-> FALSE]

\* logic.count() > logic.first_live()
HasLogic(b) == \E f \in b.samples : f.type = "logic"

Shown == buf[live].samples

\* A START has been sent and neither SESSION_META nor CAPTURE_END has come.
Unanswered == \/ \E i \in DOMAIN toServer : toServer[i].type = "START"
              \/ srv.state = "armed"

Init ==
    /\ repeat \in (IF "repeat" \in Acts THEN BOOLEAN ELSE {FALSE})
    /\ triggered \in (IF "continuous" \in Acts THEN BOOLEAN ELSE {TRUE})
    /\ run = FALSE /\ redecoding = FALSE /\ window = FALSE
    /\ upc = "idle" /\ redecodes = 0 /\ stranded = FALSE
    /\ connected = FALSE /\ capturing = FALSE
    /\ metaPending = FALSE /\ pendingMeta = 0
    /\ live = 0 /\ meta = 0 /\ marker = 0 /\ ctrl = << >>
    /\ fill = 0 /\ swapPending = FALSE /\ fillMeta = 0 /\ staged = 0
    /\ buf = [b \in {0, 1} |-> EmptyBuf]
    /\ rpc = "recv" /\ hand = NoFrame /\ ending = "none"
    /\ rec = [kept |-> << >>, pending |-> << >>,
              active |-> FALSE, truncated |-> FALSE]
    /\ toServer = << >> /\ srv = NoCapture /\ acq = 0 /\ decoding = NoDecode

-----------------------------------------------------------------------------
(* Recording.                                                              *)

\* A slip (see Slips below): record_frame without the test of CAP.
ExtendedUnbounded(s, f) == Append(s, f)

\* s with f, unless it is full.
Extended(s, f) == IF Len(s) < RecordCap THEN Append(s, f) ELSE s

\* record_frame: SESSION_META opens the side buffer; frames go there until it
\* is committed, and control traffic before the first capture nowhere.
Recorded(f) ==
    CASE f.type = "meta" ->
           [rec EXCEPT !.pending = << f >>, !.active = TRUE]
      [] f.type # "meta" /\ rec.active ->
           [rec EXCEPT !.pending = Extended(@, f),
                       !.truncated = @ \/ Len(rec.pending) >= RecordCap]
      [] OTHER ->
           IF rec.kept = << >> THEN rec
           ELSE [rec EXCEPT !.kept = Extended(@, f),
                            !.truncated = @ \/ Len(rec.kept) >= RecordCap]

\* The side buffer r.pending becomes the recording.
Committed(r) == [kept |-> r.pending, pending |-> << >>,
                 active |-> FALSE, truncated |-> FALSE]

-----------------------------------------------------------------------------
(* What the RX actions share.                                              *)

\* rx_loop is in recv.
Receiving == connected /\ rpc = "recv"

\* commit_pending_capture: fill the hidden buffer in a running Repeat of
\* triggered captures that shows logic samples already.
SwapMode == repeat /\ run /\ ~window /\ HasLogic(buf[live])

SampleFrame(kind) == Frame(kind, acq, srv.data + 1)

\* A step of a handler.
Step(from, to) ==
    /\ rpc = from /\ rpc' = to
    /\ UNCHANGED << ui, connected, capturing, pendingMeta, staged, toServer,
                    server >>

-----------------------------------------------------------------------------
(* Slips: plausible bugs in the code modelled below.  None is part of Next; *)
(* each breaks a property, which shows that the property is about that line *)
(* of the code.                                                            *)

\* start_capture that lowers run_active_ only after it has validated.
StartRefusedKeepsRun == UNCHANGED << run, window, upc, stranded, toServer >>

\* process_ctrl without the reset in the case ERROR.
HandleDecodedNoError ==
    /\ upc = "idle" /\ ctrl # << >> /\ Head(ctrl) \in {"decoded", "failed"}
    /\ ctrl' = Tail(ctrl)
    /\ redecoding' = (redecoding /\ Head(ctrl) = "failed")
    /\ UNCHANGED << repeat, triggered, run, window, upc, redecodes, stranded,
                    connected, capturing, pend, screen, rx, rec, toServer,
                    server >>

\* SESSION_META that wipes the stores at once.
RecvMetaWipes ==
    /\ Receiving /\ srv.state = "armed" /\ acq < MaxAcq
    /\ acq' = acq + 1
    /\ srv' = [srv EXCEPT !.state = "streaming"]
    /\ rec' = Recorded(Frame("meta", acq', 0))
    /\ pendingMeta' = acq' /\ metaPending' = TRUE
    /\ marker' = 0
    /\ capturing' = TRUE
    /\ buf' = [buf EXCEPT ![live] = EmptyBuf]
    /\ UNCHANGED << ui, connected, live, meta, ctrl, fill, swapPending,
                    fillMeta, staged, rpc, hand, ending, toServer, decoding >>

\* commit_pending_capture that replaces the recording in swap mode too.
CommitRecordAlways ==
    /\ Step("record", "first")
    /\ metaPending' = FALSE
    /\ rec' = Committed(rec)
    /\ marker' = IF swapPending THEN marker ELSE staged
    /\ UNCHANGED << live, meta, ctrl, fill, swapPending, fillMeta, buf, hand,
                    ending >>

\* commit_pending_capture without anns_fill().reset().
CommitAnnsKeeps ==
    /\ Step("anns", "meta")
    /\ UNCHANGED << metaPending, screen, ctrl, fill, swapPending, fillMeta, buf,
                    hand, ending, rec >>

\* swap_buffers_on_end that moves the recording before it looks at the store.
SwapBeginCommits ==
    /\ rpc = "swap"
    /\ swapPending' = FALSE
    /\ rec' = IF swapPending THEN Committed(rec) ELSE rec
    /\ IF swapPending /\ HasLogic(buf[fill])
       THEN Step("swap", "swapRecord") /\ meta' = fillMeta
       ELSE Step("swap", "tell") /\ UNCHANGED meta
    /\ UNCHANGED << live, marker, metaPending, ctrl, fill, fillMeta, buf, hand,
                    ending >>

-----------------------------------------------------------------------------
(* The UI thread.                                                          *)

\* start_capture returns early, or a send fails.
StartRefused == /\ run' = FALSE
                /\ window' \in {window, ~triggered}
                /\ UNCHANGED << upc, stranded, toServer >>

\* start_capture up to and including the START; StartDone is the rest.
StartSent == /\ Len(toServer) < MaxQueue
             /\ run' = FALSE
             /\ window' = ~triggered
             /\ toServer' = Append(toServer, Frame("START", 0, 0))
             /\ upc' = "starting"
             /\ stranded' = FALSE

StartDone ==
    /\ upc = "starting"
    /\ run' = TRUE
    /\ upc' = "idle"
    /\ UNCHANGED << repeat, triggered, redecoding, window, redecodes, stranded,
                    connected, capturing, pend, screen, ctrl, rx, rec,
                    toServer, server >>

\* The button and the space bar: Start.
PressStart ==
    /\ upc = "idle" /\ connected /\ ~capturing /\ ~run
    /\ Calm => ~Unanswered
    /\ StartSent \/ StartRefused
    /\ UNCHANGED << repeat, triggered, redecoding, redecodes, connected,
                    capturing, pend, screen, ctrl, rx, rec, server >>

\* The button and the space bar: Stop.  The STOP it sends while capturing_
\* lets the server end the acquisition, which RecvEnd may do anyway.
PressStop ==
    /\ upc = "idle" /\ (capturing \/ run)
    /\ run' = FALSE
    /\ UNCHANGED << repeat, triggered, redecoding, window, upc, redecodes,
                    stranded, connected, capturing, pend, screen, ctrl, rx,
                    rec, toServer, server >>

ToggleRepeat ==
    /\ upc = "idle" /\ "repeat" \in Acts
    /\ repeat' = ~repeat
    /\ UNCHANGED << triggered, run, redecoding, window, upc, redecodes,
                    stranded, connected, capturing, pend, screen, ctrl, rx,
                    rec, toServer, server >>

ChangeMode ==
    /\ upc = "idle" /\ "continuous" \in Acts
    /\ triggered' = ~triggered
    /\ UNCHANGED << repeat, run, redecoding, window, upc, redecodes, stranded,
                    connected, capturing, pend, screen, ctrl, rx, rec,
                    toServer, server >>

\* process_ctrl, CAPTURE_END: any reason but "complete" ends the run, and a
\* complete acquisition of a running Repeat arms the next one.
HandleEnd ==
    /\ upc = "idle" /\ ctrl # << >> /\ Head(ctrl) \in {"complete", "stopped"}
    /\ ctrl' = Tail(ctrl)
    /\ LET going == run /\ Head(ctrl) = "complete"
       IN  IF repeat /\ going /\ connected /\ ~capturing /\ triggered
           THEN StartSent \/ StartRefused
           ELSE /\ run' = (going /\ repeat)
                /\ stranded' = (stranded \/ (going /\ repeat /\ ~triggered))
                /\ UNCHANGED << window, upc, toServer >>
    /\ UNCHANGED << repeat, triggered, redecoding, redecodes, connected,
                    capturing, pend, screen, rx, rec, server >>

\* process_ctrl, DECODE_END and ERROR.
HandleDecoded ==
    /\ upc = "idle" /\ ctrl # << >> /\ Head(ctrl) \in {"decoded", "failed"}
    /\ ctrl' = Tail(ctrl)
    /\ redecoding' = FALSE
    /\ UNCHANGED << repeat, triggered, run, window, upc, redecodes, stranded,
                    connected, capturing, pend, screen, rx, rec, toServer,
                    server >>

\* start_redecode: drops the annotations on the screen, sends the request and
\* the samples; a send may fail, on a connection that is about to be lost.
Redecode ==
    /\ upc = "idle" /\ "redecode" \in Acts
    /\ connected /\ ~capturing /\ ~redecoding /\ HasLogic(buf[live])
    /\ Calm => ~Unanswered
    /\ redecodes < MaxRedecode /\ Len(toServer) < MaxQueue
    /\ redecodes' = redecodes + 1
    /\ buf' = [buf EXCEPT ![live].anns = {}]
    /\ \/ /\ redecoding' = TRUE
          /\ \E f \in Shown : toServer' = Append(toServer,
                                      Frame("DECODE", f.of, redecodes'))
       \/ UNCHANGED << redecoding, toServer >>
    /\ UNCHANGED << repeat, triggered, run, window, upc, stranded, connected,
                    capturing, pend, screen, ctrl, fill, swapPending, fillMeta,
                    staged, rpc, hand, ending, rec, server >>

-----------------------------------------------------------------------------
(* The RX thread.  Each action is a message the server sends, with what     *)
(* record_frame and process_rx_message do on receiving it.                  *)

RecvMeta ==
    /\ Receiving /\ srv.state = "armed" /\ acq < MaxAcq
    /\ acq' = acq + 1
    /\ srv' = [srv EXCEPT !.state = "streaming"]
    /\ rec' = Recorded(Frame("meta", acq', 0))
    /\ pendingMeta' = acq' /\ metaPending' = TRUE
    /\ marker' = 0
    /\ capturing' = TRUE
    /\ UNCHANGED << ui, connected, live, meta, ctrl, rx, toServer, decoding >>

\* TRIGGER: staged, published with the next commit or swap.
RecvTrigger ==
    /\ Receiving /\ srv.state = "streaming" /\ ~srv.trigger
    /\ "trigger" \in Acts
    /\ srv' = [srv EXCEPT !.trigger = TRUE]
    /\ rec' = Recorded(Frame("trigger", acq, 0))
    /\ staged' = acq
    /\ UNCHANGED << ui, connected, capturing, pend, screen, ctrl, fill,
                    swapPending, fillMeta, buf, rpc, hand, ending, toServer,
                    acq, decoding >>

\* DATA_LOGIC or DATA_ANALOG: recorded, and kept in hand until it is appended.
RecvData(kind) ==
    /\ Receiving /\ srv.state = "streaming" /\ srv.data < MaxFrames
    /\ srv' = [srv EXCEPT !.data = @ + 1]
    /\ hand' = SampleFrame(kind)
    /\ rec' = Recorded(hand')
    /\ rpc' = IF metaPending THEN "reset" ELSE "append"
    /\ UNCHANGED << ui, connected, capturing, pend, screen, ctrl, fill,
                    swapPending, fillMeta, staged, buf, ending, toServer, acq,
                    decoding >>

\* commit_pending_capture, on the first data of an acquisition: where it goes,
\* and the logic store is emptied there ...
CommitReset ==
    /\ Step("reset", "anns")
    /\ swapPending' = SwapMode
    /\ fill' = IF SwapMode THEN 1 - live ELSE live
    /\ fillMeta' = pendingMeta
    /\ buf' = [buf EXCEPT ![fill'].samples = {f \in @ : f.type # "logic"}]
    /\ UNCHANGED << metaPending, screen, ctrl, hand, ending, rec >>

\* ... and the annotations ...
CommitAnns ==
    /\ Step("anns", "meta")
    /\ buf' = [buf EXCEPT ![fill].anns = {}]
    /\ UNCHANGED << metaPending, screen, ctrl, fill, swapPending, fillMeta,
                    hand, ending, rec >>

\* ... under m_ the analog stores are dropped and the metadata is replaced ...
CommitMeta ==
    /\ Step("meta", "record")
    /\ buf' = [buf EXCEPT ![fill].samples = {}]
    /\ meta' = IF swapPending THEN meta ELSE pendingMeta
    /\ UNCHANGED << metaPending, live, marker, ctrl, fill, swapPending,
                    fillMeta, hand, ending, rec >>

\* ... under rec_m_ the recording is, with the marker.
CommitRecord ==
    /\ Step("record", "first")
    /\ metaPending' = FALSE
    /\ IF swapPending THEN UNCHANGED << rec, marker >>
       ELSE rec' = Committed(rec) /\ marker' = staged
    /\ UNCHANGED << live, meta, ctrl, fill, swapPending, fillMeta, buf, hand,
                    ending >>

\* LogicStore::append and AnalogStore::append, "first" right after a commit.
AppendData ==
    /\ Step("first", "recv") \/ Step("append", "recv")
    /\ buf' = [buf EXCEPT ![fill].samples = @ \cup {hand}]
    /\ hand' = NoFrame
    /\ UNCHANGED << metaPending, screen, ctrl, fill, swapPending, fillMeta,
                    ending, rec >>

\* ANN_BATCH: annotations go to the buffer being filled.
Annotate(f) ==
    /\ buf' = [buf EXCEPT ![fill].anns = @ \cup {f}]
    /\ rec' = Recorded(f)
    /\ UNCHANGED << ui, connected, capturing, pend, screen, ctrl, fill,
                    swapPending, fillMeta, staged, rpc, hand, ending, toServer,
                    acq >>

RecvAnn ==
    /\ Receiving /\ srv.state = "streaming" /\ srv.data > 0 /\ ~srv.ann
    /\ "redecode" \in Acts
    /\ srv' = [srv EXCEPT !.ann = TRUE]
    /\ Annotate(Frame("ann", acq, 0))
    /\ UNCHANGED decoding

RecvRedecoded ==
    /\ Receiving /\ decoding.type = "DECODE"
    /\ decoding' = [decoding EXCEPT !.type = "done"]
    /\ Annotate(Frame("ann", decoding.of, decoding.n))
    /\ UNCHANGED srv

\* DECODE_END, or ERROR if the decoders could not be set up.
RecvDecodeEnd ==
    /\ Receiving /\ decoding # NoDecode /\ Len(ctrl) < MaxQueue
    /\ decoding' = NoDecode
    /\ \E type \in {"decoded", "failed"} :
         /\ type = "failed" => decoding.type = "DECODE"
         /\ ctrl' = Append(ctrl, type)
         /\ rec' = Recorded(Frame(type, 0, decoding.n))
    /\ UNCHANGED << ui, connected, capturing, pend, screen, rx, toServer,
                    srv, acq >>

\* CAPTURE_END up to swap_buffers_on_end.  A capture that cannot be set up
\* ends without a SESSION_META; "stopped" is any reason but "complete".
RecvEnd ==
    /\ Receiving /\ srv.state \in {"armed", "streaming"}
    /\ Len(ctrl) < MaxQueue
    /\ \E reason \in {"complete", "stopped"} :
         /\ reason = "complete" => srv.state = "streaming"
         /\ ending' = reason
    /\ rpc' = "swap"
    /\ srv' = [NoCapture EXCEPT
                 !.state = IF "slow" \in Acts THEN "ending" ELSE "idle"]
    /\ rec' = Recorded(Frame("end", acq, 0))
    /\ capturing' = FALSE
    /\ metaPending' = FALSE
    /\ UNCHANGED << ui, connected, pendingMeta, screen, ctrl, fill,
                    swapPending, fillMeta, staged, buf, hand, toServer, acq,
                    decoding >>

\* swap_buffers_on_end: under m_ the metadata of a hidden buffer that has
\* logic samples is published ...
SwapBegin ==
    /\ swapPending' = FALSE
    /\ IF swapPending /\ HasLogic(buf[fill])
       THEN Step("swap", "swapRecord") /\ meta' = fillMeta
       ELSE Step("swap", "tell") /\ UNCHANGED meta
    /\ UNCHANGED << metaPending, live, marker, ctrl, fill, fillMeta, buf, hand,
                    ending, rec >>

\* ... under rec_m_ its recording ...
SwapRecord ==
    /\ Step("swapRecord", "swapMarker")
    /\ rec' = Committed(rec)
    /\ UNCHANGED << metaPending, screen, ctrl, fill, swapPending, fillMeta, buf,
                    hand, ending >>

\* ... its marker, and at last the buffer.
SwapMarker ==
    /\ Step("swapMarker", "swapLive")
    /\ marker' = staged
    /\ UNCHANGED << metaPending, live, meta, ctrl, fill, swapPending, fillMeta,
                    buf, hand, ending, rec >>

SwapLive ==
    /\ Step("swapLive", "tell")
    /\ live' = fill
    /\ UNCHANGED << metaPending, meta, marker, ctrl, fill, swapPending,
                    fillMeta, buf, hand, ending, rec >>

\* CAPTURE_END is passed to the UI thread.
Tell ==
    /\ Step("tell", "recv")
    /\ ctrl' = Append(ctrl, ending)
    /\ ending' = "none"
    /\ UNCHANGED << metaPending, screen, fill, swapPending, fillMeta, buf, hand,
                    rec >>

-----------------------------------------------------------------------------
(* The connection.                                                         *)

Cut == /\ Receiving
       /\ connected' = FALSE /\ capturing' = FALSE
       /\ toServer' = << >> /\ srv' = NoCapture /\ decoding' = NoDecode
       /\ UNCHANGED << repeat, triggered, redecoding, window, upc, redecodes,
                       pend, screen, ctrl, rx, rec, acq >>

\* rx_loop ends because the connection is lost.
Lose == /\ "lose" \in Acts /\ Cut
        /\ stranded' = TRUE /\ UNCHANGED run

\* do_disconnect, whose join waits for the handler.
Disconnect == /\ "disconnect" \in Acts /\ upc = "idle" /\ Cut
              /\ run' = FALSE /\ UNCHANGED stranded

\* do_connect, and the automatic reconnect.
Connect ==
    /\ upc = "idle" /\ ~connected
    /\ connected' = TRUE
    /\ ctrl' = << >>
    /\ UNCHANGED << ui, capturing, pend, screen, rx, rec, toServer, server >>

-----------------------------------------------------------------------------
(* The server: its dispatch thread takes one message at a time, and a       *)
(* re-decode keeps it busy.                                                 *)

\* START is ignored while a capture runs, or has not quite ended.
TakeStart ==
    /\ toServer # << >> /\ Head(toServer).type = "START"
    /\ decoding = NoDecode
    /\ toServer' = Tail(toServer)
    /\ srv' = IF srv.state = "idle" THEN [srv EXCEPT !.state = "armed"]
              ELSE srv
    /\ stranded' = (stranded \/ srv.state = "ending")
    /\ UNCHANGED << repeat, triggered, run, redecoding, window, upc, redecodes,
                    connected, capturing, pend, screen, ctrl, rx, rec, acq,
                    decoding >>

TakeDecode ==
    /\ toServer # << >> /\ Head(toServer).type = "DECODE"
    /\ decoding = NoDecode
    /\ toServer' = Tail(toServer)
    /\ decoding' = Head(toServer)
    /\ UNCHANGED << ui, connected, capturing, pend, screen, ctrl, rx, rec, srv,
                    acq >>

\* run_capture returns and clears g_capture_running.
CaptureOver ==
    /\ srv.state = "ending"
    /\ srv' = NoCapture
    /\ UNCHANGED << ui, connected, capturing, pend, screen, ctrl, rx, rec,
                    toServer, acq, decoding >>

-----------------------------------------------------------------------------
UiThread == \/ PressStart \/ StartDone \/ PressStop \/ ToggleRepeat
            \/ ChangeMode \/ HandleEnd \/ HandleDecoded \/ Redecode
            \/ Connect \/ Disconnect

Commit == CommitReset \/ CommitAnns \/ CommitMeta \/ CommitRecord

Swap == SwapBegin \/ SwapRecord \/ SwapMarker \/ SwapLive

RxThread == \/ RecvMeta \/ RecvTrigger
            \/ \E kind \in Kinds : RecvData(kind)
            \/ Commit \/ AppendData
            \/ RecvAnn \/ RecvRedecoded \/ RecvDecodeEnd
            \/ RecvEnd \/ Swap \/ Tell

Server == TakeStart \/ TakeDecode \/ CaptureOver

Next == UiThread \/ RxThread \/ Server \/ Lose

Spec == Init /\ [][Next]_vars

\* The render loop drains ctrl_ in every frame; sond serves its client, and
\* what it sends comes in the order of the stream; the RX thread finishes a
\* handler it has begun.  Users and triggers owe nothing.
Fairness ==
    /\ WF_vars(StartDone) /\ WF_vars(HandleEnd) /\ WF_vars(HandleDecoded)
    /\ SF_vars(RecvDecodeEnd)
    /\ WF_vars(Commit) /\ WF_vars(AppendData) /\ WF_vars(Swap) /\ WF_vars(Tell)
    /\ WF_vars(TakeStart) /\ WF_vars(TakeDecode) /\ WF_vars(CaptureOver)

FairSpec == Spec /\ Fairness

-----------------------------------------------------------------------------
(* Properties.                                                             *)

SampleFrames == [type : {"logic", "analog"}, of : 1 .. MaxAcq,
                 n : 1 .. MaxFrames]
AnnFrames    == [type : {"ann"}, of : 1 .. MaxAcq, n : 0 .. MaxRedecode]
FrameTypes   == {"meta", "trigger", "logic", "analog", "ann", "decoded",
                 "failed", "end"}
AnyFrame     == [type : FrameTypes, of : Nat, n : Nat]
Decodes(type) == [type : {type}, of : 1 .. MaxAcq, n : 1 .. MaxRedecode]
Requests     == {Frame("START", 0, 0)} \cup Decodes("DECODE")
Answers      == {"complete", "stopped", "decoded", "failed"}
Servings     == [state : {"idle", "armed", "streaming", "ending"},
                 data : 0 .. MaxFrames, ann : BOOLEAN, trigger : BOOLEAN]
Buffers      == [samples : SUBSET SampleFrames, anns : SUBSET AnnFrames]

\* Where the RX thread may be: in recv, with data, with a CAPTURE_END.
Committing   == {"reset", "anns", "meta", "record"}
Handling     == Committing \cup {"first", "append"}
Swapping     == {"swapRecord", "swapMarker", "swapLive"}
Closing      == {"swap", "tell"} \cup Swapping
Places       == {"recv"} \cup Handling \cup Closing

Recordings   == [kept : Seq(AnyFrame), pending : Seq(AnyFrame),
                 active : BOOLEAN, truncated : BOOLEAN]

FlagsOK ==
    /\ repeat \in BOOLEAN /\ triggered \in BOOLEAN /\ run \in BOOLEAN
    /\ redecoding \in BOOLEAN /\ window \in BOOLEAN /\ connected \in BOOLEAN
    /\ capturing \in BOOLEAN /\ metaPending \in BOOLEAN
    /\ swapPending \in BOOLEAN /\ stranded \in BOOLEAN

DataOK ==
    /\ upc \in {"idle", "starting"} /\ redecodes \in 0 .. MaxRedecode
    /\ pendingMeta \in Acquisitions /\ meta \in Acquisitions
    /\ marker \in Acquisitions /\ fillMeta \in Acquisitions
    /\ staged \in Acquisitions /\ acq \in Acquisitions
    /\ live \in {0, 1} /\ fill \in {0, 1}
    /\ rpc \in Places /\ hand \in SampleFrames \cup {NoFrame}
    /\ rpc \in Handling => hand # NoFrame
    /\ ending \in {"none", "complete", "stopped"}
    /\ rpc \in Closing => ending # "none"
    /\ ctrl \in Seq(Answers)
    /\ buf \in [{0, 1} -> Buffers]
    /\ toServer \in Seq(Requests)
    /\ decoding \in {NoDecode} \cup Decodes("DECODE") \cup Decodes("done")
    /\ srv \in Servings
    /\ srv.state = "streaming" => acq > 0

RecOK ==
    /\ rec \in Recordings
    /\ Len(rec.kept) <= RecordCap /\ Len(rec.pending) <= RecordCap

\* Every variable keeps its type: buffers hold samples and annotations of
\* announced acquisitions, and a recording never outgrows its cap.
TypeOK == FlagsOK /\ DataOK /\ RecOK

\* How far the screen is between two acquisitions: a commit into the buffer
\* shown empties it before it replaces the metadata and appends, a swap
\* replaces the metadata before it stores live_idx_.
Phase == CASE rpc \in {"anns", "meta"} /\ fill = live    -> "cleared"
           [] rpc \in {"record", "first"} /\ fill = live -> "labelled"
           [] rpc \in Swapping                            -> "labelled"
           [] OTHER                                       -> "whole"

\* The screen implements the abstract display: what is drawn belongs to one
\* acquisition, grows, and is replaced only by a newer one that has data, by a
\* commit or a swap that is carried through, whatever the user does in between
\* and whenever the connection breaks.
Screen == INSTANCE Display WITH shown <- Shown, meta <- meta, phase <- Phase
ShowsOneAtATime == Screen!Spec

\* What makes it so.  First, what the RX thread has in hand where: a handler
\* of data commits if and only if an acquisition is announced, and the frame
\* is of the acquisition that streams.
HandInv ==
    /\ rpc # "recv" => (metaPending <=> rpc \in Committing)
    /\ rpc \in Handling => srv.state = "streaming" /\ hand.of = acq
    /\ rpc \notin Handling => hand = NoFrame

\* Then: except in the middle of a swap the samples drawn are of the
\* acquisition whose metadata is shown.  Those of the buffer being filled are of
\* the acquisition it was committed for, once the commit has emptied it; an
\* acquisition that is announced is newer than both; data that comes after the
\* commit is of the acquisition being filled; a swap that is pending will bring
\* a newer one, and one that is carried out brings samples.
ScreenInv ==
    /\ rpc \notin Swapping => Screen!AllOf(Shown, meta)
    /\ rpc \notin {"anns", "meta"} => Screen!AllOf(buf[fill].samples, fillMeta)
    /\ rpc \notin {"anns", "meta"} /\ fill = live => fillMeta = meta
    /\ rpc \in {"record", "first"} => buf[fill].samples = {}
    /\ meta <= acq /\ fillMeta <= acq
    /\ metaPending => pendingMeta = acq
    /\ metaPending /\ rpc \in {"recv", "reset"} => meta < acq /\ fillMeta < acq
    /\ rpc \in {"anns", "meta"} => meta < acq
    /\ rpc \in {"anns", "meta", "record"} =>
           fillMeta = acq /\ (swapPending <=> fill # live)
    /\ srv.state = "streaming" /\ ~metaPending => fillMeta = acq
    /\ swapPending => fill # live /\ meta < fillMeta
    /\ rpc \in Swapping => fillMeta = meta /\ buf[fill].samples # {}

\* The annotations on the screen were decoded from the samples on the screen
\* (commit and swap carry them with their samples, ANN_BATCH and the results
\* of a re-decode reach the right buffer).
AnnsBelong == \A f \in buf[live].anns : f.of = meta

\* The frames of a recording that carry samples.
IsSample(f) == f.type \in {"logic", "analog"}

\* Recording s is one of acquisition a: it begins with its metadata, and the
\* samples in it are the first of a, in their order and without a gap.
Records(s, a) ==
    /\ s[1] = Frame("meta", a, 0)
    /\ \A i \in DOMAIN s : IsSample(s[i]) =>
           /\ s[i].of = a
           /\ s[i].n > 1 =>
                \E j \in 1 .. i - 1 : IsSample(s[j]) /\ s[j].n = s[i].n - 1
           /\ \A j \in 1 .. i - 1 : IsSample(s[j]) => s[j].n < s[i].n

\* What Save writes is at any moment a recording of one acquisition, up to where
\* the cap cut it off.  But for the steps of a commit or a swap it is the
\* acquisition on the screen, whose samples are drawn, the one in hand excepted.
RecordMatches ==
    rec.kept # << >> =>
      /\ Records(rec.kept, rec.kept[1].of)
      /\ Phase = "whole" =>
           /\ rec.kept[1].of = meta
           /\ \A i \in DOMAIN rec.kept :
                IsSample(rec.kept[i]) => rec.kept[i] \in Shown \cup {hand}

\* While an acquisition fills the hidden buffer nothing about the one on the
\* screen changes: samples, metadata and recording stay until the swap.
NoBlink ==
    [][swapPending /\ swapPending' =>
         UNCHANGED << Shown, meta, rec.kept >>]_vars

\* What makes it so: from SESSION_META to the commit, or to the swap if one is
\* pending or carried out, frames go to the side buffer.
SideBufferOpen ==
    metaPending \/ swapPending \/ rpc = "swapRecord" => rec.active

\* Something can come of run_active_: a START on its way, a capture, or a
\* CAPTURE_END the UI thread has yet to see.
Awaited == \/ Unanswered \/ srv.state = "streaming" \/ ending # "none"
           \/ \E i \in DOMAIN ctrl : ctrl[i] \in {"complete", "stopped"}

\* run_active_ outlives what it waits for, so that the button reads Stop and
\* Repeat stands still, in three cases only: the connection was lost; sond
\* dropped the START, whose last capture had sent its CAPTURE_END and was not
\* quite over; or the mode was changed to continuous in a run of Repeat.
RunIsLive == run => upc = "starting" \/ Awaited \/ stranded

\* A re-decode ends: the button it disables comes back.
RedecodeEnds == redecoding ~> ~redecoding
-----------------------------------------------------------------------------
(* What comments and documents say of the client, and the code does not     *)
(* always do.                                                               *)

\* "so the marker always belongs to the acquisition on screen": a trigger that
\* arrives after the commit waits for the next one, and staged_has_trigger_ is
\* never lowered.
MarkerOnScreen == marker # 0 => marker = meta

\* "an acquisition that never triggers leaves the display untouched":
\* SESSION_META takes the trigger marker of the acquisition shown away.
ArmedUntouched ==
    [][metaPending' /\ ~metaPending => UNCHANGED << screen, Shown >>]_vars

\* Stop "works no matter where the repeat cycle currently is": no acquisition
\* begins when the run is over.
StopEndsRun == [][acq' # acq => run \/ upc = "starting"]_vars

\* In a running Repeat that shows something "each new acquisition fills a
\* hidden buffer": its first data does not touch the screen.
NoHalfDrawn ==
    [][/\ rpc = "reset" /\ rpc' = "anns"
       /\ repeat /\ ~window /\ HasLogic(buf[live])
       /\ run \/ upc = "starting"
       => UNCHANGED << screen, Shown >>]_vars

\* and "swaps in atomically when complete": the one that filled it is shown.
SwapsIn ==
    [][rpc = "swap" /\ rpc' # rpc /\ swapPending /\ buf[fill].samples # {}
       => meta' = fillMeta]_vars

\* "in one atomic step": whenever the UI thread looks, samples and metadata are
\* of one acquisition.
SwapIsAtomic == Screen!AllOf(Shown, meta)

\* "so Save keeps returning the acquisition that is actually on screen".
SavesShown == rec.kept # << >> => \A f \in Shown : f.of = rec.kept[1].of

\* When the trigger never fires "the previous capture is untouched": a
\* CAPTURE_END publishes its own acquisition or none.
PublishesOwn == [][meta' # meta => meta' = acq]_vars

\* A file holds what is shown, or the user is told that it was cut off.
TruncationTold ==
    rpc = "recv" /\ rec.kept # << >> /\ ~rec.truncated
      => Cardinality({i \in DOMAIN rec.kept : IsSample(rec.kept[i])})
           = Cardinality(Shown)

\* "Files behave exactly like live data, including re-decoding": the file has
\* the annotations on the screen and no others.
AnnsSaved ==
    (connected /\ ~capturing /\ ~redecoding /\ ending = "none"
       /\ rec.kept # << >> /\ ~rec.truncated)
      => {rec.kept[i] :
            i \in {j \in DOMAIN rec.kept : rec.kept[j].type = "ann"}}
           = buf[live].anns
=============================================================================
