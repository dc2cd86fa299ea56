# Verification of sigrok-over-net: TLA+ models, checks and proofs

`sond` (C++, on a Raspberry Pi) captures from a logic analyser with libsigrok
and streams samples and decoder annotations over TCP; `sonview` (C++, ImGui)
shows them.  This directory models both ends: the threads and messages whose
order their correctness depends on, the stores one thread fills and another
reads, and the algorithms over them.  TLC checks the models on small instances
and TLAPS proves what it can for all.

## 1. The system

| component | code | state it keeps | operations |
| --- | --- | --- | --- |
| dispatch thread | `server/src/main.cpp` | the locals of `handle_client`: `pending`, `cap` | accept, CONFIG, SCAN_REQ, START, STOP, end of connection, `reap()` |
| capture thread | `server/src/capture.cpp` `run_capture` | its session, device, decoder state | open, configure, META, publish, run, unpublish, END, destroy |
| watchdog thread | `capture.cpp:421-444` | its start time | armed, timing, fire |
| server globals | `server/src/server.h:40-47` | `g_devices`, five atomics | read and written by all three |
| server decode session | `main.cpp:307-346`, `capture.cpp:290-328` | `decode_state` | DECODE_REQ, DATA_LOGIC, DECODE_END |
| annotation batching | `capture.cpp:63-120` | rows of pending annotations | `ann_cb`, `flush_anns` |
| wire framing | `proto/son_wire.h` | the byte streams | `son_send`, `son_recv` |
| connection | `client/src/app.cpp:421-482`, `net.cpp` | `conn_state_`, `connected_`, `conn_lost_`, `rx_stop_` | connect, disconnect, loss, auto-reconnect |
| acquisition and display | `app.cpp:300-395, 484-729, 1018-1078` | two capture buffers, `live_idx_`, `fill_idx_`, `swap_pending_`, staged meta and trigger, run state | one handler per message; Start, Stop, Repeat |
| recording | `app.cpp:735-840` | `record_`, `pending_record_` | record, save, load |
| re-decode | `app.cpp:877-929` | `redecoding_` | stream the store back, wait for DECODE_END |
| sample stores | `client/src/stores.*`, `chunked.h` | chunks, `count_`, `first_live_`, gaps | append, trim, reset, read |
| pyramids | `pyramid.h`, `walk`, `envelope` | flags and cells per level | set, walk, envelope |
| annotation store | `stores.cpp:264-312` | rows sorted by start | add, visit, trim |
| export | `export.cpp` | - | VCD, `.sr` |
| decoder `i2s_ex` | `decoders/i2s_ex/pd.py` | bits of a slot | slice words at WS edges |
| settings and device panel | `app.cpp:162-263, 622-682, 1131-1236` | `device_prefs_`, the settings file | harvest, recall, save, load, SCAN_RESULT |
| panels | `app.cpp:932-990, 1486-1560, 1591-1650`, `render.cpp` | the measurement cache, the table cache, markers | recompute when the inputs changed |
| JSON model, tests, tools | the rest | - | not modelled |

How they interact.  The dispatch thread spawns a capture thread per START and
reclaims it in `reap()` before the next one and when the client is gone.  A
capture thread spawns a watchdog and joins it.  The three share
`g_active_session` (the session to stop), `g_stop_requested` (why it ended),
`g_capture_running` (is a thread inside `run_capture`), `g_first_data`,
`g_watchdog_fired` and, without a lock, `g_devices`.  Dispatch and capture
thread both write to the client's socket.  On the client the RX thread fills
the stores and queues control messages for the UI thread, which reads the
stores lock-free while it draws.

What is hard here: a STOP or a disconnect at every point of the start-up and
teardown of a capture; a driver that ignores `sr_session_stop`; threads that
outlive their connection; a START that follows a CAPTURE_END immediately
(Repeat mode does that on every acquisition); a rescan while a capture starts;
on the client, user actions between the first data and the end of an
acquisition, and a lost connection in the middle of one.  `PROJECT.json` lists
these under `hazards`, each at its line.

What makes each component correct:

- dispatch and capture: one capture at a time, the server always accepts
  again, a stop is never lost, the end reason is true, nothing is used after
  it was freed, SESSION_META precedes data;
- acquisition: what is on screen (samples, metadata, trigger marker,
  annotations, recording) belongs to one acquisition, and an armed capture
  that delivers nothing destroys nothing; the Run/Stop state ends with the run;
- stores: a reader sees a prefix of what was written, trimming excludes
  readers, `walk` yields exactly the edges of the samples;
- connection: one RX thread, no reconnect after an explicit disconnect, a
  reconnect after a loss, a status that tells the truth;
- re-decode: two threads that send and receive over full pipes never wait for
  each other; every annotation arrives once, those of two decodes do not mix;
- settings: what a user chose for a device comes back, over rescans and
  restarts;
- caches: what a panel shows is true of what is on the screen;
- decoder and export: what is put out is what was on the wire.

## 2. The modules

| modules | about | checked by | proved |
| --- | --- | --- | --- |
| `Sond`, `Sond_proofs` | capture control of the server | `MCSond` | type correctness, all safety invariants |
| `Acquisition`, `Display`, `Acquisition_proofs` | buffers, commit and swap store by store, trigger, recording, run state; abstract `Display` | `MCAcquisition` | type correctness, all safety invariants, `NoBlink`, refinement of `Display` |
| `LogicStore`, `PrefixStore`, `LogicStore_proofs` | chunk table, pyramid, walk, raw copy; abstract `PrefixStore` | `MCStores` | type correctness, all safety invariants, refinement of `PrefixStore` |
| `AnalogStore`, `AnnotationStore`, `Stores_proofs` | envelopes, annotation rows | `MCStores` | type correctness, `EnvelopeCovers`, `VisitExact` |
| `Vcd`, `Measure`, `Readouts_proofs` | the VCD merge, the measurements between markers | `MCStores` | `DumpReplays`, `MeasTruth` |
| `Connection`, `Connection_proofs` | connect, loss, retry, disconnect, opening a file | `MCClient` | type correctness, all safety invariants |
| `Devices`, `Devices_proofs` | what is remembered of a device | `MCClient` | type correctness, `SetupKept`, `QuitRestores` |
| `DecodedTable` | the table of annotations | `MCClient` | - |
| `Decode`, `Decode_proofs` | a re-decode across both programs, bounded pipes | `MCDecode` | type correctness, all safety invariants |
| `I2s`, `Readouts_proofs` | the decoder `i2s_ex` against a transmitter | `MCDecode` | `WordsRoundTrip` |

`MCStores`, `MCClient` and `MCDecode` check modules that share no state side by
side: the variable `part` says which of them a behaviour is about, and the
others stay in their initial state.  A module whose behaviour is composed with
others does so through an external environment: `LogicStore` leaves to
`Acquisition` when a capture begins, `Acquisition` leaves to `Connection` how a
connection is made, `Decode` takes a store nobody appends to.

What could follow: the stores under the replay of `load_capture`, of which
`Connection` has the disconnect and the flag it leaves; a service specification that `Sond` refines for a patient
client, composed with the client over FIFO channels; a model of two writers
inside a frame once the code orders them.

## 3. `Sond`: the capture control of the server

One step is one access to the shared atomics or to the device table, with the
thread-local work up to the next one.  `dpc`, `pc[c]` and `wd[c]` say where
the dispatch thread, capture thread `c` and the watchdog of `c` are.

| TLA+ | code |
| --- | --- |
| `active`, `stop`, `running`, `first`, `fired` | the five atomics, `main.cpp:22-26` |
| `listed` | `g_devices` holds the configured device |
| `held`, `cap`, `pending` | locals `s`, `cap`, `pending` of `handle_client` |
| `dpc` in `reap*`, with `ret` | the lambda `reap()` and its two callers |
| `mode`, `fd`, `dev`, `session`, `reason` | locals of `run_capture`; `fd[c]` says whether the descriptor number still is that of the connection the capture was started on |
| `deaf` | the captures whose driver ignores `sr_session_stop` |
| `peer`, `inbox` | the client's end and its unread messages |
| `owed`, `told` | ghost state: a START not answered yet; the captures whose SESSION_META this connection carried |
| `up` | FALSE once undefined behaviour has ended the process |

Actions are named after the handler they are part of: `RecvX` (a case of the
switch), `Reap...`, `Cap...`, `Wd...`; `PROJECT.json` maps each to its lines.
A START is three steps (`RecvStart`, `reap()`, `Spawn`) and the capture raises
`g_capture_running` in its own first step (`CapEnter`), not in the handler.

Abstractions.  Time: the three seconds of `reap()` and the cap of the watchdog
may pass at any moment.  Data: samples, channels, decoders and JSON are left
out; a CONFIG is a mode, no device, or malformed.  Error returns before
`sr_session_new` share one exit.  libsigrok is external: `SessionStop` does
nothing before `sr_session_start` and after the run; on a destroyed session it
does nothing or ends the process, and so does the use of a device instance a
rescan has freed (`CapCrash`, at any step of a capture that has it), or a scan that fills `g_devices` while a capture thread
searches it.  A write to a client that does not read is a driver that does not
stop (`deaf`).  A slot of `Captures` whose thread has returned is used again.

`Patient` restricts the client: TRUE means it sends no START while a START of
its own is unanswered.  Scans and rescans it sends at any time, as sonview does,
whose Rescan button is enabled whenever it is connected.  sonview mostly is
patient: its button reads Stop from Start to the end; but Stop before
SESSION_META followed by Start sends a second START.  So the properties that
need patience are checked for it, those that do not for any client.

A rescan between START and the first statement of `run_capture` finds
`g_capture_running` down and frees the device the capture is about to open:
`DeviceInUse`, that this never happens, is violated, by a patient client too
(`v_rescan` below).  What the code does guarantee is `RescanSpares`: the capture
that loses its device is the one the client has just started; a thread that
outlived its connection and is still inside its driver never does, because it is
detached only with `g_capture_running` raised and no other thread lowers that.

`ReasonHonest` is about captures the server itself cut short (STOP, watchdog,
end of the connection): the return of `sr_session_run` is ignored
(`capture.cpp:448`), so that a run the device broke off is `complete` too.

### Runs

| run | instance | result |
| --- | --- | --- |
| `sond_patient` | 2 slots, every message, inbox 1, patient | `TypeOK`, `AtMostOneCapture`, `ReclaimedAtAccept`, `ReasonHonest`, `RescanSpares` hold (1.3 million states) |
| `sond_any` | 2 slots, START/STOP/SCAN/CONFIG, any client | `RunningIsRaised`, `ActiveIsAlive`, `WatchdogJoined` hold (2.7 million states) |
| `sond_live` | 1 slot, patient, `FairSpec` | `Reclaims`, `WatchdogEnds`, `StopEnds`, `TeardownTerminates` hold |

Bounds.  Two slots are enough for a detached and an attached capture, or two
attached ones in a row; the overlap of two is what the invariants are about,
and the proofs cover any number.  One unread message lets STOP, START and the
disconnect meet every step, since the client may send again as soon as it is
read.  The liveness run has one slot: every formula of it is about the attached
capture.  `sond_any` and `sond_live` leave out
RESCAN and bad CONFIGs, which `sond_patient` has; the proofs of the safety
properties are for any messages.

Fairness.  Weak fairness of the dispatch thread, of each capture thread and of
each watchdog: the operating system schedules them.  None for the client, for
data or for the end of a run by itself: a trigger may never fire.  A driver
that is not deaf ends a run it was asked to stop.

### Where the code departs from what is said of it

Each of these configurations checks one sentence of the documentation, and TLC
finds it violated.  `v_start`, on which a Repeat run stops for good, is listed
in `PROJECT.json` as a run; the others are started by hand,
`tlc -config MCSond_<configuration>.cfg MCSond`.

| configuration | claim | what happens |
| --- | --- | --- |
| `v_accept` | `AcceptsAgain` | the client leaves between START and the first statement of `run_capture`; `reap()` reads `g_capture_running` FALSE and joins without bound; no client is accepted while the trigger does not fire |
| `v_stop` | `StopEndsCapture` | STOP before the session is published or started is forgotten |
| `v_start` (run `sond_start_dropped`) | `StartBegins` | START right after CAPTURE_END `complete` is dropped, because the guard has not cleared `g_capture_running`; Repeat waits for ever |
| `v_fresh` | `FreshAfterDetach` | after a detach, START is dropped while the stuck thread lives |
| `v_watchdog` | `WatchdogForceStops` | detaching clears `g_active_session`, which ends the watchdog of the stuck capture |
| `v_meta` | `MetaPrecedesData` | a detached capture sends on a descriptor number that now is the next client's |
| `v_running` | `RunningToTheEnd` | with overlapping captures the first to return clears the flag of the other |
| `v_rescan` | `DeviceInUse`, `docs/UX-AUDIT.md:54` | a rescan right after START frees the device the capture is about to open |

`Reclaims` and `StopEnds` are the parts of the first two promises that do hold:
once the capture thread has entered `run_capture`, respectively
`sr_session_run`.

## 4. `Acquisition`: how the client takes and shows captures

One step is one handler of the RX thread (with the server step that sends the
message) or one action of the UI thread, unless the other thread can see the
middle of it.  It sees these, and each of their stores is an action:

- the first data of an acquisition, `commit_pending_capture`: recorded, the frame
  is in `hand` (`RecvData`); the logic store is emptied (`CommitReset`), then the
  annotations (`CommitAnns`), then the analog stores with `meta_` under `m_`
  (`CommitMeta`), then `record_` and the marker under `rec_m_` (`CommitRecord`);
  then the frame is appended (`AppendData`).  Later data is recorded and
  appended, two steps;
- CAPTURE_END: `capturing_` is lowered (`RecvEnd`) before
  `swap_buffers_on_end` replaces `meta_` (`SwapBegin`), `record_` (`SwapRecord`),
  the marker (`SwapMarker`) and stores `live_idx_` (`SwapLive`); then the UI
  thread is told (`Tell`);
- `start_capture` raises `run_active_` after it has sent START (`StartSent`,
  `StartDone`).

`rpc` is the RX thread's place.  In between the user may press anything, the
render loop draws, and Save copies `record_`; the connection cannot be closed
there, because a disconnect joins the thread.  The handlers of SESSION_META and
TRIGGER are one step each: the UI thread sees their stores only one at a time.

| TLA+ | code |
| --- | --- |
| `buf`, `live`, `fill`, `swapPending`, `fillMeta` | the two `CaptureBuf`s and their indices, `app.h:120-134` |
| `metaPending`, `pendingMeta` | the deferred start: nothing is wiped before the first data |
| `meta`, `marker`, `staged` | `meta_`, the trigger marker and the staged trigger; the number of an acquisition stands for its metadata and its trigger |
| `rec` | `record_`, `pending_record_`, `pending_rec_active_`, `record_truncated_` |
| `run`, `repeat`, `triggered`, `window`, `redecoding` | UI state; `window` is `pending_window_ # 0` |
| `ctrl`, `toServer` | `ctrl_`, and START and DECODE_REQ on their way |
| `srv`, `acq`, `decoding` | sond, external: its capture thread and its decode session |

`Recorded(f)` is `record_frame`, `Committed` what commit and swap make
of the side buffer.  Frames are reduced to type, acquisition and number; all
have one size, and the recording holds `RecordCap` of them.  The rolling
window, channel order and view are left out; `HasLogic` is `count() >
first_live()`.  STOP has no effect of its own, since `RecvEnd` may happen at
any time.  `Acts` selects what users and environment do, `Calm` restricts the
user: no Start or Re-decode between START and its answer.

`Display` is the abstract specification, with the middles: the samples drawn are
those of one acquisition and grow; a newer one replaces it by emptying the screen
(`Clear`), replacing the metadata over an empty screen or, in a swap, over the
samples of the earlier one (`Label`), and bringing its samples (`Bring`).  That
the acquisition brought is the one labelled, that none is left half done and that
nothing else touches the screen is the refinement.  That there are no middles
(`SwapIsAtomic`) is what a comment says, and is violated (`v_atomic` below).

`RecordMatches` is about what Save writes at any of these steps: always one
acquisition, its metadata first, then its samples in order and without a gap, up
to the cap; in the middle of a commit or a swap it may be another than the one
drawn (`SavesShown` below), otherwise it is the same, except for a frame that is
recorded and not yet appended (`hand`).

`RunIsLive` is about `run_active_`, on which the button and Repeat depend: if it
is raised, a START, a capture or an unseen CAPTURE_END is there to lower it.  The
exceptions are the ghost variable `stranded`: since the last START the connection
was lost, or `sond` dropped that START because its last capture had not quite
ended (`sond_start_dropped` seen from the client), or the mode was changed to
continuous in a run of Repeat, after which a complete capture neither arms the
next nor ends the run.

| run | instance | result |
| --- | --- | --- |
| `acq_any` | 3 acquisitions of up to 2 logic or analog frames, Repeat, both modes, a server slow to end a capture, lost and closed connections, impatient user | `TypeOK`, `ShowsOneAtATime` (refines `Display`), `NoBlink`, `RunIsLive` hold (3.5 million states) |
| `acq_calm` | 3 acquisitions of up to 2 logic and analog frames, Repeat, triggers, one connection | `RecordMatches` holds (720 000 states) |
| `acq_redecode` | 2 acquisitions, 2 re-decodes, a server slow to end a capture, `FairSpec` | `AnnsBelong`, `RedecodeEnds` hold (54 000 states) |

Bounds.  Two acquisitions make a swap, the third shows what a swap leaves
behind; two frames tell the commit from what follows, and a store that has one
kind of samples left from one that is empty; one START in flight is
all a calm user has, two are needed for an impatient one.  A recording of
three or four frames is cut off both before and after the commit.  `ctrl_` holds one or two
messages: the UI thread drains it in every frame.

Fairness.  The render loop handles `ctrl_` and finishes what it began, the RX
thread finishes its handlers, sond takes messages and ends a re-decode.  None
for users, triggers, samples or the connection.

Why some runs are narrow.  `RecordMatches` does not survive a
connection that ends in a Repeat run, nor `RedecodeEnds` any that ends, and
`AnnsBelong` needs a calm user who does not repeat; the table below says how.
The theorems of section 9 name exactly these acts in their hypotheses and allow
all others, so they reach further than the runs: `AnnsBelong`, for one, is
proved over lost connections.

### Where the code departs from what is said of it

As in section 3: `tlc -config MCAcquisition_<configuration>.cfg MCAcquisition`.

| configuration | claim | what happens |
| --- | --- | --- |
| `v_marker` | `MarkerOnScreen` | the trigger of an acquisition without data is shown with the next one: `staged_has_trigger_` is never lowered |
| `v_armed` | `ArmedUntouched` | arming removes the marker of the capture on the screen |
| `v_stop` | `StopEndsRun` | Stop between START and SESSION_META sends no STOP, and the acquisition begins |
| `v_halfdrawn` | `NoHalfDrawn` | data that overtakes `run_active_ = true` is drawn over the previous acquisition |
| `v_swapsin` | `SwapsIn` | analog-only acquisitions of a Repeat run are never shown |
| `v_publish` | `PublishesOwn` | after a disconnect during a hidden fill, the next CAPTURE_END without data publishes the torso and empties the recording |
| `v_saved` | `AnnsSaved` | a saved file has other annotations than the screen after a re-decode |
| `v_anns` | `AnnsBelong` | a re-decode pressed while a START is on its way annotates the new acquisition; with Repeat one pressed between CAPTURE_END and the swap does the same |
| `v_redecode` | `RedecodeEnds` | a disconnect during a re-decode disables the button for good |
| `v_atomic` | `SwapIsAtomic`, `app.cpp:374-375` | between the stores of a swap the old samples are drawn with the new metadata |
| `v_atomic`, with `SavesShown` in its place | `app.cpp:356-357` | Save between `record_` and `live_idx_` of a swap, or between the reset of the store and `record_` of a commit, writes another acquisition than the one drawn |
| `v_atomic`, with `TruncationTold`, `MaxFrames` and `RecordCap` 2 | a cut recording is reported | a hidden acquisition that outgrows the recording is saved cut off, without notice |

## 5. `LogicStore` and its neighbours: the buffers

`LogicStore` is the single-writer store of the logic samples.  A step of the RX
thread is one sample, one freed chunk or one critical section; a step of a walk
is one block of its top level, of `copy_raw` one chunk.  A sample is the level
of one channel.

| TLA+ | code |
| --- | --- |
| `chunks`, `word`, `flags` | `chunks_`, their contents, the cells of `BitPyramid` |
| `writtenEnd`, `count`, `firstLive`, `maxSamples`, `full`, `gaps` | the fields of the same names |
| `lock` | `reclaim_mtx_`: `trim` and `reset` hold it alone, `walk` shares it, `copy_raw` does not take it |
| `frame`, `wpc` | the locals of `append`, and where the RX thread is |
| `view`, `upc` | a walk or a copy of the UI thread with its result |
| `lost`, `dropped`, `resets` | ghost: samples that never came, samples beyond the capacity, a bound |

`PrefixStore` is the abstract specification: a run of samples that grows at its
end, is forgotten from its start, and of which a walk reports every edge and no
other.  `ImplementsPrefix` is the refinement, with the samples from `first_live_`
to `count_` as the abstract data.

`AnalogStore` has the min/max cells and `envelope`, whose two loads the writer
can separate; `job` is where the loops of `append()` are, the samples or a cell of
a level, and `NextCell` what comes then.  `AnnotationStore` has rows with add, trim
and visit.  `Vcd` is the k-way merge of `export_vcd`: `unwritten` has the edges of
each channel from `pos` on, and a round of the loop writes the earliest.  `Measure`
is the cached measurement between the last two markers, with the test and the walk
as two steps of a frame and the RX thread between them; `Integrated` is the loop
over the edges, one record per sample.

`stores` checks all five (2.3 million states).  Chunks of 2 samples, 3 of them,
two pyramid levels, windows 0 and 2, frames of up to 2 samples, one reset, lost
frames and one sample beyond the capacity: a chunk is reused, a trim frees part
of what a walk or a copy is in, and the store fills up.  Analog cells of 2 and 4
samples in a store of 5 (frames of two samples) give a last cell that is not full; three annotations
in one row of four times give late arrivals, nesting and trims of a part of the
dead; two wires of four samples give edges that coincide; three samples and two
markers give intervals with two edges, beyond the end and below the window.
Nothing in these parts has to happen, so no fairness is assumed.

## 6. `Connection`, `Devices`, `DecodedTable`: the client around a capture

`Connection` has one action per access to what the UI thread and the RX thread
share: `do_connect` and `do_disconnect` are `UiClose`, `UiJoin`, `UiSpawn` or
`UiReset`; the RX thread connects, raises `connected_`, sends HELLO, receives,
and lowers the flags (`Lower`, `Lost`).  Opening a file is a disconnect and then
`UiReplay`: its frames go through `process_rx_message` on the UI thread, where a
SESSION_META raises `capturing_`, and a file saved in the middle of a capture has
no CAPTURE_END to lower it.  `StaysOffline` and `StatusHonest` therefore say that
while the client is not connected `capturing_` can have come from such a file
only (ghost `replayed`); that this happens at all, and lasts, are two claims of
section 8.  Closing the window is the same disconnect (`Quit`), after which there
is no frame.  `up` and `sock` are the server and the
descriptor; `offline`, `cut` and `replayed` are ghost.  The module has no constants: TLC
checks all of it.

Fairness in `Connection`.  Weak for the steps of both threads (the operating
system schedules them) and for the end of an attempt (it has a timeout of 4 s);
strong for `Retry`, since frames go on while the cooldown counts down, and for
`ConnectSucceeds`: a server that is up answers one of infinitely many attempts.
None for users, losses or the server.

`Devices` has what sonview remembers of devices: the live setups, the stash
`device_prefs_`, the settings file, and SCAN_RESULT, which merges a new list
into them.  The process may be killed at any step, also between `fopen` and
`fclose`; a file that cannot be opened for writing (`app.cpp:255`) is not a case.  `SetupKept` names its exceptions: a device unplugged while its choice
was in the table only, and a kill.  `DecodedTable` is the cache of the
annotation table; its fairness is that frames are drawn, and nobody has to type.

`client` checks the three (470 000 states): two devices, two setups, two rates;
three annotations of two texts, a cooldown of two frames (30 in the code: what
matters is that annotations come while it runs) and a second decode.

## 7. `Decode` and `I2s`

`Decode` follows a re-decode through both programs: `start_redecode` frame by
frame in the UI thread, the dispatch thread of `sond` with its decode session,
`ann_cb` and `flush_anns`, the RX thread of the client.  Both directions are
bounded pipes and a send waits for room.  libsigrokdecode is external: a setup
may fail, and a run of samples may yield up to `MaxPerFeed` annotations in each
row; `flush_anns` sends one message per row, in the order of its map.  Fairness is weak for
the three threads.  `StreamEnds` is the absence of deadlock between a client
that only sends and a server that only answers: the RX thread makes room.

`I2s` is the decoder as a step per edge of WS or of the clock, with a
transmitter of each format as its environment; `WordsRoundTrip` says the words
put out are the words sent.  The word size is given, its detection (`wordsize`
0) is left out.  In `decode` a Philips transmitter pads its slots by
at least one clock, because of the finding below.

`decode` (310 000 states): three samples in chunks of two, pipes of one message,
batches of one annotation where a block brings two, two requests, one decoder; words
of two bits, one clock of padding, three slots.

## 8. Where stores, client and decoder depart from what is said of them

The runs `i2s_philips` and `stores_measure` are findings in `PROJECT.json`.  The
others are started by hand: `tlc -config <configuration>.cfg <module>`, or, where
no configuration is named, with the property put into the `.cfg` of the passing
run.

| configuration | claim | what happens |
| --- | --- | --- |
| `MCDecode_v_philips` (run `i2s_philips`) | `WordsRoundTrip`, `pd.py:4-7` | slots without padding: the last bit of a word comes after the WS edge and is thrown away |
| `MCStores_v_measure` (run `stores_measure`) | `MeasFresh`, `app.h:267` | a swap to a capture of the same length leaves the old numbers |
| `MCStores`, `FullIsTrue` | `stores.h:43` | a reset store still says it is full: `full_` is not cleared by `reset` |
| `MCStores`, `CopySafe` | `chunked.h:3` | a chunk is freed under a copy that does not hold the lock |
| `MCStores_v_visit` | `VisitComplete`, `stores.h:157` | an annotation that contains a shorter one is not drawn |
| `MCStores`, `EnvelopeExact` | `pyramid.h:7` | an envelope counts cells not written yet as zero |
| `MCStores`, `TimescaleExact` | `export.cpp:136` | the period is rounded to a picosecond |
| `MCClient`, `SetupSurvivesRescan` | `README.md:113` | unplug, rescan, plug in and rescan: the setup last stashed comes back, not the last one chosen |
| `MCClient`, `ConnectNeverFreezes` | `app.cpp:415-417` | opening a file or quitting waits for a pending connect |
| `MCClient`, `CapturingIsReceived` | a capture runs only while there is a connection | a file that was saved in the middle of a capture leaves `capturing_` raised, and the panel reads Stop with nothing connected |
| `MCClient`, `ReplayEnds` (as a PROPERTY) | what a file raises comes down | the flag stays, over a later connection too, until a capture of it begins and ends |
| `MCClient`, `DisconnectFrees` | the server is free after a disconnect | a connect that succeeds while it is cut short leaves its socket open |
| `MCClient`, `TableFresh` | the table shows the annotations | a new decode with the same total is not copied |
| `MCDecode`, `NeverMixed` | `app.cpp:721-724` | an ERROR about another request ends a decode, and the next one meets its annotations |
| `MCDecode`, `DecodeOver` | a re-decode ends | a lost connection leaves `redecoding_` raised |

Properties that hold and are not in the runs' lists, to be checked the same way:
`WindowBounded` of `LogicStore`, `TrimSound` of `AnnotationStore`, `AttemptEnds`;
and, proved in section 9, `WalkHoldsChunks` and `TypeOK` of `LogicStore`,
`DevTypeOK`, `ConnTypeOK`, `JoinIsShort`, `DisconnectCloses`, `DecTypeOK`,
`Labelled`, `QuietWhenOver`.

Hazards of the code that no property covers, beyond those `PROJECT.json` lists
with a note: `server_info_` is cleared by the RX thread while it may be drawn
(`app.cpp:443`); `chan_order_` is filled by one thread and reordered by the
other (`app.cpp:330`); the pointer to an `AnalogStore` outlives its lock
(`app.cpp:974`); a session is stopped after it was destroyed (`main.cpp:389`,
which `Sond` includes as the end of the process); analog stores are not trimmed
in rolling mode; a windowed capture that reaches 2^32 samples drops the rest
without a word (`app.cpp:530`); one long annotation keeps a row from being
trimmed (`stores.cpp:302`); a decoder without annotation rows gets a row no
DECODER_INFO announces (`capture.cpp:108`).

## 9. Proofs

### `Sond_proofs`

`Sond_proofs` proves every invariant of the first two runs for any set of
captures, any messages and any inbox bound; `CapturesAssumption` and
`RequestsAssumption` are the assumptions used.

- `TypeCorrect`: `TypeOK`, with the flags apart (`FlagsCorrect`).
- Any client: `ThreadInv` is `RunningIsRaised`, `ActiveIsAlive`,
  `WatchdogJoined` together with what makes them inductive; three theorems
  (`RunningRaised`, `ActiveAlive`, `WatchdogGone`) follow.
- A patient client: `PatientInv` (in `Sond`) says why one capture at a time is
  enough of a guard.  `InboxInv`: a START or a rescan in the inbox means the
  attached capture has sent its CAPTURE_END.  `DispatchInv`: when `reap()`
  returns to the START handler no capture thread is alive, because the thread
  it detaches has `g_capture_running` raised and then START would not have got
  there.  `CaptureInv`: a thread that is not attached is inside the guard.
  `AtMostOneCapture` alone is not inductive: that a thread spawned by START is
  the only one follows from the other two.  Theorems `SingleCapture`,
  `ReclaimedOnAccept`, and `RescansSpare`, a step property: a rescan gets past
  the test of `g_capture_running` only when no thread is inside the guard, and one
  that is not attached is.
- `ReasonInv` adds that whoever asks a session to stop has set a flag that
  `CapReport` reads, and that START resets `g_stop_requested` only when no
  capture is alive: `HonestReason`.

### `Acquisition_proofs`

For any bounds, kinds of samples, `Acts` and user; the assumptions used are
`BoundsAssumption` and `KindsAssumption`.

- `TypeCorrect`: `TypeOK`, in three parts: flags, data, recording (with its
  cap).
- Lemmas sort the steps by what they leave alone: `Quiet` (users, server,
  losses) changes neither the buffers nor the recording, `Remark` (messages
  without samples) the recording only, and every invariant then has one case for
  each of the other steps of the RX thread (`StepCases`).
- `HandCorrect`: `HandInv`, what the thread has in hand at each place of its
  handlers.
- `ScreenCorrect`: `ScreenInv`, at every store of a commit and a swap.  The
  refinement is not inductive by itself: that a swap brings a newer acquisition
  follows from what the commit stored, that data goes to the right acquisition
  from the fact that after the commit `fillMeta` is the acquisition the server is
  sending, and in the middle of a commit the samples left over are still those of
  the metadata left over, or gone.
- `OneAtATime`: `Spec => ShowsOneAtATime`, each step of `Acquisition` is a step
  of `Display` or a stutter.
- `SideBuffer` and `HiddenFill`: as long as a swap is pending the side buffer
  is open, hence `NoBlink`.
- `AnnotationsBelong`, for a calm user who does not repeat (with either, the
  property is false: `v_anns`): `AnnsBelong`, over lost and closed connections
  and a server of any speed.  The invariant `Asking` says what the two ends may
  be about while a re-decode is under way: no START is, so no commit can move
  `meta_` between the request and its last annotation.
- `RunStaysLive`: `RunIsLive`, with no hypothesis.  What is carried (`RunInv`)
  counts the moment between START and `run_active_ = true` as a run already (the
  whole acquisition may go by in it), and says that a run without a connection is
  one of the exceptions and that `capturing_` is raised only while an acquisition
  streams, so that the re-arming test of CAPTURE_END can rely on it.
- `RecordingMatches`, where connections do not end in a Repeat run
  (`v_publish`): `RecordMatches`, for any number of frames, cap and kind of
  samples.  `Filling` says which buffer and which recording the stream goes to;
  `Aside` what the side buffer holds, from SESSION_META over the commit to the
  swap: the samples of the buffer being filled and the one in hand (`Within`), up
  to the last one sent unless it is full (`Reaches`); `Kept` the same of the
  recording that is saved.  Lemmas on `Extended` say what a frame more does to
  `Within` and `Reaches`.

### `LogicStore_proofs`

For any chunk size, number of chunks, pyramid levels, windows and frames; the
assumptions are `StoreAssumption` and `BlockAssumption` (blocks of a level lie
within blocks of the next, which powers of one base satisfy).

- `StoreTypeCorrect`: `TypeOK`.
- `WalksAreExact`, `WalksHoldChunks`: `WalkExact` is not inductive.  What carries
  it is `Closed` (a flagged block has flagged blocks above it, which the early
  exit of `set_transition` relies on), `Flagged` (every edge between live samples
  is flagged at every level, before it is published) and `Walks` (what a walk has
  found so far are the edges up to its cursor, and `Locks` keeps the trimmer out).
- `CopiesAreFaithful`: `Clean` (a slot not in use is zero, and so is a hole) and
  `Copies`, as far as the cursor.
- `NothingIsForgotten`: `Known`, `Missing`, `Overflow` and `Kept` say which
  samples have come, fell off the end, and lie in which chunk.
- `StoreIsPrefix`: `Spec => ImplementsPrefix`.  A trim and a `reset` are a Forget
  where they take the lock, a sample becomes part of the run where `count_` is
  published, the last block of a walk is the Report; every other step stutters.
  The Report needs `WalkExact`, and that the run cannot grow or be forgotten
  inside a walk's window.
- Lemmas on `\div` come first: they are facts about blocks and slots, stated
  once.

### `Connection_proofs`

`Connection` has no constants, so TLC covers it; the proofs say why.  `Threads`
relates the places of the two threads to `joinable`, `Quiet` says that a thread
that is being joined has nothing left to raise, `Attempts` ties `connecting` to
an attempt, and a replay runs only with the RX thread joined.
`ConnTypeCorrect`, `OneThread`, `HonestStatus`, `OfflineStays`,
`ShortJoin`, `ClosedAfterDisconnect` follow.

### `Devices_proofs`

For any devices, setups and rates; `DevicesAssumption` says that there is a
default setup and that "none" is not a device, a setup or a file.
`SetupKept` is about what the user chose, which a ghost variable remembers; it
is inductive only together with where the program holds it: `Selection` (only
the device selected can have a choice that is in the table alone), `Stashed`
(every other choice is in `device_prefs_`, unless it was dropped by unplugging)
and `Written` (the settings file has every choice but those made since it was
written).  `SetupIsKept` and
`StashIsKept` follow, and with `Leaving`, on a clean exit, the action property
`QuitRestores` (`QuitIsRestored`).

### `Decode_proofs`

For any number of samples, chunk size, pipe and batch sizes, annotation rows
and requests, with connections that may be lost at every step and errors at any
time; the assumptions are `SizesAssumption` and `RowsAssumption`.  The
properties are about decodes that no ERROR has ended (`refused`; what happens
otherwise is `NeverMixed` in section 8).

- `DecodeTypes`: `DecTypeOK`.  Lemmas on the pipes (what a receive and a send
  leave of a queue) come first.
- `Ends`, `Numbered`: which ends of the connection are open, and that no number
  on its way or in a session is beyond the last request.
- `Delivery`: the annotations due are, row by row, those shown, then those in
  the pipe to the client, then those in the batch, in this order.  It is stated
  by positions, so that no induction over a queue is needed.
- `Phase`: where the last request and its answer are: nowhere, in the pipe to
  `sond`, in a session that has consumed a prefix of the samples, in an END or
  ERROR behind which nothing comes, or gone with the connection.  `OneDecode` and
  `CompleteAtEnd` are each about one of these phases and not inductive without
  the others: that an END comes behind all the annotations rests on the order of
  the samples in one pipe (`Sending`) and of the annotations in the other.
- Theorems `OneDecodeOnly`, `CompleteWhenTold`, `QuietAfterwards`; and with
  `InLanes` (annotations come in rows DECODER_INFO announced) `AllLabelled`.

### `Stores_proofs` and `Readouts_proofs`

These five modules compute over data: minima of cells of cells, binary searches, a
merge, an integral over edges, slots of bits.  What would be an induction over the data is here a
least counterexample: `Least` (from the well-foundedness of `<` on `Nat`) gives the
first number at which a claim fails, and the claim at the one before contradicts
it.  A recursive function is first shown to exist (`Recursion`, `BlocksExist`,
`UptoExists`), because a definition `f[x] == ...` is a CHOOSE until then.

`AnalogStore`, for any capacity, fan-out, number of levels and integer samples
(`AnalogAssumption`; floats are compared only, so any order would do):

- `AnalogTypes`: `AnalogTypeOK`, the invariant's first part, in the same induction.
- `Order` says that samples are written and published as they were sent and that
  between them are lost ones only; `InRange` that `append()` is at a cell its samples
  are in.
- `Cover`: a published sample lies between the minimum and the maximum of its cell
  at every level, and so does one that is being appended at the cells `append()` has
  passed (`Passed`), half of it at the cell in between its two stores.  The step of a
  parent cell needs that its child that holds the sample was stored before, which is
  the order of the two loops.
- `Drawing`: what the render thread has loaded spans what was published when it
  began.  `EnvelopesCover` is read off from it.  It rests on `Cover`: a cell
  may be overwritten between the two loads, but by values that again span everything
  published.

`AnnotationStore`, for any rows, times and threshold (`AnnotationAssumption`):

- `AnnotationInvariant`: `AnnInv`, by rows (`RowOK`): sorted by start, nothing twice,
  nothing that was not added, and everything that ends inside the window.
- `VisitsAreExact`: `lower_bound` finds the least index because the row is sorted;
  the backup stops too early only if an annotation contains a later one, which
  `Unnested` excludes; that the length is the number of elements comes from a
  bijection.

`Vcd`, for any wires, levels, window and rates (`VcdAssumption`: no rate above the
finest unit, where the period would round to 0 and times could not rise):

- `Ticks` is positive because the timescale divides the period.
- `Written`: there are rising samples, the window's first and then edges, whose levels
  are the entries of the dump, and no edge up to the last of them is left.  With
  it `Close` finds every edge written, and a reader is at the last entry of a
  wire before the sample, between which and the sample the level is flat (`Flat`).
  `DumpsReplay` follows.

`Measure`, for any markers, captures and samples (`MeasAssumption`):

- `IntegratedIs`: the time high summed up over the edges, with the rest after the
  last one, is the number of samples high.
- `Wanted`, `Cached`, `Shown`: what a frame has tested, cached and shown.  `Cached` is
  about the capture the lines come from (`of`), not the one on the screen, and
  appends keep it because the lines are for the count they are cached under
  (`CountedStays`).  `MeasurementsAreTrue` follows.

`I2s`, for any word size, padding and number of slots (`I2sAssumption`):

- `SlotIs`: in every format `_emit_slot` cuts the word out of the slot the transmitter
  sends, wherever the padding is (`LeftIs`, `RightIs`, `DelayedIs`).
- `InSlot`: the bits collected, followed by those still to come, are the slot of the one
  word that is missing.  A clock moves a bit from one to the other (`Clocked`), and at the
  edge nothing is to come.  `InFrame` says the same of PCM, where the words are counted
  off and both, the second or none of a frame is missing.
- `DecodedWords` follows.  Its hypothesis, that a Philips transmitter pads its slots, is
  what the finding `i2s_philips` shows to be needed.  What a string of bits is worth
  (`Number`) is never expanded: the claim is that the same bits arrive in the same
  order.

### Only model-checked

The liveness properties (they need fairness and ENABLED): `Reclaims`,
`WatchdogEnds`, `StopEnds`, `TeardownTerminates`, `RedecodeEnds`, `Reconnects`,
`JoinEnds`, `TableSettles`, `StreamEnds`, `DecodeAnswered`.  Every safety property
of a passing run is proved.  The violated formulas have counterexamples, not proofs.

## 10. Slips

The modules contain altered forms of some actions, each marked as a mutant next
to the one it alters (in `Sond` and `Acquisition` in sections of their own): a dropped guard, a
missing reset, a join that became a detach.  Each breaks the property it is
listed with in `PROJECT.json`, which shows that the property depends on that
line of the code.

## 11. Not modelled

HELLO and DECODERS_REQ (no state); the bytes of a frame, so that two writers
meeting between header and payload are not seen; drawing, view and scope; the
JSON of messages and settings; the `.sr` and CSV formats; zstd; build scripts,
tools, tests and vendored code.  `save_capture` and `load_capture` replay frames
through handlers that are modelled, offline and without a second thread.  The
deletion of an `AnalogStore` under a reader and the lines of analog channels in
the measurements are left out.
