-------------------------------- MODULE Sond --------------------------------
(***************************************************************************)
(* The capture control of sond, the server: the accept/dispatch thread      *)
(* (server/src/main.cpp), the capture threads it spawns and the watchdog    *)
(* thread of each capture (server/src/capture.cpp).  They share five        *)
(* atomics and the device table; every step below is one access to that     *)
(* shared state together with the thread-local work up to the next one.     *)
(*                                                                         *)
(* A capture is named by the slot of the thread that runs it.  A slot whose *)
(* thread has returned and is no longer attached may be used again, so the  *)
(* number of captures in a behaviour is not bounded.                        *)
(*                                                                         *)
(* Time is abstracted: the three seconds of reap() and the cap of the       *)
(* watchdog may elapse at any step.  libsigrok is external; the session     *)
(* states below are its documented contract as capture.cpp relies on it.    *)
(***************************************************************************)
EXTENDS Naturals, Sequences

CONSTANTS
    Captures,   \* slots for capture threads
    NoCapture,  \* the null session pointer, and the non-joinable std::thread
    Requests,   \* the messages clients send
    MaxInbox,   \* bound: unread messages in the server's socket buffer
    Patient     \* TRUE: the client sends no START while a START of its own is
                \* unanswered; scans, rescans and stops it sends at any time

ASSUME CapturesAssumption  == NoCapture \notin Captures
ASSUME MaxInboxAssumption  == MaxInbox \in Nat \ {0}
ASSUME PatientAssumption   == Patient \in BOOLEAN

VARIABLES
    \* the process
    up,         \* FALSE once undefined behaviour has killed the process
    active,     \* g_active_session
    stop,       \* g_stop_requested
    running,    \* g_capture_running
    first,      \* g_first_data
    fired,      \* g_watchdog_fired
    listed,     \* ~g_devices.empty(), and the configured device is in it
    \* the dispatch thread: handle_client and its reap() lambda
    dpc,        \* where it is
    ret,        \* where reap() returns to: "spawn" or "close"
    held,       \* its local `s`, loaded from g_active_session
    cap,        \* its local `cap`, the joinable capture thread
    pending,    \* its local `pending`, reduced to the mode (or no device)
    \* the capture threads: run_capture
    pc, mode, fd, dev, session, reason,
    deaf,       \* the captures whose driver ignores sr_session_stop
    \* the watchdog threads
    wd,
    \* the connection
    peer,       \* the client end of the accepted connection is open
    inbox,      \* messages from the client not read yet
    owed,       \* a START of the patient client is in flight or not answered yet
    told        \* the captures whose SESSION_META this connection carried

glob  == << up, active, stop, running, first, fired, listed >>
disp  == << dpc, ret, held, cap, pending >>
thr   == << pc, mode, fd, dev, session, deaf, reason, wd >>
net   == << peer, inbox >>
view  == << owed, told >>
vars  == << glob, disp, thr, net, view >>

-----------------------------------------------------------------------------
(* Values.                                                                 *)

\* What a CONFIG asks for: a capture on a device the server does not know
\* (CaptureCfg::device_id defaults to -1), or a mode.
Modes == {"nodevice", "triggered", "continuous"}

Message == [type : {"CONFIG"}, arg : Modes \cup {"malformed"}]
             \cup [type : {"START", "STOP", "SCAN", "RESCAN"}, arg : {"none"}]

ASSUME RequestsAssumption == Requests \subseteq Message

DispatchPC == {"accept", "recv", "rescan", "stopLoad", "stopCall", "reap",
               "reapLoad", "reapCall", "reapPoll", "reapCheck", "reapClear",
               "reapJoin", "spawn", "close"}

\* run_capture after g_capture_running was set and before it is cleared ...
Preparing == {"lookup", "open", "configure"}
Published == {"arm", "start", "run", "unpublish"}
Ending    == {"join", "report"}
EndSent   == {"destroy", "closedev", "leave"}
Guarded   == Preparing \cup {"publish", "fail"} \cup Published \cup Ending \cup EndSent
\* ... "spawned" before, "done" after.
CapturePC == Guarded \cup {"spawned", "done"}

SessionState == {"none", "new", "started", "stopping", "ended", "cut", "destroyed"}
WatchdogPC   == {"none", "armed", "timing", "firing", "stopping", "done"}

Live(c)    == pc[c] # "done"
InGuard(c) == pc[c] \in Guarded

\* between sr_dev_open and sr_dev_close
HasDevice(c) == pc[c] \in {"configure", "publish"} \cup Published \cup Ending
                            \cup {"destroy", "closedev"}

-----------------------------------------------------------------------------
(* sr_session_stop(s), external: it asks a started session to stop; before  *)
(* sr_session_start and after the run it does nothing.  A destroyed         *)
(* session is freed memory: the call does nothing or kills the process.     *)
SessionStop(s) ==
    /\ session' = IF session[s] = "started"
                    THEN [session EXCEPT ![s] = "stopping"] ELSE session
    /\ up' \in IF session[s] = "destroyed" THEN BOOLEAN ELSE {TRUE}

(* CAPTURE_END answers the START of the present client when it is sent on    *)
(* its connection.  A capture that outlived its connection still holds the  *)
(* number of a closed descriptor, which accept() gives to the next client.  *)
SendEnd(c) == owed' = (owed /\ fd[c] # "own")

-----------------------------------------------------------------------------
(* Where a thread is, and where it goes.                                   *)

At(l) == up /\ dpc = l   \* the dispatch thread is at l
Goto(c, from, to) == up /\ pc[c] = from /\ pc' = [pc EXCEPT ![c] = to]   \* a capture thread
WdGoto(c, from, to) == up /\ wd[c] = from /\ wd' = [wd EXCEPT ![c] = to]   \* a watchdog

\* `while (son_recv(fd, m)) switch (m.hdr.type)': the head of the inbox is m.
Receive(t) ==
    /\ At("recv")
    /\ inbox # << >>
    /\ Head(inbox).type = t
    /\ inbox' = Tail(inbox)

-----------------------------------------------------------------------------
(* Slips: forms of the actions below that a change to the code could         *)
(* introduce.  No behaviour of Spec uses them; each one breaks a property.  *)

\* A CONFIG that failed to parse replaces the pending configuration.
RecvConfigUnchecked ==
    /\ Receive("CONFIG")
    /\ pending' = Head(inbox).arg
    /\ UNCHANGED << glob, dpc, ret, held, cap, thr, peer, view >>

\* SCAN_REQ re-enumerates whether or not a capture runs.
RecvRescanUnguarded ==
    /\ Receive("RESCAN")
    /\ dpc' = "rescan"
    /\ UNCHANGED << glob, ret, held, cap, pending, thr, peer, view >>

\* START does not look at g_capture_running and relies on reap().
RecvStartUnguarded ==
    /\ Receive("START")
    /\ dpc' = "reap"
    /\ ret' = "spawn"
    /\ UNCHANGED << glob, held, cap, pending, thr, peer, view >>

\* STOP stops the session and leaves g_stop_requested alone.
RecvStopForgets ==
    /\ Receive("STOP")
    /\ dpc' = "stopLoad"
    /\ UNCHANGED << glob, ret, held, cap, pending, thr, peer, view >>

\* reap() detaches even a thread that has not raised g_capture_running.
ReapCheckDetaches ==
    /\ At("reapCheck")
    /\ cap' = NoCapture
    /\ dpc' = "reapClear"
    /\ UNCHANGED << glob, ret, held, pending, thr, net, view >>

\* reap() joins whatever the poll saw.
ReapCheckJoins ==
    /\ At("reapCheck")
    /\ dpc' = "reapJoin"
    /\ UNCHANGED << glob, ret, held, cap, pending, thr, net, view >>

\* The session is not published, so that nobody can stop it.
CapPublishMissing(c) ==
    /\ Goto(c, "publish", "arm")
    /\ UNCHANGED << glob, disp, mode, fd, dev, session, deaf, reason, wd, net, view >>

\* The session stays published while it is torn down.
CapUnpublishMissing(c) ==
    /\ Goto(c, "unpublish", "join")
    /\ UNCHANGED << glob, disp, mode, fd, dev, session, deaf, reason, wd, net, view >>

\* The watchdog is detached, not joined.
CapJoinDetaches(c) ==
    /\ Goto(c, "join", "report")
    /\ UNCHANGED << glob, disp, mode, fd, dev, session, deaf, reason, wd, net, view >>

\* A return path without the RunGuard.
CapLeaveUnguarded(c) ==
    /\ Goto(c, "leave", "done")
    /\ UNCHANGED << glob, disp, mode, fd, dev, session, deaf, reason, wd, net, view >>

\* The armed watchdog waits for data and not for the end of the session.
WdFirstDataOnly(c) ==
    /\ first
    /\ WdGoto(c, "armed", "timing")
    /\ UNCHANGED << glob, disp, pc, mode, fd, dev, session, deaf, reason, net, view >>

\* The watchdog only raises its flag.
WdStopFlagOnly(c) ==
    /\ WdGoto(c, "stopping", "done")
    /\ UNCHANGED << glob, disp, pc, mode, fd, dev, session, deaf, reason, net, view >>

-----------------------------------------------------------------------------
(* The client, and TCP.                                                    *)

Connect ==   \* run_server: accept(), then handle_client's locals
    /\ At("accept")
    /\ dpc' = "recv"
    /\ cap' = NoCapture
    /\ pending' = "nodevice"
    /\ peer' = TRUE
    /\ inbox' = << >>
    /\ owed' = FALSE
    /\ UNCHANGED << glob, ret, held, thr, told >>

ClientSend(m) ==
    /\ up
    /\ peer
    /\ Len(inbox) < MaxInbox
    /\ (Patient /\ owed) => m.type # "START"
    /\ inbox' = Append(inbox, m)
    /\ owed' = (owed \/ (Patient /\ m.type = "START"))
    /\ UNCHANGED << glob, disp, thr, peer, told >>

\* The client closes.  What it sent before is still read, or is lost when the
\* connection was reset.
Disconnect ==
    /\ up
    /\ peer
    /\ peer' = FALSE
    /\ inbox' \in {inbox, << >>}
    /\ UNCHANGED << glob, disp, thr, view >>

-----------------------------------------------------------------------------
(* The dispatch thread.                                                    *)

RecvConfig ==   \* an exception leaves `pending' as it was
    /\ Receive("CONFIG")
    /\ pending' = IF Head(inbox).arg = "malformed" THEN pending ELSE Head(inbox).arg
    /\ UNCHANGED << glob, dpc, ret, held, cap, thr, peer, view >>

\* g_devices is filled without a lock: find_device of a capture thread that
\* has just been spawned may read it meanwhile.
Enumerate ==
    /\ listed' \in BOOLEAN
    /\ up' \in IF \E c \in Captures : pc[c] \in {"spawned", "lookup"} THEN BOOLEAN ELSE {TRUE}

ScanTable == IF listed THEN UNCHANGED << listed, up >> ELSE Enumerate

RecvScan ==   \* scan_devices(false): enumerates once
    /\ Receive("SCAN")
    /\ ScanTable
    /\ UNCHANGED << active, stop, running, first, fired, disp, thr, peer, view >>

RecvRescan ==   \* scan_devices(true): the test of g_capture_running ...
    /\ Receive("RESCAN")
    /\ IF running
         THEN ScanTable /\ UNCHANGED dpc
         ELSE dpc' = "rescan" /\ UNCHANGED << listed, up >>
    /\ UNCHANGED << active, stop, running, first, fired,
                    ret, held, cap, pending, thr, peer, view >>

Rescan ==   \* ... then sr_dev_clear on every driver, and the new enumeration
    /\ At("rescan")
    /\ dpc' = "recv"
    /\ dev' = [c \in Captures |-> IF dev[c] = "valid" THEN "freed" ELSE dev[c]]
    /\ Enumerate
    /\ UNCHANGED << active, stop, running, first, fired, ret, held, cap, pending,
                    pc, mode, fd, session, deaf, reason, wd, net, view >>

RecvStartIgnored ==   \* already capturing: the START is consumed, no reply
    /\ Receive("START")
    /\ running
    /\ owed' = FALSE
    /\ UNCHANGED << glob, disp, thr, peer, told >>

RecvStart ==
    /\ Receive("START")
    /\ ~running
    /\ dpc' = "reap"
    /\ ret' = "spawn"
    /\ UNCHANGED << glob, held, cap, pending, thr, peer, view >>

Spawn ==   \* g_stop_requested = false; cap = std::thread(run_capture)
    /\ At("spawn")
    /\ \E c \in Captures :
         /\ ~Live(c)
         /\ cap' = c
         /\ pc' = [pc EXCEPT ![c] = "spawned"]
         /\ mode' = [mode EXCEPT ![c] = pending]
         /\ fd' = [fd EXCEPT ![c] = "own"]
         /\ session' = [session EXCEPT ![c] = "none"]
    /\ stop' = FALSE
    /\ dpc' = "recv"
    /\ ret' = "close"
    /\ UNCHANGED << up, active, running, first, fired, listed,
                    held, pending, dev, deaf, reason, wd, net, view >>

RecvStop ==
    /\ Receive("STOP")
    /\ stop' = TRUE
    /\ dpc' = "stopLoad"
    /\ UNCHANGED << up, active, running, first, fired, listed,
                    ret, held, cap, pending, thr, peer, view >>

StopLoad ==
    /\ At("stopLoad")
    /\ held' = active
    /\ dpc' = IF active = NoCapture THEN "recv" ELSE "stopCall"
    /\ UNCHANGED << glob, ret, cap, pending, thr, net, view >>

StopCall ==
    /\ At("stopCall")
    /\ SessionStop(held)
    /\ held' = NoCapture
    /\ dpc' = "recv"
    /\ UNCHANGED << active, stop, running, first, fired, listed, ret, cap,
                    pending, pc, mode, fd, dev, deaf, reason, wd, net, view >>

Eof ==   \* son_recv fails: client gone
    /\ At("recv")
    /\ ~peer
    /\ inbox = << >>
    /\ dpc' = "reap"
    /\ ret' = "close"
    /\ UNCHANGED << glob, held, cap, pending, thr, net, view >>

Close ==   \* run_server: close(fd); the number of the descriptor is free again
    /\ At("close")
    /\ dpc' = "accept"
    /\ fd' = [c \in Captures |-> "closed"]
    /\ told' = {}
    /\ UNCHANGED << glob, ret, held, cap, pending, pc, mode, dev, session, deaf,
                    reason, wd, net, owed >>

(* reap(): stop the attached capture and reclaim its thread.               *)

ReapBegin ==
    /\ At("reap")
    /\ IF cap = NoCapture
         THEN dpc' = ret /\ UNCHANGED stop
         ELSE dpc' = "reapLoad" /\ stop' = TRUE
    /\ UNCHANGED << up, active, running, first, fired, listed,
                    ret, held, cap, pending, thr, net, view >>

ReapLoad ==
    /\ At("reapLoad")
    /\ held' = active
    /\ dpc' = IF active = NoCapture THEN "reapPoll" ELSE "reapCall"
    /\ UNCHANGED << glob, ret, cap, pending, thr, net, view >>

ReapCall ==
    /\ At("reapCall")
    /\ SessionStop(held)
    /\ held' = NoCapture
    /\ dpc' = "reapPoll"
    /\ UNCHANGED << active, stop, running, first, fired, listed, ret, cap,
                    pending, pc, mode, fd, dev, deaf, reason, wd, net, view >>

ReapPolled ==   \* g_capture_running was seen FALSE, or three seconds are over
    /\ At("reapPoll")
    /\ dpc' = "reapCheck"
    /\ UNCHANGED << glob, ret, held, cap, pending, thr, net, view >>

ReapCheck ==   \* still running: detach; otherwise join
    /\ At("reapCheck")
    /\ IF running
         THEN cap' = NoCapture /\ dpc' = "reapClear"
         ELSE dpc' = "reapJoin" /\ UNCHANGED cap
    /\ UNCHANGED << glob, ret, held, pending, thr, net, view >>

ReapClear ==
    /\ At("reapClear")
    /\ active' = NoCapture
    /\ dpc' = ret
    /\ UNCHANGED << up, stop, running, first, fired, listed,
                    ret, held, cap, pending, thr, net, view >>

ReapJoin ==   \* blocks until the thread has returned
    /\ At("reapJoin")
    /\ ~Live(cap)
    /\ cap' = NoCapture
    /\ dpc' = ret
    /\ UNCHANGED << glob, ret, held, pending, thr, net, view >>

-----------------------------------------------------------------------------
(* A capture thread.  CapLeave also drops what was local to run_capture.   *)

CapEnter(c) ==   \* first statement of the thread, not of the START handler
    /\ Goto(c, "spawned", "lookup")
    /\ running' = TRUE
    /\ UNCHANGED << up, active, stop, first, fired, listed, disp,
                    mode, fd, dev, session, deaf, reason, wd, net, view >>

CapLookup(c) ==   \* find_device
    /\ IF listed /\ mode[c] # "nodevice"
         THEN Goto(c, "lookup", "open") /\ dev' = [dev EXCEPT ![c] = "valid"]
         ELSE Goto(c, "lookup", "fail") /\ UNCHANGED dev
    /\ UNCHANGED << glob, disp, mode, fd, session, deaf, reason, wd, net, view >>

\* sr_dev_open, external: it refuses a device another capture has open; on an
\* instance freed by a rescan it fails, works or kills the process (CapCrash).
CapOpen(c) ==
    /\ \/ /\ \A d \in Captures : ~HasDevice(d)
          /\ Goto(c, "open", "configure")
          /\ UNCHANGED dev
       \/ /\ Goto(c, "open", "fail")
          /\ dev' = [dev EXCEPT ![c] = "none"]
    /\ UNCHANGED << glob, disp, mode, fd, session, deaf, reason, wd, net, view >>

\* An access to a device instance that a rescan has freed kills the process, or
\* does not: the thread goes on with its other actions.
CapCrash(c) ==
    /\ up
    /\ dev[c] = "freed"
    /\ up' = FALSE
    /\ UNCHANGED << active, stop, running, first, fired, listed, disp, thr, net, view >>

CapConfigure(c) ==   \* sr_session_new, channels and triggers, SESSION_META
    /\ Goto(c, "configure", "publish")
    /\ session' = [session EXCEPT ![c] = "new"]
    /\ told' = IF dpc = "accept" THEN told ELSE told \cup {c}
    /\ UNCHANGED << glob, disp, mode, fd, dev, deaf, reason, wd, net, owed >>

CapNoSession(c) ==   \* sr_session_new failed: the device is closed again
    /\ Goto(c, "configure", "fail")
    /\ dev' = [dev EXCEPT ![c] = "none"]
    /\ UNCHANGED << glob, disp, mode, fd, session, deaf, reason, wd, net, view >>

CapFail(c) ==   \* fail(): CAPTURE_END {"reason":"error"} without a META
    /\ Goto(c, "fail", "leave")
    /\ SendEnd(c)
    /\ UNCHANGED << glob, disp, mode, fd, dev, session, deaf, reason, wd, net, told >>

CapPublish(c) ==   \* g_active_session = session
    /\ Goto(c, "publish", "arm")
    /\ active' = c
    /\ UNCHANGED << up, stop, running, first, fired, listed, disp,
                    mode, fd, dev, session, deaf, reason, wd, net, view >>

CapArm(c) ==   \* reset the flags, spawn the watchdog unless continuous
    /\ Goto(c, "arm", "start")
    /\ first' = FALSE
    /\ fired' = FALSE
    /\ wd' = [wd EXCEPT ![c] = IF mode[c] = "continuous" THEN "none" ELSE "armed"]
    /\ UNCHANGED << up, active, stop, running, listed, disp,
                    mode, fd, dev, session, deaf, reason, net, view >>

CapStart(c) ==   \* sr_session_start works; `deaf': the driver ignores stops
    /\ Goto(c, "start", "run")
    /\ session' = [session EXCEPT ![c] = "started"]
    /\ deaf' \in {deaf, deaf \cup {c}}
    /\ UNCHANGED << glob, disp, mode, fd, dev, reason, wd, net, view >>

CapStartFails(c) ==
    /\ Goto(c, "start", "unpublish")
    /\ reason' = [reason EXCEPT ![c] = "error"]
    /\ UNCHANGED << glob, disp, mode, fd, dev, session, deaf, wd, net, view >>

CapFeed(c) ==   \* datafeed_cb: SR_DF_LOGIC or SR_DF_ANALOG
    /\ up
    /\ pc[c] = "run"
    /\ first' = TRUE
    /\ UNCHANGED << up, active, stop, running, fired, listed, disp, thr, net, view >>

CapComplete(c) ==   \* sr_session_run returns by itself: the sample limit
    /\ Goto(c, "run", "unpublish")
    /\ session' = [session EXCEPT ![c] = "ended"]
    /\ UNCHANGED << glob, disp, mode, fd, dev, deaf, reason, wd, net, view >>

CapStopped(c) ==   \* sr_session_run returns because of sr_session_stop
    /\ Goto(c, "run", "unpublish")
    /\ session[c] = "stopping"
    /\ c \notin deaf
    /\ session' = [session EXCEPT ![c] = "cut"]
    /\ UNCHANGED << glob, disp, mode, fd, dev, deaf, reason, wd, net, view >>

CapUnpublish(c) ==   \* g_active_session = nullptr
    /\ Goto(c, "unpublish", "join")
    /\ active' = NoCapture
    /\ UNCHANGED << up, stop, running, first, fired, listed, disp,
                    mode, fd, dev, session, deaf, reason, wd, net, view >>

CapJoin(c) ==   \* watchdog.join()
    /\ Goto(c, "join", "report")
    /\ wd[c] \in {"none", "done"}
    /\ wd' = [wd EXCEPT ![c] = "none"]
    /\ UNCHANGED << glob, disp, mode, fd, dev, session, deaf, reason, net, view >>

CapReport(c) ==   \* CAPTURE_END with the reason
    /\ Goto(c, "report", "destroy")
    /\ reason' = [reason EXCEPT ![c] = IF @ = "error" THEN "error"
                                       ELSE IF fired  THEN "timeout"
                                       ELSE IF stop   THEN "stopped"
                                       ELSE "complete"]
    /\ SendEnd(c)
    /\ UNCHANGED << glob, disp, mode, fd, dev, session, deaf, wd, net, told >>

CapDestroy(c) ==   \* sr_session_destroy
    /\ Goto(c, "destroy", "closedev")
    /\ session' = [session EXCEPT ![c] = "destroyed"]
    /\ UNCHANGED << glob, disp, mode, fd, dev, deaf, reason, wd, net, view >>

CapCloseDev(c) ==   \* sr_dev_close
    /\ Goto(c, "closedev", "leave")
    /\ dev' = [dev EXCEPT ![c] = "none"]
    /\ UNCHANGED << glob, disp, mode, fd, session, deaf, reason, wd, net, view >>

CapLeave(c) ==   \* ~RunGuard, on every return path
    /\ Goto(c, "leave", "done")
    /\ running' = FALSE
    /\ mode' = [mode EXCEPT ![c] = "nodevice"]
    /\ fd' = [fd EXCEPT ![c] = "closed"]
    /\ deaf' = deaf \ {c}
    /\ reason' = [reason EXCEPT ![c] = "none"]
    /\ told' = told \ {c}
    /\ UNCHANGED << up, active, stop, first, fired, listed, disp,
                    dev, session, wd, net, owed >>

-----------------------------------------------------------------------------
(* The watchdog of a capture.                                              *)

WdFirst(c) ==   \* the armed phase is not bounded: wait for data or the end
    /\ active # c \/ first
    /\ WdGoto(c, "armed", "timing")
    /\ UNCHANGED << glob, disp, pc, mode, fd, dev, session, deaf, reason, net, view >>

WdExit(c) ==   \* the session is not the active one any more
    /\ active # c
    /\ WdGoto(c, "timing", "done")
    /\ UNCHANGED << glob, disp, pc, mode, fd, dev, session, deaf, reason, net, view >>

WdExpire(c) ==   \* el > cap_s and still active
    /\ active = c
    /\ WdGoto(c, "timing", "firing")
    /\ UNCHANGED << glob, disp, pc, mode, fd, dev, session, deaf, reason, net, view >>

WdFire(c) ==
    /\ WdGoto(c, "firing", "stopping")
    /\ fired' = TRUE
    /\ UNCHANGED << up, active, stop, running, first, listed, disp,
                    pc, mode, fd, dev, session, deaf, reason, net, view >>

WdStop(c) ==
    /\ WdGoto(c, "stopping", "done")
    /\ SessionStop(c)
    /\ UNCHANGED << active, stop, running, first, fired, listed, disp,
                    pc, mode, fd, dev, deaf, reason, net, view >>

-----------------------------------------------------------------------------
Init ==
    /\ up = TRUE
    /\ active = NoCapture
    /\ stop = FALSE /\ running = FALSE /\ first = FALSE /\ fired = FALSE
    /\ listed = FALSE
    /\ dpc = "accept" /\ ret = "close"
    /\ held = NoCapture /\ cap = NoCapture
    /\ pending = "nodevice"
    /\ pc      = [c \in Captures |-> "done"]
    /\ mode    = [c \in Captures |-> "nodevice"]
    /\ fd      = [c \in Captures |-> "closed"]
    /\ dev     = [c \in Captures |-> "none"]
    /\ session = [c \in Captures |-> "none"]
    /\ reason  = [c \in Captures |-> "none"]
    /\ wd      = [c \in Captures |-> "none"]
    /\ peer = FALSE /\ inbox = << >>
    /\ owed = FALSE /\ told = {} /\ deaf = {}

Client ==
    \/ Connect
    \/ \E m \in Requests : ClientSend(m)
    \/ Disconnect

Dispatch ==
    \/ RecvConfig \/ RecvScan \/ RecvRescan \/ Rescan
    \/ RecvStartIgnored \/ RecvStart \/ Spawn
    \/ RecvStop \/ StopLoad \/ StopCall
    \/ Eof \/ Close
    \/ ReapBegin \/ ReapLoad \/ ReapCall \/ ReapPolled
    \/ ReapCheck \/ ReapClear \/ ReapJoin

\* Every step of a capture thread but those that wait for the device.
Capture(c) ==
    \/ CapEnter(c) \/ CapLookup(c) \/ CapOpen(c)
    \/ CapConfigure(c) \/ CapNoSession(c) \/ CapFail(c)
    \/ CapPublish(c) \/ CapArm(c)
    \/ CapStart(c) \/ CapStartFails(c) \/ CapStopped(c)
    \/ CapUnpublish(c) \/ CapJoin(c) \/ CapReport(c)
    \/ CapDestroy(c) \/ CapCloseDev(c) \/ CapLeave(c)

Device(c) == CapFeed(c) \/ CapComplete(c) \/ CapCrash(c)

Watchdog(c) == WdFirst(c) \/ WdExit(c) \/ WdExpire(c) \/ WdFire(c) \/ WdStop(c)

Halted == ~up /\ UNCHANGED vars   \* the process is gone

Next ==
    \/ Client
    \/ Dispatch
    \/ \E c \in Captures : Capture(c) \/ Device(c) \/ Watchdog(c)
    \/ Halted

Spec == Init /\ [][Next]_vars

\* The operating system runs every thread; nothing is assumed of the client,
\* and of the device only that a driver that is not deaf ends a stopped run.
Fairness ==
    /\ WF_vars(Dispatch)
    /\ \A c \in Captures : WF_vars(Capture(c)) /\ WF_vars(Watchdog(c))

FairSpec == Spec /\ Fairness

-----------------------------------------------------------------------------
(* Invariants.                                                             *)

FlagsOK ==
    /\ up \in BOOLEAN /\ stop \in BOOLEAN /\ running \in BOOLEAN
    /\ first \in BOOLEAN /\ fired \in BOOLEAN /\ listed \in BOOLEAN
    /\ peer \in BOOLEAN /\ owed \in BOOLEAN

\* Every variable has its type; `held' and `cap' are null or a capture.
TypeOK ==
    /\ FlagsOK
    /\ told \in SUBSET Captures /\ deaf \in SUBSET Captures
    /\ active \in Captures \cup {NoCapture}
    /\ held   \in Captures \cup {NoCapture}
    /\ cap    \in Captures \cup {NoCapture}
    /\ dpc \in DispatchPC /\ ret \in {"spawn", "close"}
    /\ pending \in Modes
    /\ pc      \in [Captures -> CapturePC]
    /\ mode    \in [Captures -> Modes]
    /\ fd      \in [Captures -> {"own", "closed"}]
    /\ dev     \in [Captures -> {"none", "valid", "freed"}]
    /\ session \in [Captures -> SessionState]
    /\ reason  \in [Captures -> {"none", "error", "timeout", "stopped", "complete"}]
    /\ wd      \in [Captures -> WatchdogPC]
    /\ inbox   \in Seq(Message)

\* g_capture_running is never left raised: while it is TRUE some thread is
\* inside run_capture and will clear it.  Were it left behind on one return
\* path, or by a thread that was detached, every later START would be dropped
\* and no rescan would look for hardware again.
RunningIsRaised == running => \E c \in Captures : InGuard(c)

\* g_active_session never points at a session that is being torn down, however
\* many capture threads and detaches there have been: what the dispatcher or a
\* watchdog loads from it is null or was running at that moment.
ActiveIsAlive == active # NoCapture => pc[active] \in Published

\* The watchdog of a capture is gone before its session is destroyed, so its
\* sr_session_stop never touches freed memory (`Joined before session teardown').
WatchdogJoined ==
    \A c \in Captures : wd[c] # "none" => pc[c] \in {"start", "run", "unpublish", "join"}

\* With a patient client at most one capture thread exists, attached or
\* detached, whatever earlier clients left behind: the START guard reads a flag
\* the thread itself raises, and reap() has to close the gap.
AtMostOneCapture == \A c, d \in Captures : Live(c) /\ Live(d) => c = d

\* When the server waits for a client, a capture thread that survived the last
\* one is detached and visible in g_capture_running, so that the next START and
\* the next rescan leave it alone.
ReclaimedAtAccept ==
    dpc = "accept" => /\ cap = NoCapture
                      /\ \A c \in Captures : Live(c) => InGuard(c) /\ running

\* A capture that was cut short is never reported `complete', the one reason on
\* which sonview's Repeat mode arms again.
ReasonHonest ==
    \A c \in Captures : pc[c] = "destroy" /\ session[c] = "cut" => reason[c] # "complete"

\* A rescan never takes the device from a capture that outlived its connection:
\* such a thread is stuck in its driver, detached, and known to nobody but by
\* g_capture_running.  The one capture that can lose its device is the client's
\* own, in the window before its thread has raised the flag (DeviceInUse below).
RescanSpares ==
    [][\A c \in Captures : dev[c] = "valid" /\ dev'[c] = "freed" => c = cap]_vars

-----------------------------------------------------------------------------
(* Why AtMostOneCapture and RescanSpares hold for a patient client: the      *)
(* inductive invariant the proofs rest on.                                   *)

\* The attached capture has sent its CAPTURE_END.
Answered == cap = NoCapture \/ pc[cap] \in EndSent \cup {"done"}

\* What a patient client leaves in the socket buffer.
InboxInv ==
    /\ \A i \in DOMAIN inbox :
         inbox[i].type = "START" => Answered /\ ret = "close" /\ owed
    /\ \A i, j \in DOMAIN inbox :
         i < j /\ inbox[i].type = "START" => inbox[j].type # "START"
    /\ owed \/ (Answered /\ ret = "close")

\* Where the dispatch thread is, and what it has made sure of.
DispatchInv ==
    /\ ret = "spawn" => dpc \in {"reap", "reapLoad", "reapCall", "reapPoll",
                                 "reapCheck", "reapClear", "reapJoin", "spawn"}
    /\ dpc = "spawn" => ret = "spawn"
    /\ ret = "close" => dpc \in {"accept", "recv", "rescan", "stopLoad", "stopCall"}
                        \/ (~peer /\ inbox = << >>)
    /\ ret = "spawn" => \A c \in Captures : ~Live(c)
    /\ dpc = "rescan" => \A c \in Captures : Live(c) => c = cap
    /\ dpc \in {"accept", "close", "spawn", "reapClear"} => cap = NoCapture

\* What the flag and the device table say of the capture threads.
CaptureInv ==
    /\ AtMostOneCapture
    /\ \A c \in Captures : InGuard(c) => running
    /\ \A c \in Captures : Live(c) /\ c # cap =>
         InGuard(c) /\ (fd[c] = "closed" \/ dpc \in {"reapClear", "close"})
    /\ \A c \in Captures :
         dev[c] # "none" => pc[c] = "open" \/ HasDevice(c)

PatientInv == InboxInv /\ DispatchInv /\ CaptureInv

\* Who asked a session to stop has said so in a flag CapReport reads.
ReasonInv ==
    /\ dpc \in {"stopLoad", "stopCall", "reapLoad", "reapCall"} => stop
    /\ \A c \in Captures :
         /\ wd[c] = "stopping" => fired
         /\ pc[c] \in {"publish", "arm", "start"} => session[c] = "new"
         /\ Live(c) /\ session[c] \in {"stopping", "cut"} => stop \/ fired
    /\ ReasonHonest

-----------------------------------------------------------------------------
(* Liveness.                                                               *)

\* Once its client is gone and its messages are read, the server accepts again
\* within the three seconds of reap(), even if the driver ignores the stop,
\* provided the attached capture has entered run_capture.
Reclaims ==
    (~peer /\ inbox = << >> /\ dpc = "recv" /\ (cap = NoCapture \/ InGuard(cap)))
        ~> (dpc = "accept" \/ ~up)

\* While its connection lasts, a capture whose data phase hangs is stopped by
\* its watchdog (unless the driver ignores the stop).
WatchdogEnds ==
    \A c \in Captures :
        (cap = c /\ wd[c] = "timing" /\ pc[c] = "run")
            ~> (pc[c] # "run" \/ c \in deaf \/ cap # c \/ ~up)

\* STOP ends the attached capture when sr_session_run has been entered.
StopEnds ==
    \A c \in Captures :
        (dpc = "stopLoad" /\ cap = c /\ pc[c] = "run") ~> (pc[c] # "run" \/ c \in deaf \/ ~up)

\* The teardown never waits for a watchdog that waits for it: after
\* sr_session_run the thread joins, reports and returns.
TeardownTerminates ==
    \A c \in Captures : pc[c] = "unpublish" ~> (pc[c] = "done" \/ ~up)

-----------------------------------------------------------------------------
(* What docs and comments say and the code does not keep.                  *)

\* ARCHITECTURE.md: a stuck capture thread is detached so it can never block
\* new client connections.
AcceptsAgain == (~peer /\ dpc = "recv") ~> (dpc = "accept" \/ ~up)

\* PROTOCOL.md: STOP ends a continuous capture.
StopEndsCapture ==
    \A c \in Captures :
        (dpc = "stopLoad" /\ cap = c /\ Live(c) /\ mode[c] = "continuous")
            ~> (~Live(c) \/ c \in deaf \/ ~up)

\* PROTOCOL.md: START begins the configured capture.  So it should when the
\* client's previous one has been reported complete.
StartBegins ==
    [][RecvStartIgnored /\ cap # NoCapture
         => ~(pc[cap] \in EndSent /\ reason[cap] = "complete")]_vars

\* main.cpp: reap() detaches a stuck capture and leaves the server so that a
\* fresh capture can start.
FreshAfterDetach ==
    [][RecvStartIgnored
         => ~ \E c \in Captures \ {cap} : session[c] = "stopping" /\ c \in deaf]_vars

\* README.md: a watchdog force-stops a capture that runs far past its expected
\* duration.
WatchdogForceStops ==
    \A c \in Captures :
        (active = c /\ wd[c] = "timing" /\ pc[c] = "run") ~> (pc[c] # "run" \/ c \in deaf \/ ~up)

\* capture.cpp: SESSION_META must precede any data.  A client gets the samples
\* of a capture whose SESSION_META went to an earlier one, on a descriptor
\* number that was closed and given to it.
MetaPrecedesData ==
    [][\A c \in Captures : CapFeed(c) /\ peer /\ dpc # "accept" => c \in told]_vars

\* UX-AUDIT.md: the server re-enumerates when idle, so a rescan leaves the device
\* of a capture alone.
DeviceInUse == \A c \in Captures : dev[c] # "freed"

\* server.h: g_capture_running is true from capture start to end.
RunningToTheEnd == \A c \in Captures : InGuard(c) => running

=============================================================================
