----------------------------- MODULE Connection -----------------------------
(***************************************************************************)
(* The connection of sonview to a server (client/src/app.cpp, net.cpp): the *)
(* UI thread with Connect, Disconnect, the retry after a loss and the       *)
(* disconnect that quitting implies; opening a file, which disconnects and  *)
(* then replays the file through the message handler of the RX thread; and  *)
(* the RX thread, which makes the connection and then becomes the receive   *)
(* loop.  A step is one access to what the two share.                       *)
(*                                                                         *)
(* The server and the network are external: an attempt may succeed while    *)
(* the server is up and may always fail; an open connection may end.  The   *)
(* three seconds between two retries may pass at any frame.                 *)
(***************************************************************************)
EXTENDS Naturals

VARIABLES
    up,         \* the server accepts connections
    sock,       \* fd_: "none" is -1, "open", or "dead" once the peer is gone
    connected, capturing,
    connState,  \* conn_state_: "idle", "connecting", "failed"
    connLost, rxStop,
    auto,       \* auto_reconnect_
    joinable,   \* rx_thread_.joinable()
    wpc,        \* where the RX thread is, "none" when there is none
    upc,        \* where the UI thread is in do_connect, do_disconnect, load_capture
    goal,       \* for which of the buttons
    offline,    \* ghost: do_disconnect has returned, no connect since
    cut,        \* ghost: it interrupted a pending attempt
    replayed,   \* ghost: a SESSION_META of a file raised capturing_
    aborted     \* a joinable thread was assigned over: std::terminate

flags == << connected, capturing, connState, connLost, rxStop >>
ghost == << offline, cut, replayed, aborted >>
vars  == << up, sock, flags, auto, joinable, wpc, upc, goal, ghost >>

Trying == {"connect", "raise"}                   \* before connected_ is raised
Online == {"forget", "hello", "loop", "recv"}    \* while it is
Ending == {"lower", "lost"}                      \* rx_loop() after its loop

Init ==
    /\ up \in BOOLEAN /\ sock = "none"
    /\ connected = FALSE /\ capturing = FALSE /\ connState = "idle"
    /\ connLost = FALSE /\ rxStop = FALSE /\ auto \in BOOLEAN
    /\ joinable = FALSE /\ wpc = "none" /\ upc = "frame" /\ goal = "none"
    /\ offline = FALSE /\ cut = FALSE /\ replayed = FALSE /\ aborted = FALSE

-----------------------------------------------------------------------------
(* The UI thread.                                                          *)

\* do_connect() and its guard.
BeginConnect ==
    /\ upc = "frame" /\ ~connected /\ connState # "connecting"
    /\ rxStop' = TRUE
    /\ upc' = "close" /\ goal' = "connect" /\ offline' = FALSE
    /\ UNCHANGED << up, sock, connected, capturing, connState, connLost, auto,
                    joinable, wpc, cut, replayed, aborted >>

\* The Connect button, or --connect in the first frame.
PressConnect == BeginConnect

\* A mutant: a failed attempt is not followed by another.
RetryOnce == connLost /\ auto /\ connState = "idle" /\ BeginConnect

\* draw_ui(): the retry after an unexpected loss.
Retry == connLost /\ auto /\ BeginConnect

\* do_disconnect(): the button asks for connected_, opening a file and
\* quitting do not.
BeginDisconnect(g) ==
    /\ upc = "frame"
    /\ rxStop' = TRUE
    /\ upc' = "close" /\ goal' = g
    /\ cut' = (connState = "connecting")
    /\ UNCHANGED << up, sock, connected, capturing, connState, connLost, auto,
                    joinable, wpc, offline, replayed, aborted >>

PressDisconnect == connected /\ BeginDisconnect("disconnect")

\* ~App(), when the window is closed.
Quit            == BeginDisconnect("quit")

\* load_capture(), once the file is open and its magic is right (before that it
\* returns and changes nothing).
OpenFile        == BeginDisconnect("open")

\* A mutant: the descriptor is left alone, the thread is to notice rx_stop_.
UiCloseNot ==
    /\ upc = "close"
    /\ upc' = "join"
    /\ UNCHANGED << up, sock, flags, auto, joinable, wpc, goal, ghost >>

\* Client::close() wakes a receive that waits on the descriptor.
UiClose ==
    /\ upc = "close"
    /\ sock' = "none" /\ upc' = "join"
    /\ UNCHANGED << up, flags, auto, joinable, wpc, goal, ghost >>

\* A mutant: a finished thread is not joined.
UiJoinOnlyRunning ==
    /\ upc = "join" /\ (joinable => wpc = "none")
    /\ upc' = IF goal = "connect" THEN "spawn" ELSE "reset"
    /\ UNCHANGED << up, sock, flags, auto, joinable, wpc, goal, ghost >>

UiJoin ==
    /\ upc = "join" /\ (joinable => wpc = "none")
    /\ joinable' = FALSE
    /\ upc' = IF goal = "connect" THEN "spawn" ELSE "reset"
    /\ UNCHANGED << up, sock, flags, auto, wpc, goal, ghost >>

\* The end of do_connect(): assigning over a joinable thread would terminate.
UiSpawn ==
    /\ upc = "spawn"
    /\ rxStop' = FALSE /\ connState' = "connecting"
    /\ aborted' = joinable
    /\ joinable' = TRUE /\ wpc' = "connect"
    /\ upc' = "frame" /\ goal' = "none"
    /\ UNCHANGED << up, sock, connected, capturing, connLost, auto, offline, cut, replayed >>

\* Where do_disconnect() returns to.
AfterReset == CASE goal = "open" -> "replay" [] goal = "quit" -> "gone" [] OTHER -> "frame"

\* A mutant: conn_lost_ stays.
UiResetKeepsLost ==
    /\ upc = "reset"
    /\ connected' = FALSE /\ capturing' = FALSE /\ connState' = "idle"
    /\ offline' = TRUE /\ replayed' = FALSE
    /\ upc' = AfterReset /\ goal' = "none"
    /\ UNCHANGED << up, sock, connLost, rxStop, auto, joinable, wpc, cut, aborted >>

\* The end of do_disconnect().
UiReset ==
    /\ upc = "reset"
    /\ connected' = FALSE /\ capturing' = FALSE /\ connState' = "idle"
    /\ connLost' = FALSE /\ offline' = TRUE /\ replayed' = FALSE
    /\ upc' = AfterReset /\ goal' = "none"
    /\ UNCHANGED << up, sock, rxStop, auto, joinable, wpc, cut, aborted >>

\* The rest of load_capture(): the frames of the file go through
\* process_rx_message() on the UI thread, the only one there is.  A file saved in
\* the middle of a capture holds a SESSION_META and no CAPTURE_END.
UiReplay ==
    /\ upc = "replay"
    /\ capturing' \in BOOLEAN /\ replayed' = capturing'
    /\ upc' = "frame"
    /\ UNCHANGED << up, sock, connected, connState, connLost, rxStop, auto,
                    joinable, wpc, goal, offline, cut, aborted >>

\* The Auto-reconnect box.
ToggleAuto ==
    /\ upc = "frame"
    /\ auto' = ~auto
    /\ UNCHANGED << up, sock, flags, joinable, wpc, upc, goal, ghost >>

-----------------------------------------------------------------------------
(* The RX thread.                                                          *)

Shared == << up, auto, joinable, upc, goal, ghost >>

\* Client::connect() fails.
ConnectFails ==
    /\ wpc = "connect"
    /\ sock' = "none" /\ connState' = "failed" /\ wpc' = "none"
    /\ UNCHANGED << Shared, connected, capturing, connLost, rxStop >>

\* It succeeds: fd_ is set, whatever the UI thread has asked for meanwhile.
ConnectSucceeds ==
    /\ wpc = "connect" /\ up
    /\ sock' = "open" /\ wpc' = "raise"
    /\ UNCHANGED << Shared, flags >>

\* connected_, conn_lost_ and conn_state_ are written one after the other.
Raise ==
    /\ wpc = "raise"
    /\ connected' = TRUE /\ wpc' = "forget"
    /\ UNCHANGED << Shared, sock, capturing, connState, connLost, rxStop >>

Forget ==
    /\ wpc = "forget"
    /\ connLost' = FALSE /\ wpc' = "hello"
    /\ UNCHANGED << Shared, sock, connected, capturing, connState, rxStop >>

\* A mutant: the attempt is never declared over.
HelloKeepsState ==
    /\ wpc = "hello"
    /\ wpc' = "loop"
    /\ UNCHANGED << Shared, sock, flags >>

\* HELLO, SCAN_REQ and DECODERS_REQ follow; they fail silently.
Hello ==
    /\ wpc = "hello"
    /\ connState' = "idle" /\ wpc' = "loop"
    /\ UNCHANGED << Shared, sock, connected, capturing, connLost, rxStop >>

\* rx_loop(): rx_stop_ ends it at the next message.
LoopTest ==
    /\ wpc = "loop"
    /\ IF rxStop THEN connected' = FALSE /\ wpc' = "lower"
                 ELSE connected' = connected /\ wpc' = "recv"
    /\ UNCHANGED << Shared, sock, capturing, connState, connLost, rxStop >>

\* A message: SESSION_META raises capturing_, CAPTURE_END lowers it, the others
\* leave it alone.
Receive ==
    /\ wpc = "recv" /\ sock = "open"
    /\ \/ capturing' \in BOOLEAN /\ replayed' = FALSE
       \/ UNCHANGED << capturing, replayed >>
    /\ wpc' = "loop"
    /\ UNCHANGED << up, auto, joinable, upc, goal, offline, cut, aborted,
                    sock, connected, connState, connLost, rxStop >>

\* recv() fails: the descriptor was closed, or the peer is gone.
ReceiveFails ==
    /\ wpc = "recv" /\ sock # "open"
    /\ connected' = FALSE /\ wpc' = "lower"
    /\ UNCHANGED << Shared, sock, capturing, connState, connLost, rxStop >>

Lower ==
    /\ wpc = "lower"
    /\ capturing' = FALSE /\ replayed' = FALSE /\ wpc' = "lost"
    /\ UNCHANGED << up, auto, joinable, upc, goal, offline, cut, aborted,
                    sock, connected, connState, connLost, rxStop >>

\* A loss nobody asked for.
Lost ==
    /\ wpc = "lost"
    /\ connLost' = (connLost \/ ~rxStop) /\ wpc' = "none"
    /\ UNCHANGED << Shared, sock, connected, capturing, connState, rxStop >>

-----------------------------------------------------------------------------
(* The server and the network.                                             *)

ServerDies ==
    /\ up /\ up' = FALSE
    /\ sock' = IF sock = "open" THEN "dead" ELSE sock
    /\ UNCHANGED << flags, auto, joinable, wpc, upc, goal, ghost >>

ServerReturns ==
    /\ ~up /\ up' = TRUE
    /\ UNCHANGED << sock, flags, auto, joinable, wpc, upc, goal, ghost >>

Ui  == \/ PressConnect \/ Retry \/ PressDisconnect \/ Quit \/ OpenFile \/ ToggleAuto
       \/ UiClose \/ UiJoin \/ UiSpawn \/ UiReset \/ UiReplay
Rx  == \/ ConnectFails \/ ConnectSucceeds \/ Raise \/ Forget \/ Hello
       \/ LoopTest \/ Receive \/ ReceiveFails \/ Lower \/ Lost
Env == ServerDies \/ ServerReturns

Next == Ui \/ Rx \/ Env

Spec == Init /\ [][Next]_vars

\* Both threads are scheduled, an attempt ends (its timeout), the frames of the
\* UI thread count the cooldown down, and a server that is up answers one of
\* infinitely many attempts.  Nothing is asked of the user or of the server.
Fairness ==
    /\ WF_vars(UiClose) /\ WF_vars(UiJoin) /\ WF_vars(UiSpawn) /\ WF_vars(UiReset)
    /\ WF_vars(UiReplay)
    /\ SF_vars(Retry)
    /\ WF_vars(ConnectFails \/ ConnectSucceeds) /\ SF_vars(ConnectSucceeds)
    /\ WF_vars(Raise) /\ WF_vars(Forget) /\ WF_vars(Hello) /\ WF_vars(LoopTest)
    /\ WF_vars(ReceiveFails) /\ WF_vars(Lower) /\ WF_vars(Lost)

FairSpec == Spec /\ Fairness

-----------------------------------------------------------------------------
(* Properties.                                                             *)

ConnFlagsOK ==
    /\ up \in BOOLEAN /\ connected \in BOOLEAN /\ capturing \in BOOLEAN
    /\ connLost \in BOOLEAN /\ rxStop \in BOOLEAN /\ auto \in BOOLEAN
    /\ joinable \in BOOLEAN
    /\ offline \in BOOLEAN /\ cut \in BOOLEAN /\ replayed \in BOOLEAN /\ aborted \in BOOLEAN

ConnPlacesOK ==
    /\ sock \in {"none", "open", "dead"}
    /\ connState \in {"idle", "connecting", "failed"}
    /\ wpc \in {"none"} \cup Trying \cup Online \cup Ending
    /\ upc \in {"frame", "close", "join", "spawn", "reset", "replay", "gone"}
    /\ goal \in {"none", "connect", "disconnect", "open", "quit"}

\* The values every variable may take.
ConnTypeOK == ConnFlagsOK /\ ConnPlacesOK

\* There is one RX thread, joined before the next is made: a thread that has
\* left its loop by itself is still joinable, and assigning over it would end
\* the program.
OneRxThread == /\ ~aborted
               /\ upc \in {"spawn", "reset", "replay", "gone"} => wpc = "none"

\* After an explicit disconnect nothing the RX thread was about to write shows
\* up: no connection, no attempt, no retry until the user asks, and no capture
\* but the one of a file that has been opened since.
StaysOffline ==
    offline => /\ ~connected /\ ~connLost /\ connState = "idle"
               /\ capturing => replayed

\* What the panel says is what the RX thread is doing, whichever thread wrote
\* last: `connected' exactly while it receives, `connecting' (which disables
\* the Connect button) exactly while an attempt is under way, and `capturing'
\* (which makes the Start button a Stop button) only while it receives, or for
\* what the last opened file left behind: no flag of a session outlives it.
StatusHonest ==
    /\ connected <=> wpc \in Online
    /\ connState = "connecting" <=> wpc \in Trying \cup {"forget", "hello"}
    /\ capturing => replayed \/ wpc \in Online \cup {"lower"}

\* The UI thread waits for the network only when a disconnect cuts a pending
\* attempt short.
JoinIsShort == upc = "join" /\ wpc = "connect" => cut

\* The UI thread never waits for the network (app.cpp:415-417).
ConnectNeverFreezes == ~(upc = "join" /\ wpc = "connect")

\* The panel says that a capture runs only while there is a connection: not so
\* after opening a file that was saved in the middle of one.
CapturingIsReceived == capturing => wpc \in Online \cup {"lower"}

\* The flag of a capture is lowered when its source is done: a file leaves it up,
\* over a later connection too, and the panel then offers no Start.
ReplayEnds == replayed ~> ~replayed

\* A disconnect leaves no descriptor behind, unless it cut an attempt short.
DisconnectCloses == offline /\ upc \in {"frame", "replay", "gone"} /\ ~cut => sock = "none"

\* A disconnect leaves no connection behind, so that the server is free.
DisconnectFrees == offline /\ upc = "frame" => sock # "open"

\* With a server that stays up and the box ticked, a connection that broke is
\* made again by itself, over any number of failed attempts, unless the user
\* goes offline or presses Connect before the loss is noted: no order of the
\* flags the two threads write loses the retry.
Reconnects ==
    <>[](up /\ auto) =>
        (connected /\ sock = "dead" ~> \/ connected /\ sock = "open"
                                       \/ offline
                                       \/ upc = "close" /\ ~connLost)

\* The Connect button does not stay disabled.
AttemptEnds == connState = "connecting" ~> connState # "connecting"

\* do_connect, do_disconnect and load_capture return, and the program can quit: the
\* RX thread they wait for always ends.
JoinEnds == upc = "join" ~> upc \in {"frame", "gone"}
=============================================================================
