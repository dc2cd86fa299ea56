-------------------------- MODULE Connection_proofs --------------------------
(***************************************************************************)
(* Proofs about Connection.  The module has no constants: what they show    *)
(* beyond TLC is why the properties hold, for behaviours of any length.     *)
(***************************************************************************)
EXTENDS Connection, TLAPS

\* The flags are Boolean.
LEMMA ConnFlags == Spec => []ConnFlagsOK
<1> USE DEF vars, flags, ghost, Shared
<1>1. Init => ConnFlagsOK
  BY DEF Init, ConnFlagsOK
<1>2. ConnFlagsOK /\ [Next]_vars => ConnFlagsOK'
  <2> SUFFICES ASSUME ConnFlagsOK, [Next]_vars PROVE ConnFlagsOK'
    OBVIOUS
  <2> USE DEF ConnFlagsOK
  <2>1. CASE PressConnect BY <2>1, Zenon DEF PressConnect, BeginConnect
  <2>2. CASE Retry BY <2>2, Zenon DEF Retry, BeginConnect
  <2>3. CASE PressDisconnect BY <2>3, Zenon DEF PressDisconnect, BeginDisconnect
  <2>4. CASE Quit BY <2>4, Zenon DEF Quit, BeginDisconnect
  <2>5. CASE OpenFile BY <2>5, Zenon DEF OpenFile, BeginDisconnect
  <2>6. CASE ToggleAuto BY <2>6, Zenon DEF ToggleAuto
  <2>7. CASE UiClose BY <2>7, Zenon DEF UiClose
  <2>8. CASE UiJoin BY <2>8, Zenon DEF UiJoin
  <2>9. CASE UiSpawn BY <2>9, Zenon DEF UiSpawn
  <2>10. CASE UiReset BY <2>10, Zenon DEF UiReset, AfterReset
  <2>11. CASE UiReplay BY <2>11, Zenon DEF UiReplay
  <2>12. CASE ConnectFails BY <2>12, Zenon DEF ConnectFails
  <2>13. CASE ConnectSucceeds BY <2>13, Zenon DEF ConnectSucceeds
  <2>14. CASE Raise BY <2>14, Zenon DEF Raise
  <2>15. CASE Forget BY <2>15, Zenon DEF Forget
  <2>16. CASE Hello BY <2>16, Zenon DEF Hello
  <2>17. CASE LoopTest BY <2>17, Zenon DEF LoopTest
  <2>18. CASE Receive BY <2>18, Zenon DEF Receive
  <2>19. CASE ReceiveFails BY <2>19, Zenon DEF ReceiveFails
  <2>20. CASE Lower BY <2>20, Zenon DEF Lower
  <2>21. CASE Lost BY <2>21, Zenon DEF Lost
  <2>22. CASE ServerDies BY <2>22, Zenon DEF ServerDies
  <2>23. CASE ServerReturns BY <2>23, Zenon DEF ServerReturns
  <2>24. CASE UNCHANGED vars BY <2>24, Zenon DEF vars
  <2>25. QED
    BY <2>1, <2>2, <2>3, <2>4, <2>5, <2>6, <2>7, <2>8, <2>9, <2>10, <2>11,
       <2>12, <2>13, <2>14, <2>15, <2>16, <2>17, <2>18, <2>19, <2>20, <2>21,
       <2>22, <2>23, <2>24 DEF Next, Ui, Rx, Env
<1>3. QED
  BY <1>1, <1>2, PTL DEF Spec

\* The other variables have their values.
LEMMA ConnPlaces == Spec => []ConnPlacesOK
<1> USE DEF vars, flags, ghost, Shared
<1>1. Init => ConnPlacesOK
  BY DEF Init, ConnPlacesOK, Trying, Online, Ending
<1>2. ConnPlacesOK /\ [Next]_vars => ConnPlacesOK'
  <2> SUFFICES ASSUME ConnPlacesOK, [Next]_vars PROVE ConnPlacesOK'
    OBVIOUS
  <2> USE DEF ConnPlacesOK, Trying, Online, Ending
  <2>1. CASE PressConnect BY <2>1 DEF PressConnect, BeginConnect
  <2>2. CASE Retry BY <2>2 DEF Retry, BeginConnect
  <2>3. CASE PressDisconnect BY <2>3 DEF PressDisconnect, BeginDisconnect
  <2>4. CASE Quit BY <2>4 DEF Quit, BeginDisconnect
  <2>5. CASE OpenFile BY <2>5 DEF OpenFile, BeginDisconnect
  <2>6. CASE ToggleAuto BY <2>6 DEF ToggleAuto
  <2>7. CASE UiClose BY <2>7 DEF UiClose
  <2>8. CASE UiJoin BY <2>8 DEF UiJoin
  <2>9. CASE UiSpawn BY <2>9 DEF UiSpawn
  <2>10. CASE UiReset BY <2>10 DEF UiReset, AfterReset
  <2>11. CASE UiReplay BY <2>11 DEF UiReplay
  <2>12. CASE ConnectFails BY <2>12 DEF ConnectFails
  <2>13. CASE ConnectSucceeds BY <2>13 DEF ConnectSucceeds
  <2>14. CASE Raise BY <2>14 DEF Raise
  <2>15. CASE Forget BY <2>15 DEF Forget
  <2>16. CASE Hello BY <2>16 DEF Hello
  <2>17. CASE LoopTest BY <2>17 DEF LoopTest
  <2>18. CASE Receive BY <2>18 DEF Receive
  <2>19. CASE ReceiveFails BY <2>19 DEF ReceiveFails
  <2>20. CASE Lower BY <2>20 DEF Lower
  <2>21. CASE Lost BY <2>21 DEF Lost
  <2>22. CASE ServerDies BY <2>22 DEF ServerDies
  <2>23. CASE ServerReturns BY <2>23 DEF ServerReturns
  <2>24. CASE UNCHANGED vars BY <2>24 DEF vars
  <2>25. QED
    BY <2>1, <2>2, <2>3, <2>4, <2>5, <2>6, <2>7, <2>8, <2>9, <2>10, <2>11,
       <2>12, <2>13, <2>14, <2>15, <2>16, <2>17, <2>18, <2>19, <2>20, <2>21,
       <2>22, <2>23, <2>24 DEF Next, Ui, Rx, Env
<1>3. QED
  BY <1>1, <1>2, PTL DEF Spec

\* Every variable keeps its type, in behaviours of any length.
THEOREM ConnTypeCorrect == Spec => []ConnTypeOK
BY ConnFlags, ConnPlaces, PTL DEF ConnTypeOK
-----------------------------------------------------------------------------
(* The inductive invariant, in three parts.                                *)

\* What do_disconnect is called for.
Leaving == {"disconnect", "open", "quit"}

\* Where the two threads are: the UI thread makes a thread, or resets the
\* flags, only after it has joined the one there was.
Threads ==
    /\ ~aborted
    /\ wpc # "none" => joinable
    /\ upc \in {"spawn", "reset", "replay", "gone"} => ~joinable /\ wpc = "none"
    /\ upc \in {"close", "join"} => goal # "none"
    /\ upc = "spawn" => goal = "connect"
    /\ upc = "reset" => goal \in Leaving

\* Offline there is no thread left that could write, and none is on its way.
Quiet ==
    /\ offline => /\ wpc = "none" /\ ~connected /\ ~connLost /\ connState = "idle"
                  /\ capturing => replayed
    /\ goal = "connect" => ~offline

\* An attempt the UI thread meets is one that a disconnect interrupts, and
\* without one the descriptor that is closed is the last there is.
Attempts ==
    /\ upc \in {"close", "join"} /\ wpc = "connect" => cut /\ goal \in Leaving
    /\ upc \in {"join", "reset"} /\ goal \in Leaving /\ ~cut =>
           sock = "none" /\ wpc # "connect"
    /\ offline /\ upc \in {"frame", "replay", "gone"} /\ ~cut => sock = "none"

-----------------------------------------------------------------------------

\* The two threads keep out of each other's way.
LEMMA ThreadsInv == Spec => []Threads
<1> USE DEF vars, flags, ghost, Shared
<1>1. Init => Threads
  BY DEF Init, Threads, Leaving, Trying, Online, Ending
<1>2. Threads /\ ConnFlagsOK /\ ConnPlacesOK /\ [Next]_vars => Threads'
  <2> SUFFICES ASSUME Threads, ConnFlagsOK, ConnPlacesOK, [Next]_vars PROVE Threads'
    OBVIOUS
  <2> USE DEF Threads, ConnFlagsOK, ConnPlacesOK, Leaving, Trying, Online, Ending
  <2>1. CASE PressConnect BY <2>1 DEF PressConnect, BeginConnect
  <2>2. CASE Retry BY <2>2 DEF Retry, BeginConnect
  <2>3. CASE PressDisconnect BY <2>3 DEF PressDisconnect, BeginDisconnect
  <2>4. CASE Quit BY <2>4 DEF Quit, BeginDisconnect
  <2>5. CASE OpenFile BY <2>5 DEF OpenFile, BeginDisconnect
  <2>6. CASE ToggleAuto BY <2>6 DEF ToggleAuto
  <2>7. CASE UiClose BY <2>7 DEF UiClose
  <2>8. CASE UiJoin BY <2>8 DEF UiJoin
  <2>9. CASE UiSpawn BY <2>9 DEF UiSpawn
  <2>10. CASE UiReset BY <2>10 DEF UiReset, AfterReset
  <2>11. CASE UiReplay BY <2>11 DEF UiReplay
  <2>12. CASE ConnectFails BY <2>12 DEF ConnectFails
  <2>13. CASE ConnectSucceeds BY <2>13 DEF ConnectSucceeds
  <2>14. CASE Raise BY <2>14 DEF Raise
  <2>15. CASE Forget BY <2>15 DEF Forget
  <2>16. CASE Hello BY <2>16 DEF Hello
  <2>17. CASE LoopTest BY <2>17 DEF LoopTest
  <2>18. CASE Receive BY <2>18 DEF Receive
  <2>19. CASE ReceiveFails BY <2>19 DEF ReceiveFails
  <2>20. CASE Lower BY <2>20 DEF Lower
  <2>21. CASE Lost BY <2>21 DEF Lost
  <2>22. CASE ServerDies BY <2>22 DEF ServerDies
  <2>23. CASE ServerReturns BY <2>23 DEF ServerReturns
  <2>24. CASE UNCHANGED vars BY <2>24 DEF vars
  <2>25. QED
    BY <2>1, <2>2, <2>3, <2>4, <2>5, <2>6, <2>7, <2>8, <2>9, <2>10, <2>11,
       <2>12, <2>13, <2>14, <2>15, <2>16, <2>17, <2>18, <2>19, <2>20, <2>21,
       <2>22, <2>23, <2>24 DEF Next, Ui, Rx, Env
<1>3. QED
  BY <1>1, <1>2, ConnFlags, ConnPlaces, PTL DEF Spec

\* Each flag follows the place of the RX thread.
LEMMA StatusInv == Spec => []StatusHonest
<1> USE DEF vars, flags, ghost, Shared
<1>1. Init => StatusHonest
  BY DEF Init, StatusHonest, Leaving, Trying, Online, Ending
<1>2. StatusHonest /\ Threads /\ ConnFlagsOK /\ ConnPlacesOK /\ [Next]_vars => StatusHonest'
  <2> SUFFICES ASSUME StatusHonest, Threads, ConnFlagsOK, ConnPlacesOK, [Next]_vars PROVE StatusHonest'
    OBVIOUS
  <2> USE DEF StatusHonest, Threads, ConnFlagsOK, ConnPlacesOK, Leaving, Trying, Online, Ending
  <2>1. CASE PressConnect BY <2>1 DEF PressConnect, BeginConnect
  <2>2. CASE Retry BY <2>2 DEF Retry, BeginConnect
  <2>3. CASE PressDisconnect BY <2>3 DEF PressDisconnect, BeginDisconnect
  <2>4. CASE Quit BY <2>4 DEF Quit, BeginDisconnect
  <2>5. CASE OpenFile BY <2>5 DEF OpenFile, BeginDisconnect
  <2>6. CASE ToggleAuto BY <2>6 DEF ToggleAuto
  <2>7. CASE UiClose BY <2>7 DEF UiClose
  <2>8. CASE UiJoin BY <2>8 DEF UiJoin
  <2>9. CASE UiSpawn BY <2>9 DEF UiSpawn
  <2>10. CASE UiReset BY <2>10 DEF UiReset, AfterReset
  <2>11. CASE UiReplay BY <2>11 DEF UiReplay
  <2>12. CASE ConnectFails BY <2>12 DEF ConnectFails
  <2>13. CASE ConnectSucceeds BY <2>13 DEF ConnectSucceeds
  <2>14. CASE Raise BY <2>14 DEF Raise
  <2>15. CASE Forget BY <2>15 DEF Forget
  <2>16. CASE Hello BY <2>16 DEF Hello
  <2>17. CASE LoopTest BY <2>17 DEF LoopTest
  <2>18. CASE Receive BY <2>18 DEF Receive
  <2>19. CASE ReceiveFails BY <2>19 DEF ReceiveFails
  <2>20. CASE Lower BY <2>20 DEF Lower
  <2>21. CASE Lost BY <2>21 DEF Lost
  <2>22. CASE ServerDies BY <2>22 DEF ServerDies
  <2>23. CASE ServerReturns BY <2>23 DEF ServerReturns
  <2>24. CASE UNCHANGED vars BY <2>24 DEF vars
  <2>25. QED
    BY <2>1, <2>2, <2>3, <2>4, <2>5, <2>6, <2>7, <2>8, <2>9, <2>10, <2>11,
       <2>12, <2>13, <2>14, <2>15, <2>16, <2>17, <2>18, <2>19, <2>20, <2>21,
       <2>22, <2>23, <2>24 DEF Next, Ui, Rx, Env
<1>3. QED
  BY <1>1, <1>2, ThreadsInv, ConnFlags, ConnPlaces, PTL DEF Spec

\* Offline stays quiet.
LEMMA QuietInv == Spec => []Quiet
<1> USE DEF vars, flags, ghost, Shared
<1>1. Init => Quiet
  BY DEF Init, Quiet, Leaving, Trying, Online, Ending
<1>2. Quiet /\ Threads /\ StatusHonest /\ ConnFlagsOK /\ ConnPlacesOK /\ [Next]_vars => Quiet'
  <2> SUFFICES ASSUME Quiet, Threads, StatusHonest, ConnFlagsOK, ConnPlacesOK, [Next]_vars PROVE Quiet'
    OBVIOUS
  <2> USE DEF Quiet, Threads, StatusHonest, ConnFlagsOK, ConnPlacesOK, Leaving, Trying, Online, Ending
  <2>1. CASE PressConnect BY <2>1 DEF PressConnect, BeginConnect
  <2>2. CASE Retry BY <2>2 DEF Retry, BeginConnect
  <2>3. CASE PressDisconnect BY <2>3 DEF PressDisconnect, BeginDisconnect
  <2>4. CASE Quit BY <2>4 DEF Quit, BeginDisconnect
  <2>5. CASE OpenFile BY <2>5 DEF OpenFile, BeginDisconnect
  <2>6. CASE ToggleAuto BY <2>6 DEF ToggleAuto
  <2>7. CASE UiClose BY <2>7 DEF UiClose
  <2>8. CASE UiJoin BY <2>8 DEF UiJoin
  <2>9. CASE UiSpawn BY <2>9 DEF UiSpawn
  <2>10. CASE UiReset BY <2>10 DEF UiReset, AfterReset
  <2>11. CASE UiReplay BY <2>11 DEF UiReplay
  <2>12. CASE ConnectFails BY <2>12 DEF ConnectFails
  <2>13. CASE ConnectSucceeds BY <2>13 DEF ConnectSucceeds
  <2>14. CASE Raise BY <2>14 DEF Raise
  <2>15. CASE Forget BY <2>15 DEF Forget
  <2>16. CASE Hello BY <2>16 DEF Hello
  <2>17. CASE LoopTest BY <2>17 DEF LoopTest
  <2>18. CASE Receive BY <2>18 DEF Receive
  <2>19. CASE ReceiveFails BY <2>19 DEF ReceiveFails
  <2>20. CASE Lower BY <2>20 DEF Lower
  <2>21. CASE Lost BY <2>21 DEF Lost
  <2>22. CASE ServerDies BY <2>22 DEF ServerDies
  <2>23. CASE ServerReturns BY <2>23 DEF ServerReturns
  <2>24. CASE UNCHANGED vars BY <2>24 DEF vars
  <2>25. QED
    BY <2>1, <2>2, <2>3, <2>4, <2>5, <2>6, <2>7, <2>8, <2>9, <2>10, <2>11,
       <2>12, <2>13, <2>14, <2>15, <2>16, <2>17, <2>18, <2>19, <2>20, <2>21,
       <2>22, <2>23, <2>24 DEF Next, Ui, Rx, Env
<1>3. QED
  BY <1>1, <1>2, ThreadsInv, StatusInv, ConnFlags, ConnPlaces, PTL DEF Spec

\* Which attempts are interrupted.
LEMMA AttemptsInv == Spec => []Attempts
<1> USE DEF vars, flags, ghost, Shared
<1>1. Init => Attempts
  BY DEF Init, Attempts, Leaving, Trying, Online, Ending
<1>2. Attempts /\ Threads /\ StatusHonest /\ Quiet /\ ConnFlagsOK /\ ConnPlacesOK /\ [Next]_vars => Attempts'
  <2> SUFFICES ASSUME Attempts, Threads, StatusHonest, Quiet, ConnFlagsOK, ConnPlacesOK, [Next]_vars PROVE Attempts'
    OBVIOUS
  <2> USE DEF Attempts, Threads, StatusHonest, Quiet, ConnFlagsOK, ConnPlacesOK, Leaving, Trying, Online, Ending
  <2>1. CASE PressConnect BY <2>1 DEF PressConnect, BeginConnect
  <2>2. CASE Retry BY <2>2 DEF Retry, BeginConnect
  <2>3. CASE PressDisconnect BY <2>3 DEF PressDisconnect, BeginDisconnect
  <2>4. CASE Quit BY <2>4 DEF Quit, BeginDisconnect
  <2>5. CASE OpenFile BY <2>5 DEF OpenFile, BeginDisconnect
  <2>6. CASE ToggleAuto BY <2>6 DEF ToggleAuto
  <2>7. CASE UiClose BY <2>7 DEF UiClose
  <2>8. CASE UiJoin BY <2>8 DEF UiJoin
  <2>9. CASE UiSpawn BY <2>9 DEF UiSpawn
  <2>10. CASE UiReset BY <2>10 DEF UiReset, AfterReset
  <2>11. CASE UiReplay BY <2>11 DEF UiReplay
  <2>12. CASE ConnectFails BY <2>12 DEF ConnectFails
  <2>13. CASE ConnectSucceeds BY <2>13 DEF ConnectSucceeds
  <2>14. CASE Raise BY <2>14 DEF Raise
  <2>15. CASE Forget BY <2>15 DEF Forget
  <2>16. CASE Hello BY <2>16 DEF Hello
  <2>17. CASE LoopTest BY <2>17 DEF LoopTest
  <2>18. CASE Receive BY <2>18 DEF Receive
  <2>19. CASE ReceiveFails BY <2>19 DEF ReceiveFails
  <2>20. CASE Lower BY <2>20 DEF Lower
  <2>21. CASE Lost BY <2>21 DEF Lost
  <2>22. CASE ServerDies BY <2>22 DEF ServerDies
  <2>23. CASE ServerReturns BY <2>23 DEF ServerReturns
  <2>24. CASE UNCHANGED vars BY <2>24 DEF vars
  <2>25. QED
    BY <2>1, <2>2, <2>3, <2>4, <2>5, <2>6, <2>7, <2>8, <2>9, <2>10, <2>11,
       <2>12, <2>13, <2>14, <2>15, <2>16, <2>17, <2>18, <2>19, <2>20, <2>21,
       <2>22, <2>23, <2>24 DEF Next, Ui, Rx, Env
<1>3. QED
  BY <1>1, <1>2, ThreadsInv, StatusInv, QuietInv, ConnFlags, ConnPlaces, PTL DEF Spec

-----------------------------------------------------------------------------
(* The theorems.                                                           *)

\* do_connect (app.cpp) never assigns over a joinable RX thread, and neither it
\* nor do_disconnect writes the flags while that thread still may.
THEOREM OneThread == Spec => []OneRxThread
<1>1. Threads => OneRxThread
  BY DEF Threads, OneRxThread
<1>2. QED
  BY <1>1, ThreadsInv, PTL

\* The status the panel shows is what the RX thread is doing.
THEOREM HonestStatus == Spec => []StatusHonest
BY StatusInv

\* After a disconnect nothing the RX thread was about to write shows up.
THEOREM OfflineStays == Spec => []StaysOffline
<1>1. Quiet => StaysOffline
  BY DEF Quiet, StaysOffline
<1>2. QED
  BY <1>1, QuietInv, PTL

\* The UI thread waits for the network only when a disconnect interrupts an
\* attempt.
THEOREM ShortJoin == Spec => []JoinIsShort
<1>1. Attempts => JoinIsShort
  BY DEF Attempts, JoinIsShort
<1>2. QED
  BY <1>1, AttemptsInv, PTL

\* And only such a disconnect may leave a descriptor open.
THEOREM ClosedAfterDisconnect == Spec => []DisconnectCloses
<1>1. Attempts => DisconnectCloses
  BY DEF Attempts, DisconnectCloses
<1>2. QED
  BY <1>1, AttemptsInv, PTL
=============================================================================
