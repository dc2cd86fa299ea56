----------------------------- MODULE Sond_proofs -----------------------------
(***************************************************************************)
(* Proofs about Sond for every set of capture slots, every inbox bound and  *)
(* every set of requests.                                                   *)
(***************************************************************************)
EXTENDS Sond, TLAPS

\* The flags are Boolean: the atomics of server.h and the flags of the model.
LEMMA FlagsCorrect == Spec => []FlagsOK
<1> USE DEF FlagsOK, vars, glob, disp, thr, net, view, At, Goto, WdGoto, SessionStop, SendEnd
<1>1. Init => FlagsOK
  BY DEF Init
<1>2. FlagsOK /\ [Next]_vars => FlagsOK'
  <2> SUFFICES ASSUME FlagsOK, [Next]_vars PROVE FlagsOK'
    OBVIOUS
  <2>1. CASE Client
    <3>1. CASE Connect BY <3>1, Zenon DEF Connect
    <3>2. ASSUME NEW m \in Requests, ClientSend(m) PROVE FlagsOK'
      BY <3>2, Zenon DEF ClientSend
    <3>3. CASE Disconnect BY <3>3, Zenon DEF Disconnect
    <3>4. QED BY <2>1, <3>1, <3>2, <3>3 DEF Client
  <2>2. CASE Dispatch
    <3> USE DEF Receive, ScanTable, Enumerate
    <3>1. CASE RecvConfig BY <3>1, Zenon DEF RecvConfig
    <3>2. CASE RecvScan BY <3>2, Zenon DEF RecvScan
    <3>3. CASE RecvRescan BY <3>3, Zenon DEF RecvRescan
    <3>4. CASE Rescan BY <3>4, Zenon DEF Rescan
    <3>5. CASE RecvStartIgnored BY <3>5, Zenon DEF RecvStartIgnored
    <3>6. CASE RecvStart BY <3>6, Zenon DEF RecvStart
    <3>7. CASE Spawn BY <3>7, Zenon DEF Spawn
    <3>8. CASE RecvStop BY <3>8, Zenon DEF RecvStop
    <3>9. CASE StopLoad BY <3>9, Zenon DEF StopLoad
    <3>10. CASE StopCall BY <3>10, Zenon DEF StopCall
    <3>11. CASE Eof BY <3>11, Zenon DEF Eof
    <3>12. CASE Close BY <3>12, Zenon DEF Close
    <3>13. CASE ReapBegin BY <3>13, Zenon DEF ReapBegin
    <3>14. CASE ReapLoad BY <3>14, Zenon DEF ReapLoad
    <3>15. CASE ReapCall BY <3>15, Zenon DEF ReapCall
    <3>16. CASE ReapPolled BY <3>16, Zenon DEF ReapPolled
    <3>17. CASE ReapCheck BY <3>17, Zenon DEF ReapCheck
    <3>18. CASE ReapClear BY <3>18, Zenon DEF ReapClear
    <3>19. CASE ReapJoin BY <3>19, Zenon DEF ReapJoin
    <3>20. QED
      BY <2>2, <3>1, <3>2, <3>3, <3>4, <3>5, <3>6, <3>7, <3>8, <3>9, <3>10, <3>11,
         <3>12, <3>13, <3>14, <3>15, <3>16, <3>17, <3>18, <3>19 DEF Dispatch
  <2>3. ASSUME NEW c \in Captures, Capture(c) PROVE FlagsOK'
    <3>1. CASE CapEnter(c) BY <3>1, Zenon DEF CapEnter
    <3>2. CASE CapLookup(c) BY <3>2, Zenon DEF CapLookup
    <3>3. CASE CapOpen(c) BY <3>3, Zenon DEF CapOpen
    <3>4. CASE CapConfigure(c) BY <3>4, Zenon DEF CapConfigure
    <3>5. CASE CapNoSession(c) BY <3>5, Zenon DEF CapNoSession
    <3>6. CASE CapFail(c) BY <3>6, Zenon DEF CapFail
    <3>7. CASE CapPublish(c) BY <3>7, Zenon DEF CapPublish
    <3>8. CASE CapArm(c) BY <3>8, Zenon DEF CapArm
    <3>9. CASE CapStart(c) BY <3>9, Zenon DEF CapStart
    <3>10. CASE CapStartFails(c) BY <3>10, Zenon DEF CapStartFails
    <3>11. CASE CapStopped(c) BY <3>11, Zenon DEF CapStopped
    <3>12. CASE CapUnpublish(c) BY <3>12, Zenon DEF CapUnpublish
    <3>13. CASE CapJoin(c) BY <3>13, Zenon DEF CapJoin
    <3>14. CASE CapReport(c) BY <3>14, Zenon DEF CapReport
    <3>15. CASE CapDestroy(c) BY <3>15, Zenon DEF CapDestroy
    <3>16. CASE CapCloseDev(c) BY <3>16, Zenon DEF CapCloseDev
    <3>17. CASE CapLeave(c) BY <3>17, Zenon DEF CapLeave
    <3>18. QED
      BY <2>3, <3>1, <3>2, <3>3, <3>4, <3>5, <3>6, <3>7, <3>8, <3>9, <3>10, <3>11,
         <3>12, <3>13, <3>14, <3>15, <3>16, <3>17 DEF Capture
  <2>4. ASSUME NEW c \in Captures, Device(c) PROVE FlagsOK'
    <3>1. CASE CapFeed(c) BY <3>1, Zenon DEF CapFeed
    <3>2. CASE CapComplete(c) BY <3>2, Zenon DEF CapComplete
    <3>3. CASE CapCrash(c) BY <3>3, Zenon DEF CapCrash
    <3>4. QED
      BY <2>4, <3>1, <3>2, <3>3 DEF Device
  <2>5. ASSUME NEW c \in Captures, Watchdog(c) PROVE FlagsOK'
    <3>1. CASE WdFirst(c) BY <3>1, Zenon DEF WdFirst
    <3>2. CASE WdExit(c) BY <3>2, Zenon DEF WdExit
    <3>3. CASE WdExpire(c) BY <3>3, Zenon DEF WdExpire
    <3>4. CASE WdFire(c) BY <3>4, Zenon DEF WdFire
    <3>5. CASE WdStop(c) BY <3>5, Zenon DEF WdStop
    <3>6. QED
      BY <2>5, <3>1, <3>2, <3>3, <3>4, <3>5 DEF Watchdog
  <2>6. CASE UNCHANGED vars
    BY <2>6, Zenon
  <2>7. QED
    BY <2>1, <2>2, <2>3, <2>4, <2>5, <2>6 DEF Next, Halted
<1>3. QED
  BY <1>1, <1>2, PTL DEF Spec

\* Sond has its types in every reachable state.
THEOREM TypeCorrect == Spec => []TypeOK
<1> USE CapturesAssumption, RequestsAssumption
<1> USE DEF TypeOK, DispatchPC, CapturePC, Guarded, Preparing, Published, Ending,
            EndSent, SessionState, WatchdogPC, Modes
<1>1. Init /\ FlagsOK => TypeOK
  BY DEF Init
<1>2. TypeOK /\ FlagsOK' /\ [Next]_vars => TypeOK'
  <2> SUFFICES ASSUME TypeOK, FlagsOK', [Next]_vars PROVE TypeOK'
    OBVIOUS
  <2> USE DEF vars, glob, disp, thr, net, view, At, Goto, WdGoto, SessionStop, SendEnd, Message
  <2>1. CASE Client
    <3>1. CASE Connect BY <3>1 DEF Connect
    <3>2. ASSUME NEW m \in Requests, ClientSend(m) PROVE TypeOK'
      BY <3>2 DEF ClientSend
    <3>3. CASE Disconnect 
      <4>0. inbox' = inbox \/ inbox' = << >>
        BY <3>3 DEF Disconnect
      <4>1. inbox' \in Seq(Message)
        <5>1. inbox \in Seq(Message)
          OBVIOUS
        <5>2. << >> \in Seq(Message)
          OBVIOUS
        <5>3. CASE inbox' = inbox
          BY <5>1, <5>3
        <5>4. CASE inbox' = << >>
          BY <5>2, <5>4
        <5>5. QED BY <4>0, <5>3, <5>4
      <4>2. UNCHANGED << told, deaf, active, held, cap, dpc, ret, pending, pc, mode, fd, dev,
                         session, reason, wd >>
        BY <3>3 DEF Disconnect
      <4>3. QED BY <4>1, <4>2
    <3>4. QED BY <2>1, <3>1, <3>2, <3>3 DEF Client
  <2>2. CASE Dispatch
    <3> USE DEF Receive, ScanTable, Enumerate
    <3>1. CASE RecvConfig BY <3>1 DEF RecvConfig
    <3>2. CASE RecvScan BY <3>2 DEF RecvScan
    <3>3. CASE RecvRescan
      
      <4>0. inbox' \in Seq(Message)
        BY <3>3 DEF RecvRescan
      <4>1. dpc' \in DispatchPC
        BY <3>3 DEF RecvRescan
      <4>2. UNCHANGED << told, deaf, active, held, cap, ret, pending, pc, mode, fd, dev,
                         session, reason, wd >>
        BY <3>3 DEF RecvRescan
      <4>3. QED BY <4>0, <4>1, <4>2
    <3>4. CASE Rescan BY <3>4 DEF Rescan
    <3>5. CASE RecvStartIgnored BY <3>5 DEF RecvStartIgnored
    <3>6. CASE RecvStart BY <3>6 DEF RecvStart
    <3>7. CASE Spawn BY <3>7 DEF Spawn
    <3>8. CASE RecvStop BY <3>8 DEF RecvStop
    <3>9. CASE StopLoad BY <3>9 DEF StopLoad
    <3>10. CASE StopCall BY <3>10 DEF StopCall
    <3>11. CASE Eof BY <3>11 DEF Eof
    <3>12. CASE Close BY <3>12 DEF Close
    <3>13. CASE ReapBegin BY <3>13 DEF ReapBegin
    <3>14. CASE ReapLoad BY <3>14 DEF ReapLoad
    <3>15. CASE ReapCall BY <3>15 DEF ReapCall
    <3>16. CASE ReapPolled BY <3>16 DEF ReapPolled
    <3>17. CASE ReapCheck BY <3>17 DEF ReapCheck
    <3>18. CASE ReapClear BY <3>18 DEF ReapClear
    <3>19. CASE ReapJoin BY <3>19 DEF ReapJoin
    <3>20. QED
      BY <2>2, <3>1, <3>2, <3>3, <3>4, <3>5, <3>6, <3>7, <3>8, <3>9, <3>10, <3>11,
         <3>12, <3>13, <3>14, <3>15, <3>16, <3>17, <3>18, <3>19 DEF Dispatch
  <2>3. ASSUME NEW c \in Captures, Capture(c) PROVE TypeOK'
    <3>1. CASE CapEnter(c) BY <3>1 DEF CapEnter
    <3>2. CASE CapLookup(c) BY <3>2 DEF CapLookup
    <3>3. CASE CapOpen(c) BY <3>3 DEF CapOpen
    <3>4. CASE CapConfigure(c) BY <3>4 DEF CapConfigure
    <3>5. CASE CapNoSession(c) BY <3>5 DEF CapNoSession
    <3>6. CASE CapFail(c) BY <3>6 DEF CapFail
    <3>7. CASE CapPublish(c) BY <3>7 DEF CapPublish
    <3>8. CASE CapArm(c) BY <3>8 DEF CapArm
    <3>9. CASE CapStart(c) BY <3>9 DEF CapStart
    <3>10. CASE CapStartFails(c) BY <3>10 DEF CapStartFails
    <3>11. CASE CapStopped(c) BY <3>11 DEF CapStopped
    <3>12. CASE CapUnpublish(c) BY <3>12 DEF CapUnpublish
    <3>13. CASE CapJoin(c) BY <3>13 DEF CapJoin
    <3>14. CASE CapReport(c) BY <3>14 DEF CapReport
    <3>15. CASE CapDestroy(c) BY <3>15 DEF CapDestroy
    <3>16. CASE CapCloseDev(c) BY <3>16 DEF CapCloseDev
    <3>17. CASE CapLeave(c) BY <3>17 DEF CapLeave
    <3>18. QED
      BY <2>3, <3>1, <3>2, <3>3, <3>4, <3>5, <3>6, <3>7, <3>8, <3>9, <3>10, <3>11,
         <3>12, <3>13, <3>14, <3>15, <3>16, <3>17 DEF Capture
  <2>4. ASSUME NEW c \in Captures, Device(c) PROVE TypeOK'
    <3>1. CASE CapFeed(c) BY <3>1 DEF CapFeed
    <3>2. CASE CapComplete(c) BY <3>2 DEF CapComplete
    <3>3. CASE CapCrash(c) BY <3>3 DEF CapCrash
    <3>4. QED
      BY <2>4, <3>1, <3>2, <3>3 DEF Device
  <2>5. ASSUME NEW c \in Captures, Watchdog(c) PROVE TypeOK'
    <3>1. CASE WdFirst(c) BY <3>1 DEF WdFirst
    <3>2. CASE WdExit(c) BY <3>2 DEF WdExit
    <3>3. CASE WdExpire(c) BY <3>3 DEF WdExpire
    <3>4. CASE WdFire(c) BY <3>4 DEF WdFire
    <3>5. CASE WdStop(c) BY <3>5 DEF WdStop
    <3>6. QED
      BY <2>5, <3>1, <3>2, <3>3, <3>4, <3>5 DEF Watchdog
  <2>6. CASE UNCHANGED vars
    BY <2>6
  <2>7. QED
    BY <2>1, <2>2, <2>3, <2>4, <2>5, <2>6 DEF Next, Halted
<1>3. QED
  BY <1>1, <1>2, FlagsCorrect, PTL DEF Spec

-----------------------------------------------------------------------------
\* What the atomics say about the threads, for any client: three facts that are
\* inductive together with the types.
ThreadInv == RunningIsRaised /\ ActiveIsAlive /\ WatchdogJoined

LEMMA ThreadsCorrect == Spec => []ThreadInv
<1> USE CapturesAssumption
<1> USE DEF ThreadInv, RunningIsRaised, ActiveIsAlive, WatchdogJoined, InGuard, Live,
            Guarded, Preparing, Published, Ending, EndSent
<1>1. Init => ThreadInv
  BY DEF Init
<1>2. TypeOK /\ ThreadInv /\ [Next]_vars => ThreadInv'
  <2> SUFFICES ASSUME TypeOK, ThreadInv, [Next]_vars PROVE ThreadInv'
    OBVIOUS
  <2>0. /\ pc \in [Captures -> CapturePC] /\ wd \in [Captures -> WatchdogPC]
        /\ active \in Captures \cup {NoCapture}
    BY DEF TypeOK
  <2> USE <2>0 DEF vars, glob, disp, thr, net, view, At, Goto, WdGoto
  <2>1. CASE Client
    <3>1. CASE Connect BY <3>1 DEF Connect
    <3>2. ASSUME NEW m \in Requests, ClientSend(m) PROVE ThreadInv'
      BY <3>2 DEF ClientSend
    <3>3. CASE Disconnect BY <3>3 DEF Disconnect
    <3>4. QED BY <2>1, <3>1, <3>2, <3>3 DEF Client
  <2>2. CASE Dispatch
    <3> USE DEF Receive, ScanTable, Enumerate
    <3>1. CASE RecvConfig BY <3>1 DEF RecvConfig
    <3>2. CASE RecvScan BY <3>2 DEF RecvScan
    <3>3. CASE RecvRescan BY <3>3 DEF RecvRescan
    <3>4. CASE Rescan BY <3>4 DEF Rescan
    <3>5. CASE RecvStartIgnored BY <3>5 DEF RecvStartIgnored
    <3>6. CASE RecvStart BY <3>6 DEF RecvStart
    <3>7. CASE Spawn BY <3>7 DEF Spawn
    <3>8. CASE RecvStop BY <3>8 DEF RecvStop
    <3>9. CASE StopLoad BY <3>9 DEF StopLoad
    <3>10. CASE StopCall BY <3>10 DEF StopCall
    <3>11. CASE Eof BY <3>11 DEF Eof
    <3>12. CASE Close BY <3>12 DEF Close
    <3>13. CASE ReapBegin BY <3>13 DEF ReapBegin
    <3>14. CASE ReapLoad BY <3>14 DEF ReapLoad
    <3>15. CASE ReapCall BY <3>15 DEF ReapCall
    <3>16. CASE ReapPolled BY <3>16 DEF ReapPolled
    <3>17. CASE ReapCheck BY <3>17 DEF ReapCheck
    <3>18. CASE ReapClear BY <3>18 DEF ReapClear
    <3>19. CASE ReapJoin BY <3>19 DEF ReapJoin
    <3>20. QED
      BY <2>2, <3>1, <3>2, <3>3, <3>4, <3>5, <3>6, <3>7, <3>8, <3>9, <3>10, <3>11,
         <3>12, <3>13, <3>14, <3>15, <3>16, <3>17, <3>18, <3>19 DEF Dispatch
  <2>3. ASSUME NEW c \in Captures, Capture(c) PROVE ThreadInv'
    <3>1. CASE CapEnter(c) BY <3>1 DEF CapEnter
    <3>2. CASE CapLookup(c) BY <3>2 DEF CapLookup
    <3>3. CASE CapOpen(c) BY <3>3 DEF CapOpen
    <3>4. CASE CapConfigure(c) BY <3>4 DEF CapConfigure
    <3>5. CASE CapNoSession(c) BY <3>5 DEF CapNoSession
    <3>6. CASE CapFail(c) BY <3>6 DEF CapFail
    <3>7. CASE CapPublish(c) BY <3>7 DEF CapPublish
    <3>8. CASE CapArm(c) BY <3>8 DEF CapArm
    <3>9. CASE CapStart(c) BY <3>9 DEF CapStart
    <3>10. CASE CapStartFails(c) BY <3>10 DEF CapStartFails
    <3>11. CASE CapStopped(c) BY <3>11 DEF CapStopped
    <3>12. CASE CapUnpublish(c) BY <3>12 DEF CapUnpublish
    <3>13. CASE CapJoin(c) BY <3>13 DEF CapJoin
    <3>14. CASE CapReport(c) BY <3>14 DEF CapReport
    <3>15. CASE CapDestroy(c) BY <3>15 DEF CapDestroy
    <3>16. CASE CapCloseDev(c) BY <3>16 DEF CapCloseDev
    <3>17. CASE CapLeave(c) BY <3>17 DEF CapLeave
    <3>18. QED
      BY <2>3, <3>1, <3>2, <3>3, <3>4, <3>5, <3>6, <3>7, <3>8, <3>9, <3>10, <3>11,
         <3>12, <3>13, <3>14, <3>15, <3>16, <3>17 DEF Capture
  <2>4. ASSUME NEW c \in Captures, Device(c) PROVE ThreadInv'
    <3>1. CASE CapFeed(c) BY <3>1 DEF CapFeed
    <3>2. CASE CapComplete(c) BY <3>2 DEF CapComplete
    <3>3. CASE CapCrash(c) BY <3>3 DEF CapCrash
    <3>4. QED
      BY <2>4, <3>1, <3>2, <3>3 DEF Device
  <2>5. ASSUME NEW c \in Captures, Watchdog(c) PROVE ThreadInv'
    <3>1. CASE WdFirst(c) BY <3>1 DEF WdFirst
    <3>2. CASE WdExit(c) BY <3>2 DEF WdExit
    <3>3. CASE WdExpire(c) BY <3>3 DEF WdExpire
    <3>4. CASE WdFire(c) BY <3>4 DEF WdFire
    <3>5. CASE WdStop(c) BY <3>5 DEF WdStop
    <3>6. QED
      BY <2>5, <3>1, <3>2, <3>3, <3>4, <3>5 DEF Watchdog
  <2>6. CASE UNCHANGED vars
    BY <2>6
  <2>7. QED
    BY <2>1, <2>2, <2>3, <2>4, <2>5, <2>6 DEF Next, Halted
<1>3. QED
  BY <1>1, <1>2, TypeCorrect, PTL DEF Spec

\* g_capture_running is never left raised without a thread that will clear it.
THEOREM RunningRaised == Spec => []RunningIsRaised
BY ThreadsCorrect, PTL DEF ThreadInv

\* g_active_session is null or a session whose run has not been left.
THEOREM ActiveAlive == Spec => []ActiveIsAlive
BY ThreadsCorrect, PTL DEF ThreadInv

\* A watchdog has been joined before the session it may stop is destroyed.
THEOREM WatchdogGone == Spec => []WatchdogJoined
BY ThreadsCorrect, PTL DEF ThreadInv

-----------------------------------------------------------------------------
\* PatientInv is inductive when clients are patient.
LEMMA PatientCorrect == ASSUME Patient PROVE Spec => []PatientInv
<1> USE CapturesAssumption
<1> USE DEF PatientInv, InboxInv, DispatchInv, CaptureInv, AtMostOneCapture, Answered,
            InGuard, Live, HasDevice, Guarded, Preparing, Published, Ending, EndSent
<1>1. Init => PatientInv
  BY DEF Init
<1>2. TypeOK /\ ThreadInv /\ PatientInv /\ [Next]_vars => PatientInv'
  <2> SUFFICES ASSUME TypeOK, ThreadInv, PatientInv, [Next]_vars PROVE PatientInv'
    OBVIOUS
  <2>0. /\ pc \in [Captures -> CapturePC] /\ dev \in [Captures -> {"none", "valid", "freed"}]
        /\ cap \in Captures \cup {NoCapture}
        /\ inbox \in Seq(Message)
        /\ fd \in [Captures -> {"own", "closed"}]
        /\ ret \in {"spawn", "close"}
        /\ RunningIsRaised
    BY DEF TypeOK, ThreadInv
  <2> USE <2>0 DEF vars, glob, disp, thr, net, view, At, Goto, WdGoto
  <2>1. CASE Client
    <3>1. CASE Connect
      <4>1. InboxInv' BY <3>1 DEF Connect
      <4>2. DispatchInv' BY <3>1 DEF Connect
      <4>3. CaptureInv' BY <3>1 DEF Connect
      <4>4. QED BY <4>1, <4>2, <4>3
    <3>2. ASSUME NEW m \in Requests, ClientSend(m) PROVE PatientInv'
      <4> DEFINE n == Len(inbox)
      <4>a. /\ n \in Nat /\ inbox' = Append(inbox, m) /\ m \in Message
            /\ Patient /\ owed => m.type # "START"
            /\ UNCHANGED << cap, pc, ret >>
        BY <3>2, RequestsAssumption DEF ClientSend
      <4>b. /\ DOMAIN inbox' = 1 .. n + 1
            /\ \A i \in 1 .. n : inbox'[i] = inbox[i]
            /\ inbox'[n + 1] = m
        BY <4>a
      <4>c. DOMAIN inbox = 1 .. n
        OBVIOUS
      <4>d. Answered' <=> Answered
        BY <4>a DEF Answered
      <4>e. owed \/ (Answered /\ ret = "close")
        OBVIOUS
      <4>f. owed => owed'
        BY <3>2 DEF ClientSend
      <4>g. m.type = "START" => owed'
        BY <3>2 DEF ClientSend
      <4>1. InboxInv'
        <5> HIDE DEF n
        <5>1. ASSUME NEW i \in DOMAIN inbox'
              PROVE  inbox'[i].type = "START" => Answered' /\ ret' = "close" /\ owed'
          BY <4>a, <4>b, <4>c, <4>d, <4>e, <4>f, <4>g, <5>1
        <5>2. ASSUME NEW i \in DOMAIN inbox', NEW j \in DOMAIN inbox', i < j,
                     inbox'[i].type = "START"
              PROVE  inbox'[j].type # "START"
          BY <4>a, <4>b, <4>c, <4>f, <5>2
        <5>3. owed' \/ (Answered' /\ ret' = "close")
          BY <4>a, <4>d, <4>e, <4>f
        <5>4. QED BY <5>1, <5>2, <5>3
      <4>2. DispatchInv' BY <3>2 DEF ClientSend
      <4>3. CaptureInv' BY <3>2 DEF ClientSend
      <4>4. QED BY <4>1, <4>2, <4>3
    <3>3. CASE Disconnect BY <3>3 DEF Disconnect
    <3>4. QED BY <2>1, <3>1, <3>2, <3>3 DEF Client
  <2>2. CASE Dispatch
    <3> USE DEF Receive, ScanTable, Enumerate
    <3>1. CASE RecvConfig BY <3>1 DEF RecvConfig
    <3>2. CASE RecvScan BY <3>2 DEF RecvScan
    <3>3. CASE RecvRescan
      <4>1. InboxInv' BY <3>3 DEF RecvRescan
      <4>2. DispatchInv'
        <5>1. ~running => \A c \in Captures : Live(c) => c = cap
          OBVIOUS
        <5>2. dpc = "recv" /\ (dpc' = "recv" \/ (dpc' = "rescan" /\ ~running))
          BY <3>3 DEF RecvRescan
        <5>3. ret = "spawn" => dpc # "recv"
          OBVIOUS
        <5>4. ret = "close"
          BY <5>2, <5>3
        <5>5. UNCHANGED << ret, cap, pc, peer >>
          BY <3>3 DEF RecvRescan
        <5>6. QED BY <5>1, <5>2, <5>4, <5>5
      <4>3. CaptureInv' BY <3>3 DEF RecvRescan
      <4>4. QED BY <4>1, <4>2, <4>3
    <3>4. CASE Rescan BY <3>4 DEF Rescan
    <3>5. CASE RecvStartIgnored BY <3>5 DEF RecvStartIgnored
    <3>6. CASE RecvStart BY <3>6 DEF RecvStart
    <3>7. CASE Spawn BY <3>7 DEF Spawn
    <3>8. CASE RecvStop BY <3>8 DEF RecvStop
    <3>9. CASE StopLoad BY <3>9 DEF StopLoad
    <3>10. CASE StopCall BY <3>10 DEF StopCall
    <3>11. CASE Eof BY <3>11 DEF Eof
    <3>12. CASE Close BY <3>12 DEF Close
    <3>13. CASE ReapBegin
      <4>1. InboxInv' BY <3>13 DEF ReapBegin
      <4>2. DispatchInv' BY <3>13 DEF ReapBegin
      <4>3. CaptureInv' BY <3>13 DEF ReapBegin
      <4>4. QED BY <4>1, <4>2, <4>3
    <3>14. CASE ReapLoad BY <3>14 DEF ReapLoad
    <3>15. CASE ReapCall BY <3>15 DEF ReapCall
    <3>16. CASE ReapPolled BY <3>16 DEF ReapPolled
    <3>17. CASE ReapCheck
      <4>1. InboxInv' BY <3>17 DEF ReapCheck
      <4>2. DispatchInv' BY <3>17 DEF ReapCheck
      <4>3. CaptureInv'
        <5>1. UNCHANGED << pc, running, dev, fd >>
          BY <3>17 DEF ReapCheck
        <5>2. CASE UNCHANGED cap
          BY <3>17, <5>1, <5>2 DEF ReapCheck
        <5>3. CASE running /\ cap' = NoCapture /\ dpc' = "reapClear"
          <6>1. \A c \in Captures : Live(c) => InGuard(c)
            BY <5>3 DEF RunningIsRaised
          <6>2. QED BY <5>1, <5>3, <6>1
        <5>4. QED BY <3>17, <5>2, <5>3 DEF ReapCheck
      <4>4. QED BY <4>1, <4>2, <4>3
    <3>18. CASE ReapClear
      <4>1. InboxInv' BY <3>18 DEF ReapClear
      <4>2. DispatchInv' BY <3>18 DEF ReapClear
      <4>3. CaptureInv' BY <3>18 DEF ReapClear
      <4>4. QED BY <4>1, <4>2, <4>3
    <3>19. CASE ReapJoin
      <4>1. InboxInv' BY <3>19 DEF ReapJoin
      <4>2. DispatchInv' BY <3>19 DEF ReapJoin
      <4>3. CaptureInv' BY <3>19 DEF ReapJoin
      <4>4. QED BY <4>1, <4>2, <4>3
    <3>20. QED
      BY <2>2, <3>1, <3>2, <3>3, <3>4, <3>5, <3>6, <3>7, <3>8, <3>9, <3>10, <3>11,
         <3>12, <3>13, <3>14, <3>15, <3>16, <3>17, <3>18, <3>19 DEF Dispatch
  <2>3. ASSUME NEW c \in Captures, Capture(c) PROVE PatientInv'
    <3>1. CASE CapEnter(c) BY <3>1 DEF CapEnter
    <3>2. CASE CapLookup(c) BY <3>2 DEF CapLookup
    <3>3. CASE CapOpen(c) BY <3>3 DEF CapOpen
    <3>4. CASE CapConfigure(c) BY <3>4 DEF CapConfigure
    <3>5. CASE CapNoSession(c) BY <3>5 DEF CapNoSession
    <3>6. CASE CapFail(c)
      <4>1. InboxInv'
        <5>1. pc[c] = "fail" /\ pc' = [pc EXCEPT ![c] = "leave"]
              /\ UNCHANGED << cap, ret, inbox, dpc, peer >>
          BY <3>6 DEF CapFail
        <5>2. owed' => owed
          BY <3>6 DEF CapFail, SendEnd
        <5>3. owed /\ ~owed' => fd[c] = "own"
          BY <3>6 DEF CapFail, SendEnd
        <5>4. (Answered => Answered') /\ Answered' /\ ret = "close"
          BY <5>1
        <5>5. CASE cap = c
          <6>1. \A i \in DOMAIN inbox : inbox[i].type # "START"
            BY <5>1, <5>5
          <6>2. QED BY <5>1, <5>2, <5>4, <6>1
        <5>6. CASE cap # c
          <6>1. fd[c] = "own" => inbox = << >>
            BY <5>1, <5>4, <5>6
          <6>2. inbox # << >> => (owed <=> owed')
            BY <5>2, <5>3, <6>1
          <6>3. inbox = << >> => DOMAIN inbox = {}
            OBVIOUS
          <6>4. QED BY <5>1, <5>4, <6>2, <6>3
        <5>7. QED BY <5>5, <5>6
      <4>2. DispatchInv' BY <3>6 DEF CapFail
      <4>3. CaptureInv' BY <3>6 DEF CapFail
      <4>4. QED BY <4>1, <4>2, <4>3
    <3>7. CASE CapPublish(c) BY <3>7 DEF CapPublish
    <3>8. CASE CapArm(c) BY <3>8 DEF CapArm
    <3>9. CASE CapStart(c) BY <3>9 DEF CapStart
    <3>10. CASE CapStartFails(c) BY <3>10 DEF CapStartFails
    <3>11. CASE CapStopped(c) BY <3>11 DEF CapStopped
    <3>12. CASE CapUnpublish(c) BY <3>12 DEF CapUnpublish
    <3>13. CASE CapJoin(c) BY <3>13 DEF CapJoin
    <3>14. CASE CapReport(c)
      <4>1. InboxInv'
        <5>1. pc[c] = "report" /\ pc' = [pc EXCEPT ![c] = "destroy"]
              /\ UNCHANGED << cap, ret, inbox, dpc, peer >>
          BY <3>14 DEF CapReport
        <5>2. owed' => owed
          BY <3>14 DEF CapReport, SendEnd
        <5>3. owed /\ ~owed' => fd[c] = "own"
          BY <3>14 DEF CapReport, SendEnd
        <5>4. (Answered => Answered') /\ Answered' /\ ret = "close"
          BY <5>1
        <5>5. CASE cap = c
          <6>1. \A i \in DOMAIN inbox : inbox[i].type # "START"
            BY <5>1, <5>5
          <6>2. QED BY <5>1, <5>2, <5>4, <6>1
        <5>6. CASE cap # c
          <6>1. fd[c] = "own" => inbox = << >>
            BY <5>1, <5>4, <5>6
          <6>2. inbox # << >> => (owed <=> owed')
            BY <5>2, <5>3, <6>1
          <6>3. inbox = << >> => DOMAIN inbox = {}
            OBVIOUS
          <6>4. QED BY <5>1, <5>4, <6>2, <6>3
        <5>7. QED BY <5>5, <5>6
      <4>2. DispatchInv' BY <3>14 DEF CapReport
      <4>3. CaptureInv' BY <3>14 DEF CapReport
      <4>4. QED BY <4>1, <4>2, <4>3
    <3>15. CASE CapDestroy(c) BY <3>15 DEF CapDestroy
    <3>16. CASE CapCloseDev(c) BY <3>16 DEF CapCloseDev
    <3>17. CASE CapLeave(c) BY <3>17 DEF CapLeave
    <3>18. QED
      BY <2>3, <3>1, <3>2, <3>3, <3>4, <3>5, <3>6, <3>7, <3>8, <3>9, <3>10, <3>11,
         <3>12, <3>13, <3>14, <3>15, <3>16, <3>17 DEF Capture
  <2>4. ASSUME NEW c \in Captures, Device(c) PROVE PatientInv'
    <3>1. CASE CapFeed(c) BY <3>1 DEF CapFeed
    <3>2. CASE CapComplete(c) BY <3>2 DEF CapComplete
    <3>3. CASE CapCrash(c) BY <3>3 DEF CapCrash
    <3>4. QED
      BY <2>4, <3>1, <3>2, <3>3 DEF Device
  <2>5. ASSUME NEW c \in Captures, Watchdog(c) PROVE PatientInv'
    <3>1. CASE WdFirst(c) BY <3>1 DEF WdFirst
    <3>2. CASE WdExit(c) BY <3>2 DEF WdExit
    <3>3. CASE WdExpire(c) BY <3>3 DEF WdExpire
    <3>4. CASE WdFire(c) BY <3>4 DEF WdFire
    <3>5. CASE WdStop(c) BY <3>5 DEF WdStop
    <3>6. QED
      BY <2>5, <3>1, <3>2, <3>3, <3>4, <3>5 DEF Watchdog
  <2>6. CASE UNCHANGED vars
    BY <2>6
  <2>7. QED
    BY <2>1, <2>2, <2>3, <2>4, <2>5, <2>6 DEF Next, Halted
<1>3. QED
  BY <1>1, <1>2, TypeCorrect, ThreadsCorrect, PTL DEF Spec

\* Whatever earlier clients left behind, a patient client never has two capture
\* threads in the server.
THEOREM SingleCapture == ASSUME Patient PROVE Spec => []AtMostOneCapture
BY PatientCorrect, PTL DEF PatientInv, CaptureInv

\* A thread that outlived its client is visible to the next one's START and rescan.
THEOREM ReclaimedOnAccept == ASSUME Patient PROVE Spec => []ReclaimedAtAccept
<1>1. PatientInv => ReclaimedAtAccept
  BY CapturesAssumption DEF PatientInv, CaptureInv, DispatchInv, ReclaimedAtAccept
<1>2. QED BY <1>1, PatientCorrect, PTL

\* The only step that frees a device is the second half of a rescan, and what
\* PatientInv says of the threads there leaves it none but the attached one's.
THEOREM RescansSpare == ASSUME Patient PROVE Spec => RescanSpares
<1> DEFINE Spares == \A c \in Captures : dev[c] = "valid" /\ dev'[c] = "freed" => c = cap
<1>1. TypeOK /\ PatientInv /\ [Next]_vars => [Spares]_vars
  <2> SUFFICES ASSUME TypeOK, PatientInv, [Next]_vars,
                      NEW c \in Captures, dev[c] = "valid", dev'[c] = "freed"
               PROVE  c = cap
    BY DEF vars, glob, disp, thr, net, view
  <2>0. dev \in [Captures -> {"none", "valid", "freed"}]
    BY DEF TypeOK
  <2>1. Live(c)
    BY DEF PatientInv, CaptureInv, HasDevice, Live, Published, Ending
  <2>2. dpc = "rescan"
    <3> USE <2>0 DEF vars, glob, disp, thr, net, view
    <3>1. CASE Client BY <3>1 DEF Client, Connect, ClientSend, Disconnect
    <3>2. CASE Dispatch
      <4>1. CASE Rescan BY <4>1 DEF Rescan, At
      <4>2. CASE ~Rescan
        <5>1. UNCHANGED dev
          BY <3>2, <4>2, Zenon DEF Dispatch, RecvConfig, RecvScan, RecvRescan, RecvStartIgnored,
             RecvStart, Spawn, RecvStop, StopLoad, StopCall, Eof, Close, ReapBegin, ReapLoad,
             ReapCall, ReapPolled, ReapCheck, ReapClear, ReapJoin
        <5>2. QED BY <5>1
      <4>3. QED BY <4>1, <4>2
    <3>3. ASSUME NEW d \in Captures, Capture(d) PROVE FALSE
      <4>1. UNCHANGED dev \/ dev' = [dev EXCEPT ![d] = "none"]
                          \/ dev' = [dev EXCEPT ![d] = "valid"]
        <5>1. CASE CapLookup(d) BY <5>1 DEF CapLookup
        <5>2. CASE CapOpen(d) BY <5>2 DEF CapOpen
        <5>3. CASE CapNoSession(d) \/ CapCloseDev(d) BY <5>3 DEF CapNoSession, CapCloseDev
        <5>4. CASE ~(CapLookup(d) \/ CapOpen(d) \/ CapNoSession(d) \/ CapCloseDev(d))
          BY <3>3, <5>4, Zenon DEF Capture, CapEnter, CapConfigure, CapFail, CapPublish, CapArm,
             CapStart, CapStartFails, CapStopped, CapUnpublish, CapJoin, CapReport, CapDestroy,
             CapLeave
        <5>5. QED BY <5>1, <5>2, <5>3, <5>4
      <4>2. QED BY <4>1
    <3>4. ASSUME NEW d \in Captures, Device(d) \/ Watchdog(d) PROVE FALSE
      BY <3>4 DEF Device, CapFeed, CapComplete, CapCrash, Watchdog, WdFirst, WdExit, WdExpire,
         WdFire, WdStop
    <3>5. CASE UNCHANGED vars BY <3>5
    <3>6. QED BY <3>1, <3>2, <3>3, <3>4, <3>5 DEF Next, Halted
  <2>3. QED BY <2>1, <2>2 DEF PatientInv, DispatchInv
<1>2. QED BY <1>1, TypeCorrect, PatientCorrect, PTL DEF Spec, RescanSpares

-----------------------------------------------------------------------------
\* A capture cut short by STOP, by reap() or by its watchdog is never reported
\* complete: whoever stops a session raises a flag that is still up when the
\* reason is chosen, because no other capture can have reset it.
LEMMA ReasonCorrect == ASSUME Patient PROVE Spec => []ReasonInv
<1> USE CapturesAssumption
<1> USE DEF ReasonInv, ReasonHonest, Live
<1>1. Init => ReasonInv
  BY DEF Init
<1>2. TypeOK /\ ThreadInv /\ PatientInv /\ [Next]_vars /\ ReasonInv => ReasonInv'
  <2> SUFFICES ASSUME TypeOK, ThreadInv, PatientInv, ReasonInv, [Next]_vars PROVE ReasonInv'
    OBVIOUS
  <2>0. /\ pc \in [Captures -> CapturePC] /\ wd \in [Captures -> WatchdogPC]
        /\ session \in [Captures -> SessionState]
        /\ reason \in [Captures -> {"none", "error", "timeout", "stopped", "complete"}]
        /\ ret \in {"spawn", "close"}
        /\ AtMostOneCapture /\ WatchdogJoined
        /\ dpc = "spawn" => \A c \in Captures : ~Live(c)
    BY DEF TypeOK, ThreadInv, PatientInv, CaptureInv, DispatchInv
  <2> USE <2>0 DEF vars, glob, disp, thr, net, view, At, Goto, WdGoto, SessionStop,
                   AtMostOneCapture, WatchdogJoined
  <2>1. CASE Client
    <3>1. CASE Connect BY <3>1 DEF Connect
    <3>2. ASSUME NEW m \in Requests, ClientSend(m) PROVE ReasonInv'
      BY <3>2 DEF ClientSend
    <3>3. CASE Disconnect BY <3>3 DEF Disconnect
    <3>4. QED BY <2>1, <3>1, <3>2, <3>3 DEF Client
  <2>2. CASE Dispatch
    <3> USE DEF Receive, ScanTable, Enumerate
    <3>1. CASE RecvConfig BY <3>1 DEF RecvConfig
    <3>2. CASE RecvScan BY <3>2 DEF RecvScan
    <3>3. CASE RecvRescan BY <3>3 DEF RecvRescan
    <3>4. CASE Rescan BY <3>4 DEF Rescan
    <3>5. CASE RecvStartIgnored BY <3>5 DEF RecvStartIgnored
    <3>6. CASE RecvStart BY <3>6 DEF RecvStart
    <3>7. CASE Spawn BY <3>7 DEF Spawn
    <3>8. CASE RecvStop BY <3>8 DEF RecvStop
    <3>9. CASE StopLoad BY <3>9 DEF StopLoad
    <3>10. CASE StopCall BY <3>10 DEF StopCall
    <3>11. CASE Eof BY <3>11 DEF Eof
    <3>12. CASE Close BY <3>12 DEF Close
    <3>13. CASE ReapBegin BY <3>13 DEF ReapBegin
    <3>14. CASE ReapLoad BY <3>14 DEF ReapLoad
    <3>15. CASE ReapCall BY <3>15 DEF ReapCall
    <3>16. CASE ReapPolled BY <3>16 DEF ReapPolled
    <3>17. CASE ReapCheck BY <3>17 DEF ReapCheck
    <3>18. CASE ReapClear BY <3>18 DEF ReapClear
    <3>19. CASE ReapJoin BY <3>19 DEF ReapJoin
    <3>20. QED
      BY <2>2, <3>1, <3>2, <3>3, <3>4, <3>5, <3>6, <3>7, <3>8, <3>9, <3>10, <3>11,
         <3>12, <3>13, <3>14, <3>15, <3>16, <3>17, <3>18, <3>19 DEF Dispatch
  <2>3. ASSUME NEW c \in Captures, Capture(c) PROVE ReasonInv'
    <3>1. CASE CapEnter(c) BY <3>1 DEF CapEnter
    <3>2. CASE CapLookup(c) BY <3>2 DEF CapLookup
    <3>3. CASE CapOpen(c) BY <3>3 DEF CapOpen
    <3>4. CASE CapConfigure(c) BY <3>4 DEF CapConfigure
    <3>5. CASE CapNoSession(c) BY <3>5 DEF CapNoSession
    <3>6. CASE CapFail(c) BY <3>6 DEF CapFail
    <3>7. CASE CapPublish(c) BY <3>7 DEF CapPublish
    <3>8. CASE CapArm(c) BY <3>8 DEF CapArm
    <3>9. CASE CapStart(c) BY <3>9 DEF CapStart
    <3>10. CASE CapStartFails(c) BY <3>10 DEF CapStartFails
    <3>11. CASE CapStopped(c) BY <3>11 DEF CapStopped
    <3>12. CASE CapUnpublish(c) BY <3>12 DEF CapUnpublish
    <3>13. CASE CapJoin(c) BY <3>13 DEF CapJoin
    <3>14. CASE CapReport(c) BY <3>14 DEF CapReport
    <3>15. CASE CapDestroy(c) BY <3>15 DEF CapDestroy
    <3>16. CASE CapCloseDev(c) BY <3>16 DEF CapCloseDev
    <3>17. CASE CapLeave(c) BY <3>17 DEF CapLeave
    <3>18. QED
      BY <2>3, <3>1, <3>2, <3>3, <3>4, <3>5, <3>6, <3>7, <3>8, <3>9, <3>10, <3>11,
         <3>12, <3>13, <3>14, <3>15, <3>16, <3>17 DEF Capture
  <2>4. ASSUME NEW c \in Captures, Device(c) PROVE ReasonInv'
    <3>1. CASE CapFeed(c) BY <3>1 DEF CapFeed
    <3>2. CASE CapComplete(c) BY <3>2 DEF CapComplete
    <3>3. CASE CapCrash(c) BY <3>3 DEF CapCrash
    <3>4. QED
      BY <2>4, <3>1, <3>2, <3>3 DEF Device
  <2>5. ASSUME NEW c \in Captures, Watchdog(c) PROVE ReasonInv'
    <3>1. CASE WdFirst(c) BY <3>1 DEF WdFirst
    <3>2. CASE WdExit(c) BY <3>2 DEF WdExit
    <3>3. CASE WdExpire(c) BY <3>3 DEF WdExpire
    <3>4. CASE WdFire(c) BY <3>4 DEF WdFire
    <3>5. CASE WdStop(c) BY <3>5 DEF WdStop
    <3>6. QED
      BY <2>5, <3>1, <3>2, <3>3, <3>4, <3>5 DEF Watchdog
  <2>6. CASE UNCHANGED vars
    BY <2>6
  <2>7. QED
    BY <2>1, <2>2, <2>3, <2>4, <2>5, <2>6 DEF Next, Halted
<1>3. QED
  BY <1>1, <1>2, TypeCorrect, ThreadsCorrect, PatientCorrect, PTL DEF Spec

\* CAPTURE_END says "complete" only of a capture nobody stopped.
THEOREM HonestReason == ASSUME Patient PROVE Spec => []ReasonHonest
BY ReasonCorrect, PTL DEF ReasonInv
=============================================================================
