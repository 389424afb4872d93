--------------------------- MODULE DirectOtaProofs ---------------------------
(***************************************************************************)
(* Theorems of DirectOta, for every number of partitions, sessions, power  *)
(* losses and bytes: type correctness, and from the inductive invariant    *)
(* UpdateInv that every behaviour is an A/B update and the device can      *)
(* always boot, and from RestInv that a session leaves nothing behind.     *)
(***************************************************************************)
EXTENDS DirectOta, TLAPS

(* The partition esp_ota_begin erases is not the running one.              *)
LEMMA NextPartitionDiffers ==
    running \in Slots => NextPartition \in Slots /\ NextPartition # running
BY OtaConstants DEF NextPartition

(* The empty timer queue after a start is well typed.                      *)
LEMMA EmptyQueue ==
    <<>> \in Seq({"start", "reset", "stop"}) /\ Len(<<>>) <= TimerQueueLength
BY OtaConstants

LEMMA InitType == Init => TypeOK
<1> SUFFICES ASSUME Init PROVE TypeOK
  OBVIOUS
<1>1. commands \in Seq({"start", "reset", "stop"}) /\ Len(commands) <= TimerQueueLength
  BY EmptyQueue DEF Init, Started
<1>2. slot \in [Slots -> {"complete", "partial"}] /\ boot \in Slots /\ running \in Slots
  BY OtaConstants DEF Init
<1>3. /\ pc = "recvfrom" /\ m_tcpPort \in Int /\ m_otaSize \in Nat
      /\ m_tcpClientSocket = "none"
      /\ m_directOtaHandle \in {0, 1} /\ m_updatePartition = NoPartition
      /\ m_directOtaAccumulatedSize \in Nat /\ m_directOtaSize \in Nat
      /\ bytesReceived \in Nat /\ len \in 0..BufferSize
      /\ m_otaWdt = "dormant" /\ daemon = "idle"
      /\ update = "none" /\ written \in Nat
      /\ sessions \in Nat /\ powerLosses \in Nat
  BY OtaConstants DEF Init, Started
<1>4. m_otaFailed \in BOOLEAN
  BY DEF Init, Started
<1> QED BY <1>1, <1>2, <1>3, <1>4 DEF TypeOK

(* A command joins the timer queue only where there is room.               *)
LEMMA CommandType ==
    ASSUME TypeOK, NEW name \in {"start", "reset", "stop"}, Command(name)
    PROVE  /\ commands' \in Seq({"start", "reset", "stop"})
           /\ Len(commands') <= TimerQueueLength
           /\ UNCHANGED <<m_otaWdt, daemon>>
BY OtaConstants DEF TypeOK, Command

(* The types after a restart.                                              *)
LEMMA RebootType ==
    ASSUME TypeOK, Reboot, powerLosses' \in Nat
    PROVE  TypeOK'
<1>1. commands' \in Seq({"start", "reset", "stop"}) /\ Len(commands') <= TimerQueueLength
  BY EmptyQueue DEF Reboot
<1>2. slot' \in [Slots -> {"complete", "partial"}] /\ boot' \in Slots /\ running' \in Slots
  BY DEF TypeOK, Reboot
<1>3. /\ pc' = "recvfrom" /\ m_tcpPort' \in Int /\ m_otaSize' \in Nat
      /\ m_tcpClientSocket' = "none"
      /\ m_directOtaHandle' \in {0, 1} /\ m_updatePartition' = NoPartition
      /\ m_directOtaAccumulatedSize' \in Nat /\ m_directOtaSize' \in Nat
      /\ bytesReceived' \in Nat /\ len' \in 0..BufferSize
      /\ m_otaWdt' = "dormant" /\ daemon' = "idle"
      /\ update' = "none" /\ written' \in Nat
      /\ sessions' \in Nat
  BY OtaConstants DEF TypeOK, Reboot
<1>4. m_otaFailed' \in BOOLEAN
  BY DEF Reboot
<1> QED BY <1>1, <1>2, <1>3, <1>4 DEF TypeOK

(* Every step keeps the types.                                             *)
LEMMA NextType == TypeOK /\ UpdateInv /\ Next => TypeOK'
<1> SUFFICES ASSUME TypeOK, UpdateInv, Next PROVE TypeOK'
  OBVIOUS
<1> USE OtaConstants DEF sizeVars, handleVars, timerVars, flashVars, bounds, announced
<1>1. ASSUME NEW port \in Ports, NEW size \in Sizes, Announcement(port, size) PROVE TypeOK'
  BY <1>1 DEF TypeOK, Announcement
<1>2. ASSUME NEW ok \in BOOLEAN, Reply(ok) PROVE TypeOK'
  BY <1>2 DEF TypeOK, Reply
<1>3. ASSUME NEW socket \in BOOLEAN, NEW ok \in BOOLEAN, ConnectTcp(socket, ok) PROVE TypeOK'
  BY <1>3 DEF TypeOK, ConnectTcp
<1>4. ASSUME NEW ok \in BOOLEAN, fotaBegin(ok) PROVE TypeOK'
  BY <1>4, NextPartitionDiffers DEF TypeOK, fotaBegin
<1>5. CASE ArmWatchdog
  <2>1. Command("start")
    BY <1>5 DEF ArmWatchdog
  <2>2. /\ commands' \in Seq({"start", "reset", "stop"})
        /\ Len(commands') <= TimerQueueLength
        /\ UNCHANGED <<m_otaWdt, daemon>>
    BY <2>1, CommandType
  <2> QED BY <1>5, <2>2 DEF TypeOK, ArmWatchdog, LoopOrDone
<1>6. ASSUME NEW n \in 1..BufferSize, Recv(n) PROVE TypeOK'
  BY <1>6 DEF TypeOK, Recv
<1>7. CASE RecvFails
  BY <1>7 DEF TypeOK, RecvFails, Fail
<1>8. CASE CheckFailed
  BY <1>8 DEF TypeOK, CheckFailed, Fail
<1>9. ASSUME NEW ok \in BOOLEAN, SendLength(ok) PROVE TypeOK'
  BY <1>9 DEF TypeOK, SendLength, Fail
<1>10. ASSUME NEW ok \in BOOLEAN, fotaWrite(ok) PROVE TypeOK'
  <2>1. m_directOtaAccumulatedSize + len \in Nat /\ written + len \in Nat
        /\ bytesReceived + len \in Nat
    BY DEF TypeOK
  <2>2. /\ m_directOtaAccumulatedSize' \in Nat /\ written' \in Nat /\ bytesReceived' \in Nat
        /\ m_otaFailed' \in BOOLEAN /\ pc' \in {"feed", "disarm"}
    BY <1>10, <2>1 DEF TypeOK, fotaWrite, Fail
  <2> QED BY <1>10, <2>2 DEF TypeOK, fotaWrite
<1>11. CASE FeedWatchdog
  <2>1. Command("reset")
    BY <1>11 DEF FeedWatchdog
  <2>2. /\ commands' \in Seq({"start", "reset", "stop"})
        /\ Len(commands') <= TimerQueueLength
        /\ UNCHANGED <<m_otaWdt, daemon>>
    BY <2>1, CommandType
  <2> QED BY <1>11, <2>2 DEF TypeOK, FeedWatchdog, LoopOrDone
<1>12. CASE DisarmWatchdog
  <2>1. Command("stop")
    BY <1>12 DEF DisarmWatchdog
  <2>2. /\ commands' \in Seq({"start", "reset", "stop"})
        /\ Len(commands') <= TimerQueueLength
        /\ UNCHANGED <<m_otaWdt, daemon>>
    BY <2>1, CommandType
  <2> QED BY <1>12, <2>2 DEF TypeOK, DisarmWatchdog, LoopOrDone
<1>13. CASE Decide
  BY <1>13 DEF TypeOK, Decide
<1>14. CASE CloseTcp
  BY <1>14 DEF TypeOK, CloseTcp
<1>15. CASE fotaAbort
  BY <1>15 DEF TypeOK, fotaAbort
<1>16. ASSUME NEW ok \in BOOLEAN, fotaFinish(ok) PROVE TypeOK'
  BY <1>16 DEF TypeOK, fotaFinish
<1>17. ASSUME NEW ok \in BOOLEAN, SetBootPartition(ok) PROVE TypeOK'
  BY <1>17 DEF TypeOK, UpdateInv, Holding, SetBootPartition
<1>18. CASE Confirm
  BY <1>18 DEF TypeOK, Confirm
<1>19. CASE Restart
  BY <1>19, RebootType DEF TypeOK, Restart
<1>20. CASE PowerLoss
  <2>1. powerLosses' \in Nat
    BY <1>20 DEF TypeOK, PowerLoss
  <2> QED BY <1>20, <2>1, RebootType DEF PowerLoss
<1>21. CASE ProcessCommand
  <2>1. /\ Tail(commands) \in Seq({"start", "reset", "stop"})
        /\ Len(Tail(commands)) <= TimerQueueLength
    BY <1>21 DEF TypeOK, ProcessCommand
  <2> QED BY <1>21, <2>1 DEF TypeOK, ProcessCommand
<1>22. CASE Expire
  BY <1>22 DEF TypeOK, Expire
<1>23. CASE WdtFails
  BY <1>23 DEF TypeOK, WdtFails
<1>24. CASE WdtCloses
  BY <1>24 DEF TypeOK, WdtCloses
<1> QED
  BY <1>1, <1>2, <1>3, <1>4, <1>5, <1>6, <1>7, <1>8, <1>9, <1>10, <1>11, <1>12, <1>13, <1>14, <1>15, <1>16, <1>17, <1>18, <1>19, <1>20, <1>21, <1>22, <1>23, <1>24
     DEF Next, TaskStep, DaemonStep, HostStep

-----------------------------------------------------------------------------
(* Every step keeps the update invariant.                                  *)
LEMMA NextUpdateInv == TypeOK /\ UpdateInv /\ Next => UpdateInv'
<1> SUFFICES ASSUME TypeOK, UpdateInv, Next PROVE UpdateInv'
  OBVIOUS
<1> USE OtaConstants DEF sizeVars, handleVars, timerVars, flashVars, bounds, announced,
                         Holding
<1>1. ASSUME NEW port \in Ports, NEW size \in Sizes, Announcement(port, size) PROVE UpdateInv'
  BY <1>1 DEF TypeOK, UpdateInv, Announcement
<1>2. ASSUME NEW ok \in BOOLEAN, Reply(ok) PROVE UpdateInv'
  BY <1>2 DEF TypeOK, UpdateInv, Reply
<1>3. ASSUME NEW socket \in BOOLEAN, NEW ok \in BOOLEAN, ConnectTcp(socket, ok) PROVE UpdateInv'
  BY <1>3 DEF TypeOK, UpdateInv, ConnectTcp
<1>4. ASSUME NEW ok \in BOOLEAN, fotaBegin(ok) PROVE UpdateInv'
  BY <1>4, NextPartitionDiffers DEF TypeOK, UpdateInv, fotaBegin
<1>5. CASE ArmWatchdog
  BY <1>5 DEF TypeOK, UpdateInv, ArmWatchdog, Command, LoopOrDone
<1>6. ASSUME NEW n \in 1..BufferSize, Recv(n) PROVE UpdateInv'
  BY <1>6 DEF TypeOK, UpdateInv, Recv
<1>7. CASE RecvFails
  BY <1>7 DEF TypeOK, UpdateInv, RecvFails, Fail
<1>8. CASE CheckFailed
  BY <1>8 DEF TypeOK, UpdateInv, CheckFailed, Fail
<1>9. ASSUME NEW ok \in BOOLEAN, SendLength(ok) PROVE UpdateInv'
  BY <1>9 DEF TypeOK, UpdateInv, SendLength, Fail
<1>10. ASSUME NEW ok \in BOOLEAN, fotaWrite(ok) PROVE UpdateInv'
  BY <1>10 DEF TypeOK, UpdateInv, fotaWrite, Fail
<1>11. CASE FeedWatchdog
  BY <1>11 DEF TypeOK, UpdateInv, FeedWatchdog, Command, LoopOrDone
<1>12. CASE DisarmWatchdog
  BY <1>12 DEF TypeOK, UpdateInv, DisarmWatchdog, Command
<1>13. CASE Decide
  BY <1>13 DEF TypeOK, UpdateInv, Decide
<1>14. CASE CloseTcp
  BY <1>14 DEF TypeOK, UpdateInv, CloseTcp
<1>15. CASE fotaAbort
  BY <1>15 DEF TypeOK, UpdateInv, fotaAbort
<1>16. ASSUME NEW ok \in BOOLEAN, fotaFinish(ok) PROVE UpdateInv'
  BY <1>16 DEF TypeOK, UpdateInv, fotaFinish
<1>17. ASSUME NEW ok \in BOOLEAN, SetBootPartition(ok) PROVE UpdateInv'
  BY <1>17 DEF TypeOK, UpdateInv, SetBootPartition
<1>18. CASE Confirm
  BY <1>18 DEF TypeOK, UpdateInv, Confirm
<1>19. CASE Restart
  BY <1>19 DEF TypeOK, UpdateInv, Restart, Reboot
<1>20. CASE PowerLoss
  BY <1>20 DEF TypeOK, UpdateInv, PowerLoss, Reboot
<1>21. CASE ProcessCommand
  BY <1>21 DEF TypeOK, UpdateInv, ProcessCommand
<1>22. CASE Expire
  BY <1>22 DEF TypeOK, UpdateInv, Expire
<1>23. CASE WdtFails
  BY <1>23 DEF TypeOK, UpdateInv, WdtFails
<1>24. CASE WdtCloses
  BY <1>24 DEF TypeOK, UpdateInv, WdtCloses
<1> QED
  BY <1>1, <1>2, <1>3, <1>4, <1>5, <1>6, <1>7, <1>8, <1>9, <1>10, <1>11, <1>12, <1>13, <1>14, <1>15, <1>16, <1>17, <1>18, <1>19, <1>20, <1>21, <1>22, <1>23, <1>24
     DEF Next, TaskStep, DaemonStep, HostStep

LEMMA InitUpdateInv == Init => UpdateInv
BY OtaConstants DEF Init, Started, UpdateInv, Holding

(* The types and the update invariant are inductive together.              *)
LEMMA Invariance == Spec => [](TypeOK /\ UpdateInv)
<1>1. Init => TypeOK /\ UpdateInv
  BY InitType, InitUpdateInv
<1>2. TypeOK /\ UpdateInv /\ [Next]_vars => (TypeOK /\ UpdateInv)'
  <2>1. TypeOK /\ UpdateInv /\ UNCHANGED vars => (TypeOK /\ UpdateInv)'
    BY DEF vars, volatile, sizeVars, handleVars, timerVars, bounds, announced,
           TypeOK, UpdateInv
  <2> QED BY <2>1, NextType, NextUpdateInv
<1> QED BY <1>1, <1>2, PTL DEF Spec

(* Type correctness for every value of the constants.                      *)
THEOREM TypeCorrect == Spec => []TypeOK
BY Invariance, PTL

(* The update handle is sound and a finished transfer is whole, always.    *)
THEOREM UpdateInvariant == Spec => []UpdateInv
BY Invariance, PTL

(* The assertions of fotaWrite, fotaFinish and fotaAbort never fail.       *)
THEOREM AssertionsHold == Spec => []NoAssertFails
<1>1. UpdateInv => NoAssertFails
  BY OtaConstants DEF UpdateInv, NoAssertFails, Holding
<1> QED BY <1>1, UpdateInvariant, PTL

-----------------------------------------------------------------------------
(* What a session leaves.                                                  *)

\* Where the task has not armed the watchdog, or has queued its end.
Unarmed == pc \notin {"recv", "check", "ack", "write", "feed", "disarm"}

(* Outside handleOTA's transfer nothing is open, and the watchdog's last   *)
(* command was to stop it: when the daemon has no more commands the        *)
(* watchdog is dormant, and while it has some the last is a stop.          *)
RestInv ==
    /\ pc \in {"recvfrom", "reply", "connect", "begin", "close_after_abort"} =>
          update = "none" /\ m_directOtaHandle = 0
    /\ Unarmed => IF commands = <<>> THEN m_otaWdt = "dormant"
                  ELSE commands[Len(commands)] = "stop"

(* The command that is queued last is the last in the queue.               *)
LEMMA LastCommand ==
    ASSUME TypeOK, NEW name, Command(name)
    PROVE  commands' # <<>> /\ commands'[Len(commands')] = name
BY DEF TypeOK, Command

(* Taking the first command keeps the last one, unless it was the same.    *)
LEMMA LastOfTail ==
    ASSUME NEW S, NEW q \in Seq(S), q # <<>>
    PROVE  IF Tail(q) = <<>> THEN Head(q) = q[Len(q)]
           ELSE Tail(q)[Len(Tail(q))] = q[Len(q)]
OBVIOUS

(* Every step keeps it.                                                    *)
LEMMA NextRestInv == TypeOK /\ RestInv /\ Next => RestInv'
<1> SUFFICES ASSUME TypeOK, RestInv, Next PROVE RestInv'
  OBVIOUS
<1> USE DEF sizeVars, handleVars, timerVars, flashVars, bounds, announced
<1>1. ASSUME NEW port \in Ports, NEW size \in Sizes, Announcement(port, size) PROVE RestInv'
  BY <1>1 DEF RestInv, Unarmed, Announcement
<1>2. ASSUME NEW ok \in BOOLEAN, Reply(ok) PROVE RestInv'
  BY <1>2 DEF RestInv, Unarmed, Reply
<1>3. ASSUME NEW socket \in BOOLEAN, NEW ok \in BOOLEAN, ConnectTcp(socket, ok) PROVE RestInv'
  BY <1>3 DEF RestInv, Unarmed, ConnectTcp
<1>4. ASSUME NEW ok \in BOOLEAN, fotaBegin(ok) PROVE RestInv'
  BY <1>4 DEF RestInv, Unarmed, fotaBegin
<1>5. CASE ArmWatchdog
  BY <1>5 DEF RestInv, Unarmed, ArmWatchdog, LoopOrDone
<1>6. ASSUME NEW n \in 1..BufferSize, Recv(n) PROVE RestInv'
  BY <1>6 DEF RestInv, Unarmed, Recv
<1>7. CASE RecvFails
  BY <1>7 DEF RestInv, Unarmed, RecvFails, Fail
<1>8. CASE CheckFailed
  BY <1>8 DEF RestInv, Unarmed, CheckFailed, Fail
<1>9. ASSUME NEW ok \in BOOLEAN, SendLength(ok) PROVE RestInv'
  BY <1>9 DEF RestInv, Unarmed, SendLength, Fail
<1>10. ASSUME NEW ok \in BOOLEAN, fotaWrite(ok) PROVE RestInv'
  BY <1>10 DEF RestInv, Unarmed, fotaWrite, Fail
<1>11. CASE FeedWatchdog
  BY <1>11 DEF RestInv, Unarmed, FeedWatchdog, LoopOrDone
<1>12. CASE DisarmWatchdog
  <2>1. Command("stop")
    BY <1>12 DEF DisarmWatchdog
  <2>2. commands' # <<>> /\ commands'[Len(commands')] = "stop"
    BY <2>1, LastCommand
  <2> QED BY <1>12, <2>2 DEF RestInv, Unarmed, DisarmWatchdog
<1>13. CASE Decide
  BY <1>13 DEF RestInv, Unarmed, Decide
<1>14. CASE CloseTcp
  BY <1>14 DEF RestInv, Unarmed, CloseTcp
<1>15. CASE fotaAbort
  BY <1>15 DEF RestInv, Unarmed, fotaAbort
<1>16. ASSUME NEW ok \in BOOLEAN, fotaFinish(ok) PROVE RestInv'
  BY <1>16 DEF RestInv, Unarmed, fotaFinish
<1>17. ASSUME NEW ok \in BOOLEAN, SetBootPartition(ok) PROVE RestInv'
  BY <1>17 DEF RestInv, Unarmed, SetBootPartition
<1>18. CASE Confirm
  BY <1>18 DEF RestInv, Unarmed, Confirm
<1>19. CASE Restart
  BY <1>19 DEF RestInv, Unarmed, Restart, Reboot
<1>20. CASE PowerLoss
  BY <1>20 DEF RestInv, Unarmed, PowerLoss, Reboot
<1>21. CASE ProcessCommand
  <2>1. IF Tail(commands) = <<>> THEN Head(commands) = commands[Len(commands)]
        ELSE Tail(commands)[Len(Tail(commands))] = commands[Len(commands)]
    BY <1>21, LastOfTail DEF TypeOK, ProcessCommand
  <2> QED BY <1>21, <2>1 DEF RestInv, Unarmed, ProcessCommand
<1>22. CASE Expire
  BY <1>22 DEF RestInv, Unarmed, Expire
<1>23. CASE WdtFails
  BY <1>23 DEF RestInv, Unarmed, WdtFails
<1>24. CASE WdtCloses
  BY <1>24 DEF RestInv, Unarmed, WdtCloses
<1> QED
  BY <1>1, <1>2, <1>3, <1>4, <1>5, <1>6, <1>7, <1>8, <1>9, <1>10, <1>11, <1>12, <1>13, <1>14, <1>15, <1>16, <1>17, <1>18, <1>19, <1>20, <1>21, <1>22, <1>23, <1>24
     DEF Next, TaskStep, DaemonStep, HostStep

(* Every way out of handleOTA leaves no open update, no handle and, once   *)
(* the timer daemon has worked off its queue, no armed watchdog.           *)
THEOREM NothingLeft == Spec => []SessionLeavesNothing
<1>1. Init => RestInv
  BY DEF Init, Started, RestInv, Unarmed
<1>2. TypeOK /\ RestInv /\ [Next]_vars => RestInv'
  <2>1. RestInv /\ UNCHANGED vars => RestInv'
    BY DEF vars, volatile, sizeVars, handleVars, timerVars, announced, RestInv, Unarmed
  <2> QED BY <2>1, NextRestInv
<1>3. RestInv => SessionLeavesNothing
  BY DEF RestInv, Unarmed, SessionLeavesNothing
<1> QED BY <1>1, <1>2, <1>3, TypeCorrect, PTL DEF Spec

-----------------------------------------------------------------------------
(* The refinement: each step writes the spare partition, activates a       *)
(* complete one, reboots, or leaves the three variables alone.             *)
LEMMA NextAB == TypeOK /\ UpdateInv /\ Next => AB!Next \/ UNCHANGED AB!vars
<1> SUFFICES ASSUME TypeOK, UpdateInv, Next
             PROVE  AB!Next \/ UNCHANGED AB!vars
  OBVIOUS
<1> USE OtaConstants DEF sizeVars, handleVars, timerVars, flashVars, bounds, announced
<1>1. ASSUME NEW port \in Ports, NEW size \in Sizes, Announcement(port, size) PROVE AB!Next \/ UNCHANGED AB!vars
  BY <1>1 DEF AB!vars, Announcement
<1>2. ASSUME NEW ok \in BOOLEAN, Reply(ok) PROVE AB!Next \/ UNCHANGED AB!vars
  BY <1>2 DEF AB!vars, Reply
<1>3. ASSUME NEW socket \in BOOLEAN, NEW ok \in BOOLEAN, ConnectTcp(socket, ok) PROVE AB!Next \/ UNCHANGED AB!vars
  BY <1>3 DEF AB!vars, ConnectTcp
<1>4. ASSUME NEW ok \in BOOLEAN, fotaBegin(ok) PROVE AB!Next \/ UNCHANGED AB!vars
  <2>1. CASE ok \/ slot' = [slot EXCEPT ![NextPartition] = "partial"]
    <3>1. AB!Write(NextPartition, "partial")
      BY <1>4, <2>1, NextPartitionDiffers DEF TypeOK, UpdateInv, fotaBegin, AB!Write
    <3> QED BY <3>1, NextPartitionDiffers DEF AB!Next, TypeOK
  <2>2. CASE ~ok /\ UNCHANGED slot
    BY <1>4, <2>2 DEF fotaBegin, AB!vars
  <2> QED BY <1>4, <2>1, <2>2 DEF fotaBegin
<1>5. CASE ArmWatchdog
  BY <1>5 DEF AB!vars, ArmWatchdog, Command, LoopOrDone
<1>6. ASSUME NEW n \in 1..BufferSize, Recv(n) PROVE AB!Next \/ UNCHANGED AB!vars
  BY <1>6 DEF AB!vars, Recv
<1>7. CASE RecvFails
  BY <1>7 DEF AB!vars, RecvFails, Fail
<1>8. CASE CheckFailed
  BY <1>8 DEF AB!vars, CheckFailed, Fail
<1>9. ASSUME NEW ok \in BOOLEAN, SendLength(ok) PROVE AB!Next \/ UNCHANGED AB!vars
  BY <1>9 DEF AB!vars, SendLength, Fail
<1>10. ASSUME NEW ok \in BOOLEAN, fotaWrite(ok) PROVE AB!Next \/ UNCHANGED AB!vars
  BY <1>10 DEF AB!vars, fotaWrite, Fail
<1>11. CASE FeedWatchdog
  BY <1>11 DEF AB!vars, FeedWatchdog, Command, LoopOrDone
<1>12. CASE DisarmWatchdog
  BY <1>12 DEF AB!vars, DisarmWatchdog, Command
<1>13. CASE Decide
  BY <1>13 DEF AB!vars, Decide
<1>14. CASE CloseTcp
  BY <1>14 DEF AB!vars, CloseTcp
<1>15. CASE fotaAbort
  BY <1>15 DEF AB!vars, fotaAbort
<1>16. ASSUME NEW ok \in BOOLEAN, fotaFinish(ok) PROVE AB!Next \/ UNCHANGED AB!vars
  <2>1. CASE /\ m_directOtaAccumulatedSize = m_directOtaSize
             /\ ok /\ written = m_otaSize
    <3>1. AB!Write(m_updatePartition, "complete")
      BY <1>16, <2>1 DEF UpdateInv, Holding, fotaFinish, AB!Write
    <3> QED BY <1>16, <3>1 DEF AB!Next, UpdateInv, Holding, fotaFinish
  <2>2. CASE ~ (/\ m_directOtaAccumulatedSize = m_directOtaSize
               /\ ok /\ written = m_otaSize)
    BY <1>16, <2>2 DEF fotaFinish, AB!vars
  <2> QED BY <2>1, <2>2
<1>17. ASSUME NEW ok \in BOOLEAN, SetBootPartition(ok) PROVE AB!Next \/ UNCHANGED AB!vars
  <2>1. CASE ok
    <3>1. AB!Activate(m_updatePartition)
      BY <1>17, <2>1 DEF UpdateInv, SetBootPartition, AB!Activate
    <3> QED BY <1>17, <3>1 DEF AB!Next, UpdateInv, Holding, SetBootPartition
  <2>2. CASE ~ok
    BY <1>17, <2>2 DEF SetBootPartition, AB!vars
  <2> QED BY <2>1, <2>2
<1>18. CASE Confirm
  BY <1>18 DEF AB!vars, Confirm
<1>19. CASE Restart
  BY <1>19 DEF Restart, Reboot, AB!Next, AB!Reboot
<1>20. CASE PowerLoss
  BY <1>20 DEF PowerLoss, Reboot, AB!Next, AB!Reboot
<1>21. CASE ProcessCommand
  BY <1>21 DEF AB!vars, ProcessCommand
<1>22. CASE Expire
  BY <1>22 DEF AB!vars, Expire
<1>23. CASE WdtFails
  BY <1>23 DEF AB!vars, WdtFails
<1>24. CASE WdtCloses
  BY <1>24 DEF AB!vars, WdtCloses
<1> QED
  BY <1>1, <1>2, <1>3, <1>4, <1>5, <1>6, <1>7, <1>8, <1>9, <1>10, <1>11, <1>12, <1>13, <1>14, <1>15, <1>16, <1>17, <1>18, <1>19, <1>20, <1>21, <1>22, <1>23, <1>24
     DEF Next, TaskStep, DaemonStep, HostStep

(* DirectOta implements ABUpdate.                                          *)
THEOREM Implements == Spec => IsABUpdate
<1>1. Init => AB!Init
  BY OtaConstants DEF Init, Started, AB!Init
<1>2. TypeOK /\ UpdateInv /\ [Next]_vars => [AB!Next]_AB!vars
  <2>1. UNCHANGED vars => UNCHANGED AB!vars
    BY DEF vars, AB!vars
  <2> QED BY <2>1, NextAB
<1> QED BY <1>1, <1>2, TypeCorrect, UpdateInvariant, PTL DEF Spec, IsABUpdate, AB!Spec

(* Whatever fails and whenever the power goes, the device can boot.        *)
THEOREM AlwaysBootable == Spec => []AB!Bootable
<1>1. UpdateInv => AB!Bootable
  BY DEF UpdateInv, AB!Bootable
<1> QED BY <1>1, UpdateInvariant, PTL
=============================================================================
