------------------------------ MODULE DirectOta ------------------------------
(***************************************************************************)
(* network/esparrag_fota.{h,cpp}: firmware update over the local network.  *)
(* A task waits for a UDP announcement, connects to the announcing host    *)
(* and writes what it receives to the partition that is not running.  A    *)
(* FreeRTOS software timer, whose callback runs in the timer daemon, is    *)
(* the watchdog of the transfer: xTimerStart, xTimerReset and xTimerStop   *)
(* only queue commands for the daemon, so that the watchdog may bite after *)
(* the transfer, or the session, it was started for.  lwIP, esp_ota_ops,   *)
(* the timer service and the host are external.                            *)
(***************************************************************************)
EXTENDS Integers, Sequences

CONSTANTS
    Ports, Sizes,       \* what an announcement may contain
    MinPort,            \* the literal 80 of parseUdpMessage
    MinSize,            \* its literal 1000
    BufferSize,         \* TCP_OTA_BUFFER_SIZE
    Slots, Factory,     \* application partitions, and the one first installed
    NoPartition,
    TimerQueueLength,   \* configTIMER_QUEUE_LENGTH
    MaxSessions,        \* bound on announcements
    MaxPowerLosses      \* bound on power losses

ASSUME OtaConstants ==
    /\ Ports \subseteq Nat /\ Sizes \subseteq Nat
    /\ MinPort \in Nat /\ MinSize \in Nat
    /\ BufferSize \in Nat \ {0}
    /\ Factory \in Slots
    /\ \A s \in Slots : \E t \in Slots : t # s
    /\ NoPartition \notin Slots
    /\ TimerQueueLength \in Nat \ {0}
    /\ MaxSessions \in Nat /\ MaxPowerLosses \in Nat

VARIABLES
    pc,                     \* where the DIRECT_OTA task is
    m_tcpPort, m_otaSize,
    m_otaFailed,
    m_tcpClientSocket,      \* "none", "open" or "closed"
    m_directOtaHandle,      \* 0, or the handle of esp_ota_begin
    m_updatePartition,
    m_directOtaAccumulatedSize,
    m_directOtaSize,
    bytesReceived, len,     \* handleOTA's locals
    \* the timer service
    m_otaWdt,               \* "dormant" or "active"
    commands,               \* queued for the daemon
    daemon,                 \* where the daemon is in otaWdtHandler
    \* esp_ota_ops and the flash
    update,                 \* "none" or "open": the update esp_ota_ops knows of
    written,                \* bytes written to it
    slot, boot, running,
    \* bounds
    sessions, powerLosses

sizeVars   == <<m_directOtaAccumulatedSize, m_directOtaSize, bytesReceived, len>>
handleVars == <<m_directOtaHandle, m_updatePartition>>
timerVars  == <<m_otaWdt, commands, daemon>>
flashVars  == <<update, written, slot, boot, running>>
bounds     == <<sessions, powerLosses>>
announced  == <<m_tcpPort, m_otaSize>>
volatile   == <<pc, announced, m_otaFailed, m_tcpClientSocket, handleVars, sizeVars,
                timerVars, update, written>>
vars == <<volatile, slot, boot, running, bounds>>

TypeOK ==
    /\ pc \in {"recvfrom", "reply", "connect", "begin", "arm", "recv", "check", "ack",
               "write", "feed", "disarm", "decide", "close", "abort", "finish",
               "set_boot", "abort_then_close", "close_after_abort", "confirm", "restart"}
    /\ m_tcpPort \in Int /\ m_otaSize \in Nat
    /\ m_otaFailed \in BOOLEAN
    /\ m_tcpClientSocket \in {"none", "open", "closed"}
    /\ m_directOtaHandle \in {0, 1}
    /\ m_updatePartition \in Slots \cup {NoPartition}
    /\ m_directOtaAccumulatedSize \in Nat
    /\ m_directOtaSize \in Nat
    /\ bytesReceived \in Nat
    /\ len \in 0..BufferSize
    /\ m_otaWdt \in {"dormant", "active"}
    /\ commands \in Seq({"start", "reset", "stop"})
    /\ Len(commands) <= TimerQueueLength
    /\ daemon \in {"idle", "failing", "closing"}
    /\ update \in {"none", "open"}
    /\ written \in Nat
    /\ slot \in [Slots -> {"complete", "partial"}]
    /\ boot \in Slots /\ running \in Slots
    /\ sessions \in Nat /\ powerLosses \in Nat

\* The state of RAM after Init().
Started ==
    /\ pc = "recvfrom"
    /\ m_tcpPort = 0 /\ m_otaSize = 0
    /\ m_otaFailed = FALSE
    /\ m_tcpClientSocket = "none"
    /\ m_directOtaHandle = 0 /\ m_updatePartition = NoPartition
    /\ m_directOtaAccumulatedSize = 0 /\ m_directOtaSize = 0
    /\ bytesReceived = 0 /\ len = 0
    /\ m_otaWdt = "dormant" /\ commands = <<>> /\ daemon = "idle"
    /\ update = "none" /\ written = 0

Init ==
    /\ Started
    /\ slot = [s \in Slots |-> IF s = Factory THEN "complete" ELSE "partial"]
    /\ boot = Factory /\ running = Factory
    /\ sessions = 0 /\ powerLosses = 0

-----------------------------------------------------------------------------
(* HandleEvents and parseUdpMessage.                                       *)

\* Both tests of parseUdpMessage look at the port.
Accepted(port, size) == port >= MinPort /\ port >= MinSize

Announcement(port, size) ==
    /\ pc = "recvfrom"
    /\ sessions < MaxSessions /\ sessions' = sessions + 1
    /\ m_tcpPort' = port
    /\ m_otaSize' = IF port >= MinPort THEN size ELSE m_otaSize
    /\ pc' = IF Accepted(port, size) THEN "reply" ELSE "recvfrom"
    /\ UNCHANGED <<m_otaFailed, m_tcpClientSocket, handleVars, sizeVars, timerVars,
                   flashVars, powerLosses>>

\* sendto, and if that succeeds the first lines of handleOTA.
Reply(ok) ==
    /\ pc = "reply"
    /\ pc' = IF ok THEN "connect" ELSE "recvfrom"
    /\ m_otaFailed' = IF ok THEN FALSE ELSE m_otaFailed
    /\ UNCHANGED <<announced, m_tcpClientSocket, handleVars, sizeVars, timerVars,
                   flashVars, bounds>>

-----------------------------------------------------------------------------
(* handleOTA.                                                              *)

\* initTcpSocket: a socket that does not connect stays open.
ConnectTcp(socket, ok) ==
    /\ pc = "connect"
    /\ m_tcpClientSocket' = IF socket THEN "open" ELSE "none"
    /\ pc' = IF socket /\ ok THEN "begin" ELSE "recvfrom"
    /\ UNCHANGED <<announced, m_otaFailed, handleVars, sizeVars, timerVars, flashVars,
                   bounds>>

\* External: esp_ota_get_next_update_partition(nullptr).
NextPartition == CHOOSE s \in Slots : s # running

\* fotaBegin; esp_ota_begin erases the partition, also one that it fails with.
fotaBegin(ok) ==
    /\ pc = "begin"
    /\ m_directOtaAccumulatedSize' = 0
    /\ m_updatePartition' = NextPartition
    /\ IF ok
       THEN /\ m_directOtaSize' = m_otaSize
            /\ m_directOtaHandle' = 1
            /\ update' = "open" /\ written' = 0
            /\ slot' = [slot EXCEPT ![NextPartition] = "partial"]
            /\ pc' = "arm"
       ELSE /\ m_directOtaSize' = 0
            /\ pc' = "recvfrom"
            /\ slot' \in {slot, [slot EXCEPT ![NextPartition] = "partial"]}
            /\ UNCHANGED <<m_directOtaHandle, update, written>>
    /\ UNCHANGED <<announced, m_otaFailed, m_tcpClientSocket, bytesReceived, len,
                   timerVars, boot, running, bounds>>

\* xTimerStart, xTimerReset and xTimerStop wait for room in the queue.
Command(name) ==
    /\ Len(commands) < TimerQueueLength
    /\ commands' = Append(commands, name)
    /\ UNCHANGED <<m_otaWdt, daemon>>

LoopOrDone(received) == IF received < m_otaSize THEN "recv" ELSE "disarm"

\* Mutant: the watchdog is first started when data has arrived.
LoopUnguarded ==
    /\ pc = "arm"
    /\ bytesReceived' = 0
    /\ pc' = LoopOrDone(0)
    /\ UNCHANGED <<announced, m_otaFailed, m_tcpClientSocket, handleVars, timerVars,
                   m_directOtaAccumulatedSize, m_directOtaSize, len, flashVars, bounds>>

ArmWatchdog ==
    /\ pc = "arm"
    /\ Command("start")
    /\ bytesReceived' = 0
    /\ pc' = LoopOrDone(0)
    /\ UNCHANGED <<announced, m_otaFailed, m_tcpClientSocket, handleVars,
                   m_directOtaAccumulatedSize, m_directOtaSize, len, flashVars, bounds>>

\* recv returns data; a silent host leaves the task blocked here.
Recv(n) ==
    /\ pc = "recv"
    /\ m_tcpClientSocket = "open"
    /\ n <= m_otaSize - bytesReceived
    /\ len' = n
    /\ pc' = "check"
    /\ UNCHANGED <<announced, m_otaFailed, m_tcpClientSocket, handleVars,
                   m_directOtaAccumulatedSize, m_directOtaSize, bytesReceived, timerVars,
                   flashVars, bounds>>

\* A step of the loop fails: the flag is set and the loop is left.
Fail ==
    /\ m_otaFailed' = TRUE
    /\ pc' = "disarm"

\* The host closes the connection, or the watchdog has closed the socket.
RecvFails ==
    /\ pc = "recv"
    /\ Fail
    /\ UNCHANGED <<announced, m_tcpClientSocket, handleVars, sizeVars, timerVars,
                   flashVars, bounds>>

CheckFailed ==
    /\ pc = "check"
    /\ IF m_otaFailed THEN Fail ELSE pc' = "ack" /\ UNCHANGED m_otaFailed
    /\ UNCHANGED <<announced, m_tcpClientSocket, handleVars, sizeVars, timerVars,
                   flashVars, bounds>>

SendLength(ok) ==
    /\ pc = "ack"
    /\ ok => m_tcpClientSocket = "open"
    /\ IF ok THEN pc' = "write" /\ UNCHANGED m_otaFailed ELSE Fail
    /\ UNCHANGED <<announced, m_tcpClientSocket, handleVars, sizeVars, timerVars,
                   flashVars, bounds>>

\* fotaWrite and the count of what was received.
fotaWrite(ok) ==
    /\ pc = "write"
    /\ m_directOtaAccumulatedSize' = m_directOtaAccumulatedSize + len
    /\ IF ok /\ m_directOtaAccumulatedSize' <= m_directOtaSize
       THEN /\ written' = written + len
            /\ bytesReceived' = bytesReceived + len
            /\ pc' = "feed"
            /\ UNCHANGED m_otaFailed
       ELSE Fail /\ UNCHANGED <<written, bytesReceived>>
    /\ UNCHANGED <<announced, m_tcpClientSocket, handleVars, m_directOtaSize, len,
                   timerVars, update, slot, boot, running, bounds>>

FeedWatchdog ==
    /\ pc = "feed"
    /\ Command("reset")
    /\ pc' = LoopOrDone(bytesReceived)
    /\ UNCHANGED <<announced, m_otaFailed, m_tcpClientSocket, handleVars, sizeVars,
                   flashVars, bounds>>

\* Mutant: the watchdog is stopped only after a good transfer.
DisarmAfterSuccess ==
    /\ pc = "disarm"
    /\ IF m_otaFailed THEN UNCHANGED timerVars ELSE Command("stop")
    /\ pc' = "decide"
    /\ UNCHANGED <<announced, m_otaFailed, m_tcpClientSocket, handleVars, sizeVars,
                   flashVars, bounds>>

DisarmWatchdog ==
    /\ pc = "disarm"
    /\ Command("stop")
    /\ pc' = "decide"
    /\ UNCHANGED <<announced, m_otaFailed, m_tcpClientSocket, handleVars, sizeVars,
                   flashVars, bounds>>

\* Mutant: m_otaFailed is not looked at after the loop.
DecideAlwaysFinish ==
    /\ pc = "decide"
    /\ pc' = "finish"
    /\ UNCHANGED <<announced, m_otaFailed, m_tcpClientSocket, handleVars, sizeVars,
                   timerVars, flashVars, bounds>>

Decide ==
    /\ pc = "decide"
    /\ pc' = IF m_otaFailed THEN "close" ELSE "finish"
    /\ UNCHANGED <<announced, m_otaFailed, m_tcpClientSocket, handleVars, sizeVars,
                   timerVars, flashVars, bounds>>

\* close() of a socket that is already closed fails and is ignored.
CloseTcp ==
    /\ pc \in {"close", "close_after_abort"}
    /\ m_tcpClientSocket' = "closed"
    /\ pc' = IF pc = "close" THEN "abort" ELSE "recvfrom"
    /\ UNCHANGED <<announced, m_otaFailed, handleVars, sizeVars, timerVars, flashVars,
                   bounds>>

\* esp_ota_abort; after a failed esp_ota_end it has nothing left to abort.
fotaAbort ==
    /\ pc \in {"abort", "abort_then_close"}
    /\ update' = "none"
    /\ m_directOtaHandle' = 0
    /\ m_updatePartition' = NoPartition
    /\ pc' = IF pc = "abort" THEN "recvfrom" ELSE "close_after_abort"
    /\ UNCHANGED <<announced, m_otaFailed, m_tcpClientSocket, sizeVars, timerVars,
                   written, slot, boot, running, bounds>>

\* Mutant: the handle is cleared when esp_ota_end has released it.
fotaFinishClearsHandle(valid) ==
    /\ pc = "finish"
    /\ valid => written > 0
    /\ IF m_directOtaAccumulatedSize # m_directOtaSize
       THEN pc' = "abort_then_close" /\ UNCHANGED <<update, slot, m_directOtaHandle>>
       ELSE /\ update' = "none"
            /\ m_directOtaHandle' = 0
            /\ slot' = IF valid /\ written = m_otaSize
                       THEN [slot EXCEPT ![m_updatePartition] = "complete"] ELSE slot
            /\ pc' = IF valid THEN "set_boot" ELSE "abort_then_close"
    /\ UNCHANGED <<announced, m_otaFailed, m_tcpClientSocket, m_updatePartition, sizeVars,
                   timerVars, written, boot, running, bounds>>

\* fotaFinish up to esp_ota_end, which releases the handle even when it fails
\* and fails when nothing was written.
fotaFinish(valid) ==
    /\ pc = "finish"
    /\ valid => written > 0
    /\ IF m_directOtaAccumulatedSize # m_directOtaSize
       THEN pc' = "abort_then_close" /\ UNCHANGED <<update, slot>>
       ELSE /\ update' = "none"
            /\ slot' = IF valid /\ written = m_otaSize
                       THEN [slot EXCEPT ![m_updatePartition] = "complete"] ELSE slot
            /\ pc' = IF valid THEN "set_boot" ELSE "abort_then_close"
    /\ UNCHANGED <<announced, m_otaFailed, m_tcpClientSocket, handleVars, sizeVars,
                   timerVars, written, boot, running, bounds>>

\* The rest of fotaFinish: esp_ota_set_boot_partition.
SetBootPartition(ok) ==
    /\ pc = "set_boot"
    /\ boot' = IF ok THEN m_updatePartition ELSE boot
    /\ pc' = IF ok THEN "confirm" ELSE "abort_then_close"
    /\ UNCHANGED <<announced, m_otaFailed, m_tcpClientSocket, handleVars, sizeVars,
                   timerVars, update, written, slot, running, bounds>>

\* The answer to the host, sent or not, and the end of both sockets.
Confirm ==
    /\ pc = "confirm"
    /\ m_tcpClientSocket' = "closed"
    /\ pc' = "restart"
    /\ UNCHANGED <<announced, m_otaFailed, handleVars, sizeVars, timerVars, flashVars,
                   bounds>>

\* RAM is as Started says again, and the boot loader has chosen.
Reboot ==
    /\ pc' = "recvfrom"
    /\ m_tcpPort' = 0 /\ m_otaSize' = 0
    /\ m_otaFailed' = FALSE
    /\ m_tcpClientSocket' = "none"
    /\ m_directOtaHandle' = 0 /\ m_updatePartition' = NoPartition
    /\ m_directOtaAccumulatedSize' = 0 /\ m_directOtaSize' = 0
    /\ bytesReceived' = 0 /\ len' = 0
    /\ m_otaWdt' = "dormant" /\ commands' = <<>> /\ daemon' = "idle"
    /\ update' = "none" /\ written' = 0
    /\ running' = boot
    /\ UNCHANGED <<slot, boot, sessions>>

Restart == pc = "restart" /\ Reboot /\ UNCHANGED powerLosses

PowerLoss ==
    /\ powerLosses < MaxPowerLosses
    /\ powerLosses' = powerLosses + 1
    /\ Reboot

-----------------------------------------------------------------------------
(* The timer daemon: a queued command, or an expiry and its callback.      *)

\* External: prvProcessReceivedCommands.
ProcessCommand ==
    /\ daemon = "idle"
    /\ commands # <<>>
    /\ m_otaWdt' = IF Head(commands) = "stop" THEN "dormant" ELSE "active"
    /\ commands' = Tail(commands)
    /\ UNCHANGED <<pc, announced, m_otaFailed, m_tcpClientSocket, handleVars, sizeVars,
                   daemon, flashVars, bounds>>

\* External: TCP_RECEIVE_TIMEOUT has passed since the last start or reset.
Expire ==
    /\ daemon = "idle"
    /\ m_otaWdt = "active"
    /\ m_otaWdt' = "dormant"
    /\ daemon' = "failing"
    /\ UNCHANGED <<pc, announced, m_otaFailed, m_tcpClientSocket, handleVars, sizeVars,
                   commands, flashVars, bounds>>

WdtFails ==
    /\ daemon = "failing"
    /\ m_otaFailed' = TRUE
    /\ daemon' = "closing"
    /\ UNCHANGED <<pc, announced, m_tcpClientSocket, handleVars, sizeVars, m_otaWdt,
                   commands, flashVars, bounds>>

\* close() of whatever socket the member names at this moment.
WdtCloses ==
    /\ daemon = "closing"
    /\ m_tcpClientSocket' = IF m_tcpClientSocket = "open" THEN "closed" ELSE m_tcpClientSocket
    /\ daemon' = "idle"
    /\ UNCHANGED <<pc, announced, m_otaFailed, handleVars, sizeVars, m_otaWdt, commands,
                   flashVars, bounds>>

-----------------------------------------------------------------------------
TaskStep ==
    \/ \E ok \in BOOLEAN :
          \/ Reply(ok)
          \/ \E socket \in BOOLEAN : ConnectTcp(socket, ok)
          \/ fotaBegin(ok) \/ SendLength(ok) \/ fotaWrite(ok)
          \/ fotaFinish(ok) \/ SetBootPartition(ok)
    \/ ArmWatchdog \/ CheckFailed \/ FeedWatchdog \/ DisarmWatchdog
    \/ Decide \/ CloseTcp \/ fotaAbort \/ Confirm \/ Restart
    \/ m_tcpClientSocket # "open" /\ RecvFails

DaemonStep == ProcessCommand \/ Expire \/ WdtFails \/ WdtCloses

HostStep ==
    \/ \E port \in Ports, size \in Sizes : Announcement(port, size)
    \/ \E n \in 1..BufferSize : Recv(n)
    \/ m_tcpClientSocket = "open" /\ RecvFails

Next == TaskStep \/ DaemonStep \/ HostStep \/ PowerLoss

Spec == Init /\ [][Next]_vars

(* The task and the timer daemon run and time passes; the host owes us     *)
(* nothing, it may fall silent at any moment.                              *)
Fairness ==
    /\ WF_vars(TaskStep)
    /\ WF_vars(ProcessCommand) /\ WF_vars(Expire)
    /\ WF_vars(WdtFails) /\ WF_vars(WdtCloses)

FairSpec == Spec /\ Fairness

-----------------------------------------------------------------------------
(* Properties.                                                             *)

AB == INSTANCE ABUpdate

(* The update is an A/B update: across sessions, watchdog bites, failures  *)
(* of every library call and power losses, neither the running nor the     *)
(* boot partition is written, and the boot partition changes only to one   *)
(* that holds all the bytes that were announced.                           *)
IsABUpdate == AB!Spec

(* The assertions on the handle and the partition in fotaWrite, fotaFinish *)
(* and fotaAbort never fail.                                               *)
NoAssertFails ==
    pc \in {"write", "finish", "abort", "abort_then_close"} =>
        m_directOtaHandle # 0 /\ m_updatePartition # NoPartition

(* Every way out of handleOTA leaves nothing behind: no open update in     *)
(* esp_ota_ops, no handle, and, once the daemon has worked off its queue,  *)
(* no armed watchdog that would close the next session's socket.           *)
SessionLeavesNothing ==
    pc = "recvfrom" =>
        /\ update = "none"
        /\ m_directOtaHandle = 0
        /\ commands = <<>> => m_otaWdt = "dormant"

\* Where handleOTA holds an update handle, and where the transfer is exact.
Holding == {"arm", "recv", "check", "ack", "write", "feed", "disarm", "decide", "close",
            "abort", "finish", "set_boot", "abort_then_close"}

(* What the proofs need: the handle names a partition that is neither run  *)
(* nor booted, and as long as nothing has failed every byte that was       *)
(* counted has been written, so that a transfer that passes fotaFinish's   *)
(* test has put the whole image there.                                     *)
UpdateInv ==
    /\ slot[boot] = "complete"
    /\ pc \notin {"confirm", "restart"} => running = boot
    /\ pc \in Holding =>
          /\ m_directOtaHandle = 1
          /\ m_updatePartition \in Slots \ {running}
          /\ m_directOtaSize = m_otaSize
    /\ pc \in {"arm", "recv", "check", "ack", "write", "feed", "finish"} \/
          (pc \in {"disarm", "decide"} /\ ~m_otaFailed) =>
          written = m_directOtaAccumulatedSize
    /\ pc = "set_boot" => slot[m_updatePartition] = "complete"

(* A session ends, with a restart or with the task back at recvfrom, even  *)
(* if the host falls silent.                                               *)
SessionEnds == pc # "recvfrom" ~> pc = "recvfrom"
=============================================================================
