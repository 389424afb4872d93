------------------------------ MODULE ABUpdate ------------------------------
(***************************************************************************)
(* What an update over the air may do to a device with two application     *)
(* partitions: the partition the device runs from, and the one it would    *)
(* boot from, are never written; the device is told to boot from another   *)
(* partition only when a whole image is in it; and it may lose power at    *)
(* any moment.                                                             *)
(***************************************************************************)
CONSTANTS Slots

VARIABLES
    slot,       \* slot[s]: "complete" or "partial"
    boot,       \* the partition the boot loader will choose
    running     \* the partition the device runs from

vars == <<slot, boot, running>>

Init ==
    /\ slot \in [Slots -> {"complete", "partial"}]
    /\ boot \in Slots
    /\ slot[boot] = "complete"
    /\ running = boot

Write(s, contents) ==
    /\ s # running
    /\ s # boot
    /\ slot' = [slot EXCEPT ![s] = contents]
    /\ UNCHANGED <<boot, running>>

Activate(s) ==
    /\ slot[s] = "complete"
    /\ boot' = s
    /\ UNCHANGED <<slot, running>>

Reboot ==
    /\ running' = boot
    /\ UNCHANGED <<slot, boot>>

Next ==
    \/ \E s \in Slots : Activate(s) \/ \E c \in {"complete", "partial"} : Write(s, c)
    \/ Reboot

Spec == Init /\ [][Next]_vars

(* The device can always boot.                                             *)
Bootable == slot[boot] = "complete"
=============================================================================
