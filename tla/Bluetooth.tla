----------------------------- MODULE Bluetooth -----------------------------
(***************************************************************************)
(* btmgr.cpp: whether a Bluetooth dongle is plugged in, learnt from what   *)
(* the USB driver publishes below /pps/usb/.                               *)
(***************************************************************************)
EXTENDS Pps

CONSTANTS UsbPaths,  \* the objects of the devices below /pps/usb/
          Dongles    \* those that are Bluetooth dongles

ASSUME BluetoothAssumption == Dongles \subseteq UsbPaths

VARIABLES dongle,   \* dongle_present
          plugged   \* the devices that are plugged in

bluetoothVars == <<dongle, plugged>>

BluetoothInit == dongle = FALSE /\ plugged = {}

BtStatus(key, value) == Pub("bt/status", key, value)

BluetoothMain == <<BtStatus("state", "no dongle"), Subscribe("bluetooth")>>

DongleFound(path) == <<[do |-> "dongle", present |-> TRUE],
                       BtStatus("state", "dongle found"), BtStatus("dongle", path),
                       BtStatus("state", "needs HCI init")>>

DongleRemoved == <<[do |-> "dongle", present |-> FALSE], BtStatus("state", "no dongle")>>

\* The handler of /pps/usb/ sees every device.
UsbEvent(n) ==
    (IF n.key = "subclass" /\ n.value = "bluetooth" THEN DongleFound(n.path) ELSE <<>>)
        \o (IF n.key = "state" /\ n.value = "removed" THEN DongleRemoved ELSE <<>>)

Pair == IF ~dongle THEN <<BtStatus("error", "no dongle")>>
        ELSE <<BtStatus("state", "pairing"), BtStatus("state", "needs HCI pairing impl")>>

BluetoothPaths == UsbPaths \cup {"cmd/btpair", "cmd/btdisco"}

BluetoothHandles(n) ==
    CASE n.path \in UsbPaths    -> UsbEvent(n)
      [] n.path = "cmd/btpair"  -> Pair
      [] n.path = "cmd/btdisco" -> <<BtStatus("state", "disconnected")>>

-----------------------------------------------------------------------------
SetDongle == /\ Runs("dongle")
             /\ dongle' = Now.present
             /\ Continue(<<>>)
             /\ UNCHANGED <<objects, subs, plugged>>

BluetoothNext == SetDongle
=============================================================================
