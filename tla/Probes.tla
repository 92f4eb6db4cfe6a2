------------------------------- MODULE Probes -------------------------------
(***************************************************************************)
(* The managers that probe a controller when they are started and report   *)
(* it: emmcmgr.cpp, genetmgr.cpp, usbaudmgr.cpp and httpmgr.cpp.  Each     *)
(* subscribes to its command and then gives that command itself.           *)
(***************************************************************************)
EXTENDS Pps

CONSTANT Resets  \* how the EMMC reset may end: a subset of BOOLEAN

ASSUME ProbesAssumption == Resets \in (SUBSET BOOLEAN) \ {{}}

EmmcMain  == <<Subscribe("emmc"), Pub("cmd/mount", "value", 1)>>
GenetMain == <<Subscribe("genet"), Pub("cmd/netstart", "value", 1)>>
\* Mutant: the command is given before the subscription.
BugStartsFirst == <<Pub("http/status", "state", "init"), Pub("http/status", "port", 9090),
                    Pub("cmd/httpstart", "value", 1), Subscribe("http")>>

HttpMain  == <<Pub("http/status", "state", "init"), Pub("http/status", "port", 9090),
               Subscribe("http"), Pub("cmd/httpstart", "value", 1)>>
UsbAudioMain == <<Pub("usb/audio", "state", "init"), Subscribe("usbaudio"),
                  Pub("cmd/usbinit", "value", 1)>>

EmmcHandles(n) == <<[do |-> "emmc reset"]>>

GenetHandles(n) ==
    <<Pub("net/status", "mac", "read from the UMAC"), Pub("net/status", "state", "reset"),
      Pub("net/status", "hostname", "rp4.local"),
      Pub("net/status", "state", "waiting for PHY/DMA init")>>

HttpHandles(n) ==
    <<Pub("http/status", "state", "waiting for GENET driver"),
      Pub("http/status", "hostname", "rp4.local")>>

\* readable: the capabilities read_span accepts.
UsbAudioHandles(n, readable) ==
    CASE n.path = "cmd/usbinit" ->
            <<Pub("usb/status", "xhci_version", 1), Pub("usb/status", "ports", 5),
              Pub("usb/audio", "state", "needs xHCI init")>>
      [] n.path = "audio/usb" ->
            IF n.value \notin readable THEN <<>>
            ELSE <<Pub("usb/audio", "state", "playing"), Pub("usb/audio", "frames", n.value),
                   Pub("usb/audio", "state", "idle")>>

-----------------------------------------------------------------------------
\* The version is read and published only after a reset that ended in time.
EmmcReset == /\ Runs("emmc reset")
             /\ \E ended \in Resets :
                    Continue(IF ended THEN <<Pub("emmc/status", "version", 3),
                                             Pub("emmc/status", "state", "reset ok")>>
                             ELSE <<Pub("emmc/status", "state", "reset failed")>>)
             /\ UNCHANGED <<objects, subs>>

ProbesNext == EmmcReset
=============================================================================
