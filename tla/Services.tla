------------------------------ MODULE Services ------------------------------
(***************************************************************************)
(* The resource managers on their bus.  kernel_main runs the entry of each *)
(* service, then the shell; every command of the shell, and every event of *)
(* a driver, is one publication whose callbacks all run before the next.   *)
(***************************************************************************)
EXTENDS AudioManager, MemFs, DisplayManager, Bluetooth, StorageManager, Probes

CONSTANTS Setups     \* the systems looked at: name -> [started, commands, fresh,
                     \*                               devices, buffers]
                     \*   started: the services, in the order of their entries
                     \*   commands: what the shell and the drivers publish, as a
                     \*     tuple of sets of like values
                     \*   fresh: only names the table does not hold are stored
                     \*   devices: the USB devices that come and go
                     \*   buffers: the capabilities of buffers that may be played

VARIABLE setup       \* which of the setups runs

vars == <<busVars, audioVars, files, displayVars, bluetoothVars, storageVars, setup>>

Started  == ToSet(Setups[setup].started)
Commands == Setups[setup].commands

ServiceNames == {"emmc", "genet", "audio", "memfs", "http", "bluetooth", "display", "storage",
                 "usbaudio"}

\* The entry of a service, the paths it subscribes to, and its callbacks.
Main(service) ==
    CASE service = "emmc"      -> EmmcMain
      [] service = "genet"     -> GenetMain
      [] service = "audio"     -> AudioMain
      [] service = "memfs"     -> MemFsMain
      [] service = "http"      -> HttpMain
      [] service = "bluetooth" -> BluetoothMain
      [] service = "display"   -> DisplayMain
      [] service = "storage"   -> StorageMain
      [] service = "usbaudio"  -> UsbAudioMain

Paths(service) ==
    CASE service = "emmc"      -> {"cmd/mount"}
      [] service = "genet"     -> {"cmd/netstart"}
      [] service = "audio"     -> AudioPaths
      [] service = "memfs"     -> MemFsPaths
      [] service = "http"      -> {"cmd/httpstart"}
      [] service = "bluetooth" -> BluetoothPaths
      [] service = "display"   -> DisplayPaths
      [] service = "storage"   -> StoragePaths
      [] service = "usbaudio"  -> {"cmd/usbinit", "audio/usb"}

Handles(service, n) ==
    CASE service = "emmc"      -> EmmcHandles(n)
      [] service = "genet"     -> GenetHandles(n)
      [] service = "audio"     -> AudioHandles(n)
      [] service = "memfs"     -> MemFsHandles(n)
      [] service = "http"      -> HttpHandles(n)
      [] service = "bluetooth" -> BluetoothHandles(n)
      [] service = "display"   -> DisplayHandles(n)
      [] service = "storage"   -> StorageHandles(n)
      [] service = "usbaudio"  -> UsbAudioHandles(n, caps)

-----------------------------------------------------------------------------
\* kernel_main runs every entry, then the shell.
Init == /\ setup \in DOMAIN Setups
        /\ AudioInit /\ MemFsInit /\ DisplayInit /\ BluetoothInit /\ StorageInit
        /\ "storage" \notin Started => build = "target" /\ mounted
        /\ objects = [x \in {} |-> 0]
        /\ work = [i \in DOMAIN Setups[setup].started |->
                      [do |-> "main", service |-> Setups[setup].started[i]]]
        /\ subs = <<>>

serviceVars == <<audioVars, files, displayVars, bluetoothVars, storageVars, setup>>

CallMain == /\ Runs("main")
            /\ Continue(Main(Now.service))
            /\ UNCHANGED <<objects, subs, serviceVars>>

Subscribes == /\ Runs("subscribe")
              /\ subs' = Append(subs, Now.service)
              /\ Continue(<<>>)
              /\ UNCHANGED <<objects, serviceVars>>

\* The bus goes through the subscriptions, in their order, and calls those whose
\* path it is.  Nothing reads a command object, so what it retains is left out.
CommandPaths == {"cmd/mount", "cmd/netstart", "cmd/httpstart", "cmd/usbinit", "cmd/btpair",
                 "cmd/btdisco", "cmd/display"}
                    \cup MemFsPaths \cup StoragePaths \cup (AudioPaths \ {"audio/pcm"})

\* What the shell and the drivers publish: commands, buffers to play, and the
\* rate of a buffer's samples (never a state of audiomgr's).  A device's object
\* is none of the services'.
ASSUME SetupAssumption ==
    \A name \in DOMAIN Setups :
        /\ Setups[name].started \in Seq(ServiceNames)
        /\ \A i \in DOMAIN Setups[name].commands : \A c \in Setups[name].commands[i] :
              /\ c = Pub(c.path, c.key, c.value)
              /\ \/ c.path \in CommandPaths \cup {"audio/pcm", "audio/usb"}
                 \/ c.path = "audio/status" /\ c.key = "sample_rate"
        /\ Setups[name].devices \cap (CommandPaths \cup {"audio/status", "net/status",
                                                         "http/status"}) = {}

Publish == /\ Runs("publish")
           /\ objects' = IF Now.path \in CommandPaths THEN objects ELSE WithAttribute(Now)
           /\ Continue([i \in DOMAIN subs |-> [do |-> "callback", service |-> subs[i], n |-> Now]])
           /\ UNCHANGED <<subs, serviceVars>>

Callback == /\ Runs("callback")
            /\ Continue(IF Now.n.path \in Paths(Now.service) THEN Handles(Now.service, Now.n)
                        ELSE <<>>)
            /\ UNCHANGED <<objects, subs, serviceVars>>

-----------------------------------------------------------------------------
\* The shell or a driver publishes.
Command == /\ Quiet
           /\ \E i \in DOMAIN Commands : \E c \in Commands[i] :
                 /\ Setups[setup].fresh /\ c.path = "cmd/store" => FindFile(Cut[c.value.name]) = 0
                 /\ work' = <<c>>
           /\ UNCHANGED <<objects, subs, serviceVars>>

\* A USB device appears, or is removed.
Plug == /\ Quiet
        /\ \E d \in Setups[setup].devices \ plugged :
              /\ plugged' = plugged \cup {d}
              /\ work' = <<Pub(d, "subclass", IF d \in Dongles THEN "bluetooth" ELSE "hid")>>
        /\ UNCHANGED <<objects, subs, audioVars, files, displayVars, dongle, storageVars, setup>>

Unplug == /\ Quiet
          /\ \E d \in plugged :
                /\ plugged' = plugged \ {d}
                /\ work' = <<Pub(d, "state", "removed")>>
          /\ UNCHANGED <<objects, subs, audioVars, files, displayVars, dongle, storageVars, setup>>

\* The owner of a buffer maps it and grants it, or unmaps it.
MapBuffer == /\ Quiet
             /\ \E cap \in Setups[setup].buffers : caps' = IF cap \in caps THEN caps \ {cap} ELSE caps \cup {cap}
             /\ UNCHANGED <<busVars, dac, clock, files, displayVars, bluetoothVars,
                            storageVars, setup>>

Step == \/ CallMain \/ Subscribes \/ Publish \/ Callback
        \/ AudioNext     /\ UNCHANGED <<files, displayVars, bluetoothVars, storageVars, setup>>
        \/ MemFsNext     /\ UNCHANGED <<audioVars, displayVars, bluetoothVars, storageVars, setup>>
        \/ DisplayNext   /\ UNCHANGED <<audioVars, files, bluetoothVars, storageVars, setup>>
        \/ BluetoothNext /\ UNCHANGED <<audioVars, files, displayVars, storageVars, setup>>
        \/ StorageNext   /\ UNCHANGED <<audioVars, files, displayVars, bluetoothVars, setup>>
        \/ ProbesNext    /\ UNCHANGED serviceVars

Next == Step \/ Command \/ Plug \/ Unplug \/ MapBuffer

Spec == Init /\ [][Next]_vars
\* The thread runs on; the shell need not be given another line.
FairSpec == Spec /\ WF_vars(Step)

-----------------------------------------------------------------------------
StoredNames == {files[i].name : i \in DOMAIN files}

(***************************************************************************)
(* What must hold.                                                         *)
(***************************************************************************)

\* While samples go to the FIFO the bar is on the screen, if there is one,
\* and when the shell waits it never is: displaymgr has heard every state
\* audiomgr published, the last one last.
BarShowsPlaying == /\ Runs("stream") /\ fb => bar
                   /\ Quiet => ~bar

\* A status that says "muted" is true whenever the shell waits, unless the DAC did
\* not acknowledge the last mute or unmute, of which audiomgr does not take note
\* (audiomgr.cpp:64); an earlier write or one of the volume that was lost is no
\* excuse.
Hushed == dac.muted \/ dac.missed
StatusTellsMute == Quiet /\ Reads("audio/status", "state", "muted") => Hushed

\* When the shell gets its first line every command a service gave itself at
\* its start has reached its handler: no service published before it had
\* subscribed.
AutoStarted ==
    Quiet =>
        /\ "emmc" \in Started => Published("emmc/status", "state")
        /\ "genet" \in Started => Reads("net/status", "state", "waiting for PHY/DMA init")
        /\ "http" \in Started => Reads("http/status", "state", "waiting for GENET driver")
        /\ "display" \in Started => Published("display/status", "state")
        /\ "usbaudio" \in Started => Published("usb/status", "ports")

\* No chain of callbacks runs for ever: the shell gets the thread back.
ReturnsToShell == ~Quiet ~> Quiet

\* With names that are stored once the table is a map from names to buffers:
\* storing adds the name with its capability, removing deletes that name, and
\* neither touches another one.  (Where clients do store a name again the
\* mapping is empty, and nothing is said.)
Clients == INSTANCE NamedStore WITH
               table   <- [name \in IF Setups[setup].fresh THEN StoredNames ELSE {} |->
                              files[FindFile(name)].cap],
               request <- IF Runs("append") THEN [name |-> Now.file.name, cap |-> Now.file.cap]
                          ELSE IF Runs("remove") THEN [name |-> Now.name, cap |-> 0]
                          ELSE [name |-> "", cap |-> 0]
NamedStoreSpec == Clients!Spec

\* play leaves no file open and frees its work buffers on every path.
PlayCleansUp == Quiet => opened = {} /\ held \subseteq {"samples"}

\* The title, sample rate and channels shown belong to one track (in the target
\* build: on the host, samples that cannot be allocated leave the old rate).
TrackStatusWhole ==
    Quiet /\ build = "target" /\ Published("audio/status", "title") =>
        LET track == objects[<<"audio/status", "title">>].track
        IN  /\ Reads("audio/status", "sample_rate", Card[track].rate)
            /\ Reads("audio/status", "channels", track)

(***************************************************************************)
(* What the code says of itself and does not keep.                         *)
(***************************************************************************)

\* "Switch I2S clock to match source sample rate" (audiomgr.cpp:105).
StreamsAtSourceRate == Runs("stream") /\ Now.cap # NoCap => clock = Now.rate
=============================================================================
