---------------------------- MODULE MCServices ----------------------------
(***************************************************************************)
(* Small instances of the services: the services, commands, tracks and     *)
(* devices needed for the cases each property is about.                    *)
(***************************************************************************)
EXTENDS Services

Cmd(key, value) == Pub("cmd/" \o key, "value", value)
Setup(started, commands) == [started |-> started, commands |-> commands, fresh |-> FALSE,
                             devices |-> {}, buffers |-> {}]

\* kernel_main's order (boot.cpp:91-105), with commands for sound and screen.
Booted ==
    [Setup(<<"emmc", "genet", "audio", "memfs", "http", "bluetooth", "display">>,
           <<{Cmd(key, 1) : key \in {"mute", "unmute", "tone", "display"}},
            {Pub("audio/status", "sample_rate", r) : r \in {44100, 48000}},
            {Pub("audio/pcm", "value", 1)}>>)
     EXCEPT !.buffers = {1}]

\* The DAC's registers alone; the volumes are both ends of their range.
Dac == Setup(<<"audio">>, <<{Cmd(key, 1) : key \in {"mute", "unmute"}},
                            {Cmd("volume", 0), Cmd("volume", 255)}>>)

\* storagemgr, once FatFs is there (boot.cpp:106): a track of every format,
\* with and without tags and cover, and one whose contents are damaged.
Track(fmt, titled, cover, rate, sound) ==
    [fmt |-> fmt, sound |-> sound, titled |-> titled, artist |-> titled, cover |-> cover,
     rate |-> rate, bytes |-> 4]
Tracks == [flac |-> Track("flac", TRUE, TRUE, 44100, TRUE),
           plain |-> Track("flac", FALSE, FALSE, 96000, TRUE),
           cut |-> Track("flac", TRUE, FALSE, 44100, FALSE),
           mp3 |-> Track("mp3", FALSE, FALSE, 48000, TRUE),
           dsf |-> Track("dsf", FALSE, FALSE, 176400, TRUE),
           dff |-> Track("dff", FALSE, FALSE, 176400, TRUE),
           ogg |-> Track("ogg", FALSE, FALSE, 48000, TRUE),
           txt |-> Track("unknown", FALSE, FALSE, 0, TRUE)]
TrackNames == DOMAIN Tracks \cup {"cover", "missing"}

\* b is cut to a: a name with a space, or one longer than 63 characters.
FileNames == {"a", "b", "c", "d"}
AllNames == FileNames \cup TrackNames
CutNames == [n \in AllNames |-> IF n = "b" THEN "a" ELSE n]
Request(n, bytes) == [name |-> n, cap |-> bytes, bytes |-> bytes, spaced |-> bytes > 0]

\* Two sizes, and a request without a space (size 0).
Files ==
    Setup(<<"memfs">>,
          <<{Cmd("store", Request(n, bytes)) : n \in {"a", "b", "c"}, bytes \in {0, 1, 2}},
            {Cmd("memrm", Request(n, 0)) : n \in {"a", "b", "c"}}>>)
FreshFiles ==
    [Setup(<<"memfs">>,
           <<{Cmd("store", Request(n, 1)) : n \in FileNames},
             {Cmd(key, Request(n, 0)) : key \in {"load", "memrm"}, n \in FileNames},
             {Cmd("memls", Request("a", 0))}>>)
     EXCEPT !.fresh = TRUE]

Usb ==
    [Setup(<<"bluetooth", "usbaudio">>,
           <<{Cmd(key, 1) : key \in {"btpair", "btdisco", "usbinit"}},
             {Pub("audio/usb", "value", 1)}>>)
     EXCEPT !.devices = {"usb/bt"}, !.buffers = {1}]

Player ==
    Setup(<<"audio", "storage">>,
          <<{Cmd("play", n) : n \in TrackNames \ {"cover"}}, {Cmd("stop", ""), Cmd("ls", "")}>>)

Systems == [booted |-> Booted, dac |-> Dac, files |-> Files, fresh |-> FreshFiles, usb |-> Usb,
            player |-> Player]
=============================================================================
