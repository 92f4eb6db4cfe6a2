--------------------------- MODULE StorageManager ---------------------------
(***************************************************************************)
(* storagemgr.cpp: play, ls and stop over the SD card.  The decoders and   *)
(* FatFs are vendored: what they may answer for a file is a constant.      *)
(* When malloc finds no memory the target build traps, and a host build    *)
(* gets a null pointer.                                                    *)
(***************************************************************************)
EXTENDS Pps

CONSTANTS Card,      \* the files: name -> what is known of the file
          CoverName, \* the name every cover is stored under
          CanMount,  \* whether the card mounts: a subset of BOOLEAN
          Builds     \* the builds looked at: a subset of {"host", "target"}

Whole    == {"mp3", "wav", "aiff"}          \* read whole, then decoded
Dsd      == {"dsf", "dff"}
Unlinked == {"wvpk", "ape", "ogg", "m4a"}   \* recognised, no decoder
Formats  == {"flac", "unknown"} \cup Whole \cup Dsd \cup Unlinked

ASSUME StorageAssumption ==
    /\ CanMount \in (SUBSET BOOLEAN) \ {{}} /\ Builds \in (SUBSET {"host", "target"}) \ {{}}
    /\ \A name \in DOMAIN Card :
          Card[name] \in [fmt : Formats, sound : BOOLEAN, titled : BOOLEAN, artist : BOOLEAN,
                          cover : BOOLEAN, rate : Nat, bytes : Nat]

VARIABLES opened,  \* the file play has open, as a set of at most one name
          held,    \* the buffers play has allocated and not freed
          build,   \* the build that runs
          mounted  \* the card mounts

\* What play changes, and what is fixed when the system is started.
storageVars == <<opened, held, build, mounted>>
fixed == <<build, mounted>>

StorageInit == opened = {} /\ held = {} /\ build \in Builds /\ mounted \in CanMount

\* Whether a call of malloc that returns has found memory.
Allocs == IF build = "host" THEN BOOLEAN ELSE {TRUE}

StorageStatus(key, value) == Pub("storage/status", key, value)
TrackStatus(key, value) == Pub("audio/status", key, value)
StoreBuffer(name, bytes) ==
    Pub("cmd/store", "value", [name |-> name, cap |-> 0, bytes |-> bytes, spaced |-> TRUE])

\* Without a card the service never subscribes.
StorageMain ==
    IF mounted THEN <<StorageStatus("mounted", "true"), Subscribe("storage")>>
    ELSE <<StorageStatus("mounted", "false")>>

Play(name) == <<StorageStatus("decoding", name), [do |-> "open", track |-> name]>>

Ls == <<[do |-> "list"]>>
Stop == <<StorageStatus("state", "idle")>>

StoragePaths == {"cmd/play", "cmd/ls", "cmd/stop"}

StorageHandles(n) ==
    CASE n.path = "cmd/play" -> Play(n.value)
      [] n.path = "cmd/ls"   -> Ls
      [] n.path = "cmd/stop" -> Stop

-----------------------------------------------------------------------------
Close == [do |-> "close"]

Open == /\ Runs("open")
        /\ IF Now.track \in DOMAIN Card
           THEN /\ opened' = {Now.track}
                /\ Continue(<<TrackStatus("format", Card[Now.track].fmt),
                              TrackStatus("magic", Card[Now.track].fmt),
                              [do |-> "decode", track |-> Now.track]>>)
           ELSE /\ Continue(<<StorageStatus("error", "file not found")>>)
                /\ UNCHANGED opened
        /\ UNCHANGED <<objects, subs, held, fixed>>

\* publish_pcm: nothing when there are no samples.
PublishPcm(name, samples) ==
    IF ~samples THEN <<>>
    ELSE <<TrackStatus("title", [track |-> name, from |-> "file name"]),
           TrackStatus("sample_rate", Card[name].rate),
           TrackStatus("channels", name),
           StoreBuffer(name, Card[name].bytes),
           StorageStatus("state", "decoded")>>

\* publish_meta, with the title meta_cb found or the file name in its place.
PublishMeta(name) ==
    (IF Card[name].artist THEN <<TrackStatus("artist", name)>> ELSE <<>>)
      \o <<TrackStatus("title", [track |-> name,
                                 from |-> IF Card[name].titled THEN "tag" ELSE "file name"])>>
      \o (IF Card[name].cover THEN <<StoreBuffer(CoverName, 1), TrackStatus("cover", "true")>>
          ELSE <<>>)

\* Mutant: the tags are published before the decoder has opened the file.
BugTagsFirst(name) ==
    /\ Card[name].fmt = "flac"
    /\ \E samples \in Allocs :
          /\ held' = held \cup (IF Card[name].sound /\ samples THEN {"samples"} ELSE {})
          /\ Continue(PublishMeta(name) \o PublishPcm(name, Card[name].sound /\ samples)
                          \o <<Close>>)

\* A FLAC file is decoded from the card; its samples are never freed.
DecodeFlac(name) ==
    /\ Card[name].fmt = "flac"
    /\ IF ~Card[name].sound
       THEN Continue(<<Close>>) /\ UNCHANGED held
       ELSE \E samples \in Allocs :
                /\ held' = held \cup (IF samples THEN {"samples"} ELSE {})
                /\ Continue(PublishMeta(name) \o PublishPcm(name, samples) \o <<Close>>)

\* MP3, WAV and AIFF are read whole; the copy is freed before the samples
\* are published, and the samples, the decoder's allocation, never are.
DecodeWhole(name) ==
    /\ Card[name].fmt \in Whole
    /\ \E copy, samples \in Allocs :
          IF copy /\ samples /\ Card[name].sound
          THEN /\ held' = held \cup {"samples"}
               /\ Continue(PublishPcm(name, TRUE) \o <<Close>>)
          ELSE Continue(<<Close>>) /\ UNCHANGED held

\* Mutant: an invalid header returns without closing the file.
BugLeavesOpen(name) ==
    /\ Card[name].fmt \in Dsd
    /\ Continue(<<StorageStatus("error", "not valid DSF")>>)
    /\ UNCHANGED held

\* parse_dsf accepts the DSF header only, also for a DSDIFF file.
DecodeDsd(name) ==
    /\ Card[name].fmt \in Dsd
    /\ IF Card[name].fmt = "dff" \/ ~Card[name].sound
       THEN Continue(<<StorageStatus("error", "not valid DSF"), Close>>) /\ UNCHANGED held
       ELSE \E raw, packed \in Allocs :
              /\ held' = held \cup (IF raw THEN {"raw"} ELSE {})
                              \cup (IF raw /\ packed THEN {"packed"} ELSE {})
              /\ Continue((IF raw /\ packed
                           THEN <<TrackStatus("title", [track |-> name, from |-> "file name"]),
                                  TrackStatus("format", "DoP"),
                                  TrackStatus("sample_rate", Card[name].rate),
                                  TrackStatus("channels", name),
                                  TrackStatus("bits_per_sample", "DSD/1-bit"),
                                  StoreBuffer(name, Card[name].bytes),
                                  StorageStatus("state", "decoded (DoP)"),
                                  [do |-> "free", buffer |-> "packed"]>>
                           ELSE <<>>)
                          \o (IF raw THEN <<[do |-> "free", buffer |-> "raw"]>> ELSE <<>>)
                          \o <<Close>>)

NotDecoded(name) ==
    /\ Card[name].fmt \in Unlinked \cup {"unknown"}
    /\ Continue(<<StorageStatus("error", IF Card[name].fmt = "unknown" THEN "unsupported format"
                                         ELSE "decoder not yet linked"), Close>>)
    /\ UNCHANGED held

Decode == /\ Runs("decode")
          /\ \/ DecodeFlac(Now.track)
             \/ DecodeWhole(Now.track)
             \/ DecodeDsd(Now.track)
             \/ NotDecoded(Now.track)
          /\ UNCHANGED <<objects, subs, opened, fixed>>

FreeBuffer == /\ Runs("free")
              /\ held' = held \ {Now.buffer}
              /\ Continue(<<>>)
              /\ UNCHANGED <<objects, subs, opened, fixed>>

CloseFile == /\ Runs("close")
             /\ opened' = {}
             /\ Continue(<<>>)
             /\ UNCHANGED <<objects, subs, held, fixed>>

\* Nothing is published when the root cannot be opened; which names a listing has
\* is left out.
ListRoot == /\ Runs("list")
            /\ \/ Continue(<<>>)
               \/ Continue(<<Pub("storage/listing", "files", "names")>>)
            /\ UNCHANGED <<objects, subs, opened, held, fixed>>

StorageNext == Open \/ Decode \/ FreeBuffer \/ CloseFile \/ ListRoot
=============================================================================
