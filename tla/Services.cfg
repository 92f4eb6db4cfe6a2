SPECIFICATION FairSpec
INVARIANT BarShowsPlaying
INVARIANT StatusTellsMute
INVARIANT AutoStarted
INVARIANT PlayCleansUp
INVARIANT TrackStatusWhole
PROPERTY NamedStoreSpec
PROPERTY ReturnsToShell
CONSTANTS
    DefaultRate = 48000
    ToneRate = 48000
    Acks = {TRUE, FALSE}
    Names <- AllNames
    Cut <- CutNames
    MaxFiles = 3
    Mailbox = {"no answer", "no buffer", "empty buffer", "buffer"}
    UsbPaths = {"usb/bt"}
    Dongles = {"usb/bt"}
    Card <- Tracks
    CoverName = "cover"
    CanMount = {TRUE, FALSE}
    Builds = {"host", "target"}
    Resets = {TRUE, FALSE}
    Setups <- Systems
