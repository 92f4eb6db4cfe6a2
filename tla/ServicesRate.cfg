SPECIFICATION Spec
INVARIANT StreamsAtSourceRate
CONSTANTS
    DefaultRate = 48000
    ToneRate = 48000
    Acks = {TRUE}
    Names <- AllNames
    Cut <- CutNames
    MaxFiles = 3
    Mailbox = {"no answer", "no buffer", "empty buffer", "buffer"}
    UsbPaths = {"usb/bt"}
    Dongles = {"usb/bt"}
    Card <- Tracks
    CoverName = "cover"
    CanMount = {TRUE, FALSE}
    Builds = {"host", "target"}
    Resets = {TRUE, FALSE}
    Setups <- Systems
