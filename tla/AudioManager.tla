---------------------------- MODULE AudioManager ----------------------------
(***************************************************************************)
(* audiomgr.cpp: mute, unmute, volume, test tone and PCM streaming, with   *)
(* the DAC registers (over I2C) and the I2S clock they drive.              *)
(***************************************************************************)
EXTENDS Pps

CONSTANTS DefaultRate,  \* rp4::config::sample_rate, set up by boot.cpp:59
          Acks,         \* what an I2C write to the DAC may return
          ToneRate      \* the rate play_tone computes its samples for

ASSUME AudioAssumption == /\ DefaultRate \in Nat \ {0} /\ ToneRate \in Nat \ {0}
                          /\ Acks \in (SUBSET BOOLEAN) \ {{}}

VARIABLES dac,    \* the registers of the PCM5122: mute, and the two volumes; and whether
                  \* it missed the last mute or unmute: what dac::mute returned
          clock,  \* the sample rate of the I2S clock
          caps    \* the capabilities read_span accepts

audioVars == <<dac, clock, caps>>

AudioInit == /\ dac = [muted |-> FALSE, missed |-> FALSE, left |-> 48, right |-> 48]
             /\ clock = DefaultRate
             /\ caps = {}

AudioStatus(key, value) == Pub("audio/status", key, value)

AudioMain == <<AudioStatus("state", "idle"), AudioStatus("format", "48kHz/16-bit/2ch"),
               Subscribe("audio")>>

\* The rate the publisher of a buffer announced; without one, the default.
SourceRate ==
    IF Published("audio/status", "sample_rate") /\ objects[<<"audio/status", "sample_rate">>] > 0
    THEN objects[<<"audio/status", "sample_rate">>]
    ELSE DefaultRate

SelectClock == IF SourceRate # DefaultRate THEN <<[do |-> "set clock", rate |-> SourceRate]>> ELSE <<>>

\* Mutant: "playing" is published after the samples.
BugStreamsFirst(rate, cap) == <<[do |-> "stream", rate |-> rate, cap |-> cap],
                                AudioStatus("state", "playing"),
                                AudioStatus("state", "idle")>>

\* A buffer or the tone goes to the FIFO between the two states.
Streaming(rate, cap) == <<AudioStatus("state", "playing"),
                          [do |-> "stream", rate |-> rate, cap |-> cap],
                          AudioStatus("state", "idle")>>

NoCap == {}
PlayTone == Streaming(ToneRate, NoCap)

PlayPcm(cap) == IF cap \in caps THEN SelectClock \o Streaming(SourceRate, {cap}) ELSE <<>>

\* Mutant: unmuting publishes nothing.
BugQuietUnmute(on) == <<[do |-> "mute", on |-> on]>>
                          \o (IF on THEN <<AudioStatus("state", "muted")>> ELSE <<>>)

Mute(on) == <<[do |-> "mute", on |-> on],
              AudioStatus("state", IF on THEN "muted" ELSE "idle")>>

SetVolume(v) == <<[do |-> "volume", level |-> v % 256], AudioStatus("volume", v)>>

AudioPaths == {"cmd/mute", "cmd/unmute", "cmd/volume", "cmd/tone", "audio/pcm"}

AudioHandles(n) ==
    CASE n.path = "cmd/mute"   -> Mute(TRUE)
      [] n.path = "cmd/unmute" -> Mute(FALSE)
      [] n.path = "cmd/volume" -> SetVolume(n.value)
      [] n.path = "cmd/tone"   -> PlayTone
      [] n.path = "audio/pcm"  -> PlayPcm(n.value)

-----------------------------------------------------------------------------
\* A register keeps its value when the DAC does not acknowledge the write, or is
\* not there; audiomgr ignores what dac::mute returns.
DacMute == /\ Runs("mute")
           /\ \E ack \in Acks : dac' = [dac EXCEPT !.muted  = IF ack THEN Now.on ELSE @,
                                                   !.missed = ~ack]
           /\ Continue(<<>>)
           /\ UNCHANGED <<objects, subs, clock, caps>>

\* The right channel is written only when the left one was acknowledged.
DacVolume == /\ Runs("volume")
             /\ \E left, right \in Acks :
                    dac' = [dac EXCEPT !.left  = IF left THEN Now.level ELSE @,
                                       !.right = IF left /\ right THEN Now.level ELSE @]
             /\ Continue(<<>>)
             /\ UNCHANGED <<objects, subs, clock, caps>>

SetClock == /\ Runs("set clock")
            /\ clock' = Now.rate
            /\ Continue(<<>>)
            /\ UNCHANGED <<objects, subs, dac, caps>>

\* Every sample has been accepted by the FIFO.
Stream == /\ Runs("stream")
          /\ Continue(<<>>)
          /\ UNCHANGED <<objects, subs, dac, clock, caps>>

AudioNext == DacMute \/ DacVolume \/ SetClock \/ Stream
=============================================================================
