------------------------------- MODULE MCBoot -------------------------------
(***************************************************************************)
(* A stack of eight words, so that an entry starts on a full frame or with *)
(* two words more to spare; registers and words that are either the        *)
(* program's own or junk; a word of 30 bits, so that TLC's integers hold   *)
(* what is computed before it wraps; and rates whose divisor runs into the *)
(* password and is accepted with 12 bits (1400 Hz) or refused (2000 Hz),   *)
(* rounds up to a carry (28793 Hz), is ordinary (44100 Hz), or has a       *)
(* fraction that wraps (510000 Hz).                                        *)
(***************************************************************************)
EXTENDS Boot

Own  == [r \in Registers |-> r]
Junk == [r \in Registers |-> "junk"]
MCFiles  == {Own}
MCCallee == {Junk}
MCStacks == {[a \in Addresses |-> "mine"]}
MCValues == Registers \cup {"mine", "junk"}
MCRates  == {1400, 2000, 28793, 44100, 510000}
=============================================================================
