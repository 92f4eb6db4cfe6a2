-------------------------------- MODULE Hal --------------------------------
(***************************************************************************)
(* hal.cppm: the register writes that bring the DAC up over I2C, and those *)
(* that stop the I2S bit clock and set its divisor.  The BSC controller    *)
(* and the DAC answer the transfers, with an acknowledgement or with an    *)
(* error that they flag before the transfer is done or together with it;   *)
(* the clock generator stops some time after it is told to.                *)
(***************************************************************************)
EXTENDS Integers, Sequences

CONSTANTS Refused,  \* the writes of dac::init that the DAC may not acknowledge
          Word      \* where a uint32_t wraps: 2^32 in the code

ASSUME WordAssumption == Word \in Nat \ {0}

VARIABLES bsc,    \* the I2C controller: its status bits, its FIFO, a transfer under way
          dac,    \* the registers of the PCM5122
          sent,   \* how many writes dac::init has made
          clock,  \* the divisor in CM_PCMDIV, and the rate it was asked for
          gen     \* the clock generator: "running", "killed" (BUSY is still set) or "stopped"

i2sVars == <<clock, gen>>
halVars == <<bsc, dac, sent, clock, gen>>

-----------------------------------------------------------------------------
Plld    == 750000000
ChanLen == 32
Chans   == 2
Base    == Plld \div (ChanLen * Chans)

\* (rem * 4096 + rate / 2) / rate, in 32 bits
Fraction(rate) == (((Base % rate) * 4096 + rate \div 2) % Word) \div rate

\* Mutant: a fraction rounded up to 4096 is not carried.
BugDivisor(rate) == [divi |-> Base \div rate, divf |-> Fraction(rate)]

\* The divisor in 4096ths, rounded, its carry taken to the whole part.
Divisor(rate) ==
    IF Fraction(rate) > 4095 THEN [divi |-> Base \div rate + 1, divf |-> 0]
    ELSE [divi |-> Base \div rate, divf |-> Fraction(rate)]

Unset == [rate |-> 0, divi |-> 0, divf |-> 0]

\* What is beyond the 12 bits of DIVI goes over the password of the write, 0x5A,
\* and leaves it as it is only if it has none of the bits that 0x5A lacks.
Accepted(divi) == \A bit \in {1, 4, 32, 128} : ((divi \div 4096) \div bit) % 2 = 0

\* A write without the password changes nothing.
Written(c, rate, d) ==
    IF Accepted(d.divi) THEN [rate |-> rate, divi |-> d.divi % 4096, divf |-> d.divf]
    ELSE [c EXCEPT !.rate = rate]

\* set_sample_rate up to the wait for BUSY, and from there on.
StopClock == /\ gen' = IF gen = "stopped" THEN gen ELSE "killed"
             /\ UNCHANGED clock
SetSampleRate(rate) == /\ gen = "stopped" /\ gen' = "running"
                       /\ clock' = Written(clock, rate, Divisor(rate))

ClockStops == /\ gen = "killed" /\ gen' = "stopped"
              /\ UNCHANGED <<bsc, dac, sent, clock>>

-----------------------------------------------------------------------------
\* What dac::init writes.
Writes == << <<"page", 0>>, <<"reset", 17>>, <<"reset", 0>>, <<"power", 0>>, <<"pll_ref", 16>>,
             <<"pll_en", 1>>, <<"pll_p", 1>>, <<"pll_j", 16>>, <<"pll_d_hi", 0>>, <<"pll_d_lo", 0>>,
             <<"pll_r", 1>>, <<"dsp_div", 2>>, <<"dac_div", 4>>, <<"ncp_div", 4>>, <<"osr_div", 1>>,
             <<"i2s_cfg", 0>>, <<"vol_l", 48>>, <<"vol_r", 48>>, <<"mute", 0>> >>
DacRegisters == {Writes[i][1] : i \in 1 .. Len(Writes)}
Default      == -1

Idle         == [done |-> FALSE, err |-> FALSE, fifo |-> <<>>, step |-> "idle"]
Defaults     == [r \in DacRegisters |-> Default]

HalInit == /\ bsc = Idle
           /\ dac = Defaults
           /\ sent = 0
           /\ clock = Unset
           /\ gen \in {"running", "stopped"}

\* i2c::write up to the start bit: the flags are cleared, the FIFO is not.
StartWrite ==
    /\ bsc.step = "idle" /\ sent < Len(Writes)
    /\ bsc' = [done |-> FALSE, err |-> FALSE, fifo |-> bsc.fifo \o Writes[sent + 1], step |-> "wait"]
    /\ sent' = sent + 1
    /\ UNCHANGED <<dac, i2sVars>>

\* The DAC takes two bytes; a reset puts every register back.
Acknowledge ==
    /\ bsc.step = "wait" /\ ~bsc.done /\ ~bsc.err
    /\ LET r == bsc.fifo[1]  v == bsc.fifo[2]
       IN  dac' = IF r = "reset" /\ v = 17 THEN [x \in DacRegisters |-> IF x = r THEN v ELSE Default]
                  ELSE [dac EXCEPT ![r] = v]
    /\ bsc' = [bsc EXCEPT !.done = TRUE, !.fifo = SubSeq(@, 3, Len(@))]
    /\ UNCHANGED <<sent, i2sVars>>

NotAcknowledged ==
    /\ sent \in Refused /\ bsc.step = "wait" /\ ~bsc.done
    /\ \E done \in BOOLEAN : bsc' = [bsc EXCEPT !.err = TRUE, !.done = done]
    /\ UNCHANGED <<dac, sent, i2sVars>>

\* One turn of the wait: err is read after done was read as 0.
PollDone == /\ bsc.step = "wait" /\ bsc.done
            /\ bsc' = [bsc EXCEPT !.done = FALSE, !.step = "check"]
            /\ UNCHANGED <<dac, sent, i2sVars>>

PollError == /\ bsc.step = "wait" /\ bsc.err
             /\ bsc' = [bsc EXCEPT !.step = "failed"]
             /\ UNCHANGED <<dac, sent, i2sVars>>

\* Mutant: a transfer that is done is taken for acknowledged.
BugCheckError == /\ bsc.step = "check"
                 /\ bsc' = [bsc EXCEPT !.step = "idle"]
                 /\ UNCHANGED <<dac, sent, i2sVars>>

\* The error bit is read again after the wait.
CheckError == /\ bsc.step = "check"
              /\ bsc' = [bsc EXCEPT !.step = IF bsc.err THEN "failed" ELSE "idle"]
              /\ UNCHANGED <<dac, sent, i2sVars>>

DacInit == StartWrite \/ PollDone \/ PollError \/ CheckError
Bus     == Acknowledge \/ NotAcknowledged
DacOk     == bsc.step = "idle" /\ sent = Len(Writes)
DacFailed == bsc.step = "failed"
=============================================================================
