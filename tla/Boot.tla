-------------------------------- MODULE Boot --------------------------------
(***************************************************************************)
(* start.S, kernel_main and the timer interrupt: from the firmware to the  *)
(* shell, and by the watchdog back to the firmware.  A reset leaves memory *)
(* as it was, and the timer and its routing as they may be.  A program     *)
(* that goes on with a register an entry has lost, or a tick that finds    *)
(* the kernel not initialised, may do anything: it is astray, and what it  *)
(* does from there is not modelled.                                        *)
(***************************************************************************)
EXTENDS Vectors, Hal

CONSTANTS Rates  \* the sample rates the audio manager sets from the shell on

ASSUME RatesAssumption == Rates \subseteq 1 .. Word - 1

VARIABLES pc,       \* the next step of start.S and kernel_main, or "astray"
          core, el, \* mpidr_el1, and the exception level the firmware leaves
          setUp,    \* what start.S has set up: stack, bss, vectors, fp
          timer,    \* the physical timer: off, counting or expired
          routed,   \* whether it is routed to the IRQ line of core 0
          kernel    \* whether Kernel::init has run

bootVars == <<pc, core, el, setUp, timer, routed, kernel>>
vars == <<bootVars, vectorsVars, halVars>>

\* What the firmware hands over, on power-up and after a reset.
Handover == /\ pc = "start" /\ setUp = {} /\ kernel = "none"
            /\ core \in {0, 1} /\ el \in {1, 2}
            /\ timer \in {"off", "counting", "expired"} /\ routed \in BOOLEAN

Init == VectorsInit /\ HalInit /\ Handover

-----------------------------------------------------------------------------
\* An interrupt that is pending and not masked comes before the program.
Pending    == timer = "expired" /\ routed
ProgramMay == mode = "program" /\ ~(Pending /\ ~masked)

\* The step of the program that leads from one place to the next.
GoTo(from, to) == ProgramMay /\ pc = from /\ pc' = to

\* Steps of start.S set up one thing each.
Provide(thing, from, to) ==
    /\ GoTo(from, to) /\ setUp' = setUp \cup {thing}
    /\ UNCHANGED <<core, el, timer, routed, kernel, halVars>>

Park == /\ GoTo("start", IF core = 0 THEN "drop" ELSE "parked")
        /\ UNCHANGED <<core, el, setUp, timer, routed, kernel, vectorsVars, halVars>>

\* Mutant: SPSR_EL2 without its I bit.
BugDrop == /\ GoTo("drop", "stack")
           /\ el' = 1 /\ masked' = (el # 2)
           /\ UNCHANGED <<core, setUp, timer, routed, kernel, regs, sp, stack, mode, at, left, halVars>>

\* From EL2, eret takes the mask from SPSR_EL2 = 0x3C5.
Drop == /\ GoTo("drop", "stack")
        /\ el' = 1 /\ masked' = (el = 2 \/ masked)
        /\ UNCHANGED <<core, setUp, timer, routed, kernel, regs, sp, stack, mode, at, left, halVars>>

SetStack == /\ Provide("stack", "stack", "bss")
            /\ sp' = StackWords
            /\ UNCHANGED <<regs, stack, mode, at, masked, left>>

ZeroBss    == Provide("bss", "bss", "vectors") /\ UNCHANGED vectorsVars
SetVectors == Provide("vectors", "vectors", "fp") /\ UNCHANGED vectorsVars
EnableFp   == Provide("fp", "fp", "dac") /\ UNCHANGED vectorsVars

-----------------------------------------------------------------------------
\* kernel_main: i2c::init and dac::init, which may fail.
InitDac == /\ ProgramMay /\ pc = "dac" /\ DacInit
           /\ UNCHANGED <<bootVars, vectorsVars>>

DacDone == /\ GoTo("dac", "i2s") /\ (DacOk \/ DacFailed)
           /\ UNCHANGED <<core, el, setUp, timer, routed, kernel, vectorsVars, halVars>>

\* The two halves of set_sample_rate; BUSY is polled without a limit between them.
StopI2s(from, to) ==
    /\ GoTo(from, to) /\ StopClock
    /\ UNCHANGED <<core, el, setUp, timer, routed, kernel, vectorsVars, bsc, dac, sent>>
StartI2s(from, to, rates) ==
    /\ GoTo(from, to) /\ \E rate \in rates : SetSampleRate(rate)
    /\ UNCHANGED <<core, el, setUp, timer, routed, kernel, vectorsVars, bsc, dac, sent>>

InitI2s == StopI2s("i2s", "busy") \/ StartI2s("busy", "timer", {48000})

SetNextTick == /\ GoTo("timer", "route") /\ timer' = "counting"
               /\ UNCHANGED <<core, el, setUp, routed, kernel, vectorsVars, halVars>>

EnableTimerIrq == /\ GoTo("route", "unmask") /\ routed' = TRUE
                  /\ UNCHANGED <<core, el, setUp, timer, kernel, vectorsVars, halVars>>

\* msr daifclr, #2 and msr daifset, #2
SetMask(from, to, m) ==
    /\ GoTo(from, to) /\ masked' = m
    /\ UNCHANGED <<core, el, setUp, timer, routed, kernel, regs, sp, stack, mode, at, left, halVars>>

Unmask == SetMask("unmask", "kernel", FALSE)

InitKernel == /\ GoTo("kernel", "managers") /\ kernel' = "ready"
              /\ UNCHANGED <<core, el, setUp, timer, routed, vectorsVars, halVars>>

StartManagers == /\ GoTo("managers", "shell")
                 /\ UNCHANGED <<core, el, setUp, timer, routed, kernel, vectorsVars, halVars>>

-----------------------------------------------------------------------------
\* In the shell: a command that plays a buffer, a system call, or the end.
Play == StopI2s("shell", "play") \/ StartI2s("play", "shell", Rates)

Call == /\ ProgramMay /\ pc = "shell" /\ Svc
        /\ UNCHANGED <<bootVars, halVars>>

Running == ProgramMay /\ pc \in {"kernel", "managers", "shell", "play", "mask"}

Work == /\ Running /\ Compute
        /\ UNCHANGED <<bootVars, halVars>>

\* The program goes on with a register that is lost.
Astray == /\ Running /\ Lost # {} /\ pc' = "astray"
          /\ UNCHANGED <<core, el, setUp, timer, routed, kernel, vectorsVars, halVars>>

Leave == /\ GoTo("shell", "mask")
         /\ UNCHANGED <<core, el, setUp, timer, routed, kernel, vectorsVars, halVars>>

Mask == SetMask("mask", "watchdog", TRUE)

SetWatchdog == /\ GoTo("watchdog", "halted")
               /\ UNCHANGED <<core, el, setUp, timer, routed, kernel, vectorsVars, halVars>>

\* The watchdog expires: the peripherals are reset, memory and registers hold
\* what they may.
Reset == /\ pc = "halted" /\ pc' = "start" /\ setUp' = {} /\ kernel' = "none"
         /\ el' \in {1, 2} /\ timer' \in {"off", "counting", "expired"} /\ routed' \in BOOLEAN
         /\ bsc' = Idle /\ dac' = Defaults /\ sent' = 0
         /\ clock' = Unset /\ gen' \in {"running", "stopped"}
         /\ Compute /\ UNCHANGED core

-----------------------------------------------------------------------------
\* A tick handler returns within a tick.
TimerExpires == /\ timer = "counting" /\ mode # "irq" /\ timer' = "expired"
                /\ UNCHANGED <<pc, core, el, setUp, routed, kernel, vectorsVars, halVars>>

Interrupt == /\ Pending /\ Irq /\ pc # "astray"
             /\ UNCHANGED <<bootVars, halVars>>

\* syscall_dispatch does nothing so far.
SyscallDispatch == mode = "sync" /\ Called /\ UNCHANGED <<bootVars, halVars>>

\* Mutant: the timer is not armed again.
BugTick == mode = "irq" /\ Called /\ UNCHANGED <<bootVars, halVars>>

\* timer_tick_handler acknowledges by arming the timer, and calls Kernel::tick,
\* which boot.cpp:65 lets happen before Kernel::init.
TimerTickHandler == /\ mode = "irq" /\ Called /\ timer' = "counting"
                    /\ pc' \in {pc} \cup (IF kernel = "none" THEN {"astray"} ELSE {})
                    /\ UNCHANGED <<core, el, setUp, routed, kernel, halVars>>

Save    == Store /\ UNCHANGED <<bootVars, halVars>>
Restore == Load /\ UNCHANGED <<bootVars, halVars>>
ReturnFromException == Return /\ UNCHANGED <<bootVars, halVars>>
Answer  == (Bus \/ ClockStops) /\ UNCHANGED <<bootVars, vectorsVars>>

KernelMain == \/ Park \/ Drop \/ SetStack \/ ZeroBss \/ SetVectors \/ EnableFp
              \/ InitDac \/ DacDone \/ InitI2s \/ SetNextTick \/ EnableTimerIrq \/ Unmask
              \/ InitKernel \/ StartManagers \/ Mask \/ SetWatchdog
Exception == /\ pc # "astray"
             /\ Save \/ SyscallDispatch \/ TimerTickHandler \/ Restore \/ ReturnFromException

Next == KernelMain \/ Play \/ Call \/ Work \/ Astray \/ Leave \/ Reset \/ TimerExpires \/ Interrupt
            \/ Exception \/ Answer

Spec == Init /\ [][Next]_vars

\* The devices answer, the processor takes what is pending and runs what it
\* took; between ticks the program gets its share.
Fairness == /\ SF_vars(KernelMain)
            /\ WF_vars(Answer) /\ WF_vars(Reset) /\ WF_vars(TimerExpires)
            /\ WF_vars(Interrupt) /\ WF_vars(Exception)
FairSpec == Spec /\ Fairness

-----------------------------------------------------------------------------
\* No exception is taken before there are vectors, a stack and a zeroed BSS
\* (hal.cppm:564), on a first boot or after a reset.
TakenOnlyWhenReady == mode # "program" => {"stack", "bss", "vectors"} \subseteq setUp

\* When dac::init reports success, every register holds what it wrote last
\* (hal.cppm:462).
DacConfigured ==
    DacOk => \A i \in 3 .. Len(Writes) : dac[Writes[i][1]] = Writes[i][2]

\* The divisor is the nearest to Base / rate that the register holds
\* (hal.cppm:198-206), for every rate whose divisor fits DIVI and whose fraction
\* does not wrap: 2862 .. 1048320 Hz in 32 bits.  audiomgr.cpp:104-106 asks for
\* any rate it is told; outside this range the register holds another divisor.
Held(rate) == rate # 0 /\ Base \div rate < 4095 /\ rate * 4097 <= Word
Nearest(c) == LET error == ((c.divi - Base \div c.rate) * 4096 + c.divf) * c.rate
                               - (Base % c.rate) * 4096
              IN  /\ c.divi \in 0 .. 4095 /\ c.divf \in 0 .. 4095
                  /\ 2 * error <= c.rate /\ -2 * error <= c.rate
ClockIsNearest == Held(clock.rate) => Nearest(clock)

\* Core 0 reaches the shell (boot.cpp:104), with or without a DAC, and again after
\* every reset: ticks, resets and waits never stop it for good.  It may get lost
\* on the way, and only in the two ways Astray and TimerTickHandler name: with a
\* register irq_handler does not save (vectors.S:78-86), or by a tick before
\* Kernel::init (boot.cpp:65).
ShellReached == core = 0 /\ pc = "start" ~> pc \in {"shell", "astray"}

=============================================================================
