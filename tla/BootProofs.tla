----------------------------- MODULE BootProofs -----------------------------
(***************************************************************************)
(* For every stack, every register contents and every behaviour of the     *)
(* C++ handlers: exceptions find their vectors, stack and BSS, and what an *)
(* entry saves it gives back.  For every sample rate: the divisor is the   *)
(* nearest.  For every answer of the DAC: what is reported configured is.  *)
(***************************************************************************)
EXTENDS Boot, TLAPS

\* The types of the processor's state.
MachineType == /\ regs \in [Registers -> Values]
               /\ stack \in [Addresses -> Values]
               /\ sp \in Int
               /\ mode \in {"program", "irq", "sync"}
               /\ masked \in BOOLEAN
               /\ left.regs \in [Registers -> Values] /\ left.stack \in [Addresses -> Values]
               /\ left.sp \in 6 .. StackWords /\ left.masked \in BOOLEAN

\* The words an entry pushed at a distance below the program's stack pointer.
Holds(distance, a, b) == /\ stack[left.sp - distance] = left.regs[a]
                         /\ stack[left.sp - distance + 1] = left.regs[b]
Kept(S) == \A r \in S : regs[r] = left.regs[r]
Above == \A a \in Addresses : a >= left.sp => stack[a] = left.stack[a]

IrqFrame ==
    /\ at \in 1 .. 6
    /\ sp = left.sp - (IF at \in {1, 6} THEN 0 ELSE IF at \in {2, 5} THEN 2 ELSE 4)
    /\ at \in 2 .. 5 => Holds(2, "x0", "x1")
    /\ at \in 3 .. 4 => Holds(4, "fp", "lr")
    /\ Kept({"x19", "fp"})
    /\ at \in 1 .. 3 => Kept({"x0", "x1", "lr"})
    /\ at \in 5 .. 6 => Kept({"lr"})
    /\ at = 6 => Kept({"x0", "x1"})

SyncFrame ==
    /\ at \in 1 .. 8
    /\ sp = left.sp - (IF at \in {1, 8} THEN 0 ELSE IF at \in {2, 7} THEN 2
                       ELSE IF at \in {3, 6} THEN 4 ELSE 6)
    /\ at \in 2 .. 7 => Holds(2, "x0", "x1")
    /\ at \in 3 .. 6 => Holds(4, "x2", "x3")
    /\ at \in 4 .. 5 => Holds(6, "fp", "lr")
    /\ Kept({"x19", "fp"})
    /\ at \in 1 .. 4 => Kept({"x0", "x1", "x2", "x3", "lr"})
    /\ at \in 6 .. 8 => Kept({"lr"})
    /\ at \in 7 .. 8 => Kept({"x2", "x3"})
    /\ at = 8 => Kept({"x0", "x1"})

\* What holds between any two instructions.
FrameInv == /\ MachineType
            /\ mode = "program" => at = 1 /\ sp \in 6 .. StackWords
            /\ mode # "program" => Above
            /\ mode = "irq" => IrqFrame
            /\ mode = "sync" => SyncFrame

\* The order of start.S and kernel_main: interrupts stay masked until kernel_main
\* unmasks them, and again once it has masked them.
Closed == {"start", "parked", "drop", "stack", "bss", "vectors", "fp", "dac", "i2s", "busy", "timer",
           "route", "unmask", "watchdog", "halted"}
Open   == {"kernel", "managers", "shell", "play", "mask", "astray"}

OrderInv == /\ pc \in Closed \cup Open
            /\ mode \in {"program", "irq", "sync"}
            /\ pc \in Closed => masked = TRUE /\ mode = "program"
            /\ pc = "bss" => "stack" \in setUp
            /\ pc = "vectors" => {"stack", "bss"} \subseteq setUp
            /\ pc \in Open \cup {"fp", "dac", "i2s", "busy", "timer", "route", "unmask"}
                   => {"stack", "bss", "vectors"} \subseteq setUp

-----------------------------------------------------------------------------
\* The order is kept by every step: exceptions are taken in open places only,
\* and return to the same place.
LEMMA OrderInit == Init => OrderInv
BY DEF Init, VectorsInit, Handover, OrderInv, Closed, Open

LEMMA OrderStep == OrderInv /\ [Next]_vars => OrderInv'
<1> SUFFICES ASSUME OrderInv, [Next]_vars PROVE OrderInv'
  OBVIOUS
<1> USE DEF OrderInv, Closed, Open
<1>1. CASE Park
  BY <1>1 DEF Park, GoTo, vectorsVars
<1>2. CASE Drop
  BY <1>2 DEF Drop, GoTo
<1>3. CASE SetStack
  BY <1>3 DEF SetStack, Provide, GoTo
<1>4. CASE ZeroBss
  BY <1>4 DEF ZeroBss, Provide, GoTo, vectorsVars
<1>5. CASE SetVectors
  BY <1>5 DEF SetVectors, Provide, GoTo, vectorsVars
<1>6. CASE EnableFp
  BY <1>6 DEF EnableFp, Provide, GoTo, vectorsVars
<1>7. CASE InitDac \/ DacDone \/ InitI2s
  BY <1>7 DEF InitDac, DacDone, InitI2s, StopI2s, StartI2s, GoTo, vectorsVars, bootVars
<1>8. CASE SetNextTick \/ EnableTimerIrq
  BY <1>8 DEF SetNextTick, EnableTimerIrq, GoTo, vectorsVars
<1>9. CASE Unmask \/ Mask
  BY <1>9 DEF Unmask, Mask, SetMask, GoTo, ProgramMay
<1>10. CASE InitKernel \/ StartManagers \/ Leave \/ SetWatchdog
  BY <1>10 DEF InitKernel, StartManagers, Leave, SetWatchdog, GoTo, vectorsVars
<1>11. CASE Play
  BY <1>11 DEF Play, StopI2s, StartI2s, GoTo, vectorsVars
<1>16. CASE Call
  BY <1>16 DEF Call, Svc, Take, bootVars
<1>17. CASE Work
  BY <1>17 DEF Work, Compute, bootVars
<1>18. CASE Astray
  BY <1>18 DEF Astray, Running, vectorsVars
<1>12. CASE Reset
  BY <1>12 DEF Reset, Compute
<1>13. CASE TimerExpires \/ Interrupt \/ Answer
  BY <1>13 DEF TimerExpires, Interrupt, Irq, Take, Answer, vectorsVars, bootVars
<1>14. CASE Exception
  BY <1>14 DEF Exception, Save, SyscallDispatch, TimerTickHandler, Restore, ReturnFromException,
                Store, Called, Load, Return, bootVars
<1>15. CASE UNCHANGED vars
  BY <1>15 DEF vars, bootVars, vectorsVars
<1> QED
  BY <1>1, <1>2, <1>3, <1>4, <1>5, <1>6, <1>7, <1>8, <1>9, <1>10, <1>11, <1>12, <1>13, <1>14, <1>15, <1>16, <1>17, <1>18
     DEF Next, KernelMain

\* No exception before vectors, stack and BSS are there, whatever the firmware
\* and a reset leave in the timer.
THEOREM ExceptionsFindVectors == Spec => []TakenOnlyWhenReady
<1>1. OrderInv => TakenOnlyWhenReady
  BY DEF OrderInv, TakenOnlyWhenReady, Closed, Open
<1> QED
  BY <1>1, OrderInit, OrderStep, PTL DEF Spec

-----------------------------------------------------------------------------
\* The instructions of the two entries.
LEMMA Instructions ==
    /\ \A a, b : Stp(a, b).op = "stp" /\ Stp(a, b).first = a /\ Stp(a, b).second = b
    /\ \A a, b : Ldp(a, b).op = "ldp" /\ Ldp(a, b).first = a /\ Ldp(a, b).second = b
    /\ Bl.op = "bl" /\ Eret.op = "eret"
BY DEF Stp, Ldp, Bl, Eret

LEMMA IrqCode ==
    ASSUME mode = "irq"
    PROVE  /\ at = 1 => Now = Stp("x0", "x1")
           /\ at = 2 => Now = Stp("fp", "lr")
           /\ at = 3 => Now = Bl
           /\ at = 4 => Now = Ldp("fp", "lr")
           /\ at = 5 => Now = Ldp("x0", "x1")
           /\ at = 6 => Now = Eret
BY DEF Now, Handlers

LEMMA SyncCode ==
    ASSUME mode = "sync"
    PROVE  /\ at = 1 => Now = Stp("x0", "x1")
           /\ at = 2 => Now = Stp("x2", "x3")
           /\ at = 3 => Now = Stp("fp", "lr")
           /\ at = 4 => Now = Bl
           /\ at = 5 => Now = Ldp("fp", "lr")
           /\ at = 6 => Now = Ldp("x2", "x3")
           /\ at = 7 => Now = Ldp("x0", "x1")
           /\ at = 8 => Now = Eret
BY DEF Now, Handlers

-----------------------------------------------------------------------------
LEMMA FrameInit == Init => FrameInv
BY StackAssumption, FilesAssumption
   DEF Init, VectorsInit, FrameInv, MachineType, Depths

\* An exception starts on the program's frame.
LEMMA FrameTake ==
    ASSUME FrameInv, NEW entry \in {"sync", "irq"}, Take(entry)
    PROVE  FrameInv'
BY DEF FrameInv, MachineType, Take, Above, IrqFrame, SyncFrame, Kept, Registers, CallerSaved

\* What storing and loading a pair change, and what a C++ function may.
LEMMA StoreChanges ==
    ASSUME MachineType, Store, NEW a \in Registers, NEW b \in Registers,
           Now.first = a, Now.second = b, sp \in 2 .. StackWords
    PROVE  /\ stack' \in [Addresses -> Values]
           /\ stack'[sp - 2] = regs[a] /\ stack'[sp - 1] = regs[b]
           /\ \A x \in Addresses : x # sp - 2 /\ x # sp - 1 => stack'[x] = stack[x]
           /\ sp' = sp - 2 /\ at' = at + 1
           /\ regs' = regs /\ mode' = mode /\ masked' = masked /\ left' = left
<1>1. sp - 2 \in Addresses /\ sp - 1 \in Addresses /\ sp - 2 # sp - 1
  BY StackAssumption DEF Addresses
<1>2. stack' = [stack EXCEPT ![sp - 2] = regs[a], ![sp - 1] = regs[b]]
  BY DEF Store
<1>3. regs[a] \in Values /\ regs[b] \in Values /\ stack \in [Addresses -> Values]
  BY DEF MachineType
<1>4. /\ stack' \in [Addresses -> Values]
      /\ stack'[sp - 2] = regs[a] /\ stack'[sp - 1] = regs[b]
      /\ \A x \in Addresses : x # sp - 2 /\ x # sp - 1 => stack'[x] = stack[x]
  BY <1>1, <1>2, <1>3
<1> QED
  BY <1>4 DEF Store

LEMMA LoadChanges ==
    ASSUME MachineType, Load, NEW a \in Registers, NEW b \in Registers, a # b,
           Now.first = a, Now.second = b, sp \in 0 .. StackWords - 2
    PROVE  /\ regs' \in [Registers -> Values]
           /\ regs'[a] = stack[sp] /\ regs'[b] = stack[sp + 1]
           /\ \A r \in Registers : r # a /\ r # b => regs'[r] = regs[r]
           /\ sp' = sp + 2 /\ at' = at + 1
           /\ stack' = stack /\ mode' = mode /\ masked' = masked /\ left' = left
<1>1. sp \in Addresses /\ sp + 1 \in Addresses
  BY StackAssumption DEF Addresses
<1>2. regs' = [regs EXCEPT ![a] = stack[sp], ![b] = stack[sp + 1]]
  BY DEF Load
<1>3. stack[sp] \in Values /\ stack[sp + 1] \in Values /\ regs \in [Registers -> Values]
  BY <1>1 DEF MachineType
<1>4. /\ regs' \in [Registers -> Values]
      /\ regs'[a] = stack[sp] /\ regs'[b] = stack[sp + 1]
      /\ \A r \in Registers : r # a /\ r # b => regs'[r] = regs[r]
  BY <1>2, <1>3
<1> QED
  BY <1>4 DEF Load

LEMMA CalledChanges ==
    ASSUME MachineType, Called
    PROVE  /\ regs' \in [Registers -> Values] /\ stack' \in [Addresses -> Values]
           /\ regs'["x19"] = regs["x19"] /\ regs'["fp"] = regs["fp"]
           /\ \A x \in Addresses : x >= sp => stack'[x] = stack[x]
           /\ sp' = sp /\ at' = at + 1 /\ mode' = mode /\ masked' = masked /\ left' = left
<1>1. PICK f \in CalleeFiles, s \in Stacks :
         /\ regs' = [r \in Registers |-> IF r \in CallerSaved THEN f[r] ELSE regs[r]]
         /\ stack' = [a \in Addresses |-> IF a < sp THEN s[a] ELSE stack[a]]
  BY DEF Called
<1>2. f \in [Registers -> Values] /\ s \in [Addresses -> Values]
  BY FilesAssumption
<1>3. regs' \in [Registers -> Values] /\ stack' \in [Addresses -> Values]
  BY <1>1, <1>2 DEF MachineType
<1>4. regs'["x19"] = regs["x19"] /\ regs'["fp"] = regs["fp"]
  BY <1>1 DEF Registers, CallerSaved
<1>5. \A x \in Addresses : x >= sp => stack'[x] = stack[x]
  BY <1>1 DEF MachineType, Addresses
<1> QED
  BY <1>3, <1>4, <1>5 DEF Called

\* The names of the registers an entry touches.
LEMMA Names == /\ {"x0", "x1", "x2", "x3", "lr", "x19", "fp"} \subseteq Registers
               /\ \A d \in 1 .. 6 : left.sp \in 6 .. StackWords => left.sp - d \in Addresses
BY StackAssumption DEF Registers, CallerSaved, Addresses

\* A pair is pushed below what the entry holds already.
LEMMA FrameStore ==
    ASSUME FrameInv, Store
    PROVE  FrameInv'
<1> USE DEF FrameInv
<1>0. mode # "program"
  BY DEF Store
<1>1. CASE mode = "irq"
  <2>1. at \in 1 .. 6
    BY <1>1 DEF IrqFrame
  <2>2. at \notin {3, 4, 5, 6}
    BY <1>1, Instructions, IrqCode DEF Store
  <2>3. CASE at = 1
    <3>1. Now.first = "x0" /\ Now.second = "x1"
      BY <1>1, <2>3, IrqCode, Instructions
    <3>2. left.sp \in 6 .. StackWords /\ sp = left.sp - 0
      BY <1>1, <2>3 DEF IrqFrame, MachineType
    <3>3. sp \in 2 .. StackWords
      BY <3>2, StackAssumption
    <3>4. /\ stack'[sp - 2] = regs["x0"] /\ stack'[sp - 1] = regs["x1"]
          /\ \A x \in Addresses : x # sp - 2 /\ x # sp - 1 => stack'[x] = stack[x]
          /\ stack' \in [Addresses -> Values] /\ regs' = regs
          /\ sp' = sp - 2
          /\ at' = 2 /\ mode' = mode /\ left' = left /\ masked' = masked
      BY <2>3, <3>1, <3>3, Names, StoreChanges
    <3>5. MachineType'
      BY <3>2, <3>4 DEF MachineType
    <3>6. Above'
      BY <1>1, <3>2, <3>4 DEF Above, Addresses
    <3>7. IrqFrame'
      BY <1>1, <2>3, <3>2, <3>4, Names DEF IrqFrame, Holds, Kept
    <3> QED
      BY <1>1, <3>4, <3>5, <3>6, <3>7
  <2>4. CASE at = 2
    <3>1. Now.first = "fp" /\ Now.second = "lr"
      BY <1>1, <2>4, IrqCode, Instructions
    <3>2. left.sp \in 6 .. StackWords /\ sp = left.sp - 2
      BY <1>1, <2>4 DEF IrqFrame, MachineType
    <3>3. sp \in 2 .. StackWords
      BY <3>2, StackAssumption
    <3>4. /\ stack'[sp - 2] = regs["fp"] /\ stack'[sp - 1] = regs["lr"]
          /\ \A x \in Addresses : x # sp - 2 /\ x # sp - 1 => stack'[x] = stack[x]
          /\ stack' \in [Addresses -> Values] /\ regs' = regs
          /\ sp' = sp - 2
          /\ at' = 3 /\ mode' = mode /\ left' = left /\ masked' = masked
      BY <2>4, <3>1, <3>3, Names, StoreChanges
    <3>5. MachineType'
      BY <3>2, <3>4 DEF MachineType
    <3>6. Above'
      BY <1>1, <3>2, <3>4 DEF Above, Addresses
    <3>7. IrqFrame'
      BY <1>1, <2>4, <3>2, <3>4, Names DEF IrqFrame, Holds, Kept
    <3> QED
      BY <1>1, <3>4, <3>5, <3>6, <3>7
  <2> QED
    BY <2>1, <2>2, <2>3, <2>4
<1>2. CASE mode = "sync"
  <2>1. at \in 1 .. 8
    BY <1>2 DEF SyncFrame
  <2>2. at \notin {4, 5, 6, 7, 8}
    BY <1>2, Instructions, SyncCode DEF Store
  <2>3. CASE at = 1
    <3>1. Now.first = "x0" /\ Now.second = "x1"
      BY <1>2, <2>3, SyncCode, Instructions
    <3>2. left.sp \in 6 .. StackWords /\ sp = left.sp - 0
      BY <1>2, <2>3 DEF SyncFrame, MachineType
    <3>3. sp \in 2 .. StackWords
      BY <3>2, StackAssumption
    <3>4. /\ stack'[sp - 2] = regs["x0"] /\ stack'[sp - 1] = regs["x1"]
          /\ \A x \in Addresses : x # sp - 2 /\ x # sp - 1 => stack'[x] = stack[x]
          /\ stack' \in [Addresses -> Values] /\ regs' = regs
          /\ sp' = sp - 2
          /\ at' = 2 /\ mode' = mode /\ left' = left /\ masked' = masked
      BY <2>3, <3>1, <3>3, Names, StoreChanges
    <3>5. MachineType'
      BY <3>2, <3>4 DEF MachineType
    <3>6. Above'
      BY <1>2, <3>2, <3>4 DEF Above, Addresses
    <3>7. SyncFrame'
      BY <1>2, <2>3, <3>2, <3>4, Names DEF SyncFrame, Holds, Kept
    <3> QED
      BY <1>2, <3>4, <3>5, <3>6, <3>7
  <2>4. CASE at = 2
    <3>1. Now.first = "x2" /\ Now.second = "x3"
      BY <1>2, <2>4, SyncCode, Instructions
    <3>2. left.sp \in 6 .. StackWords /\ sp = left.sp - 2
      BY <1>2, <2>4 DEF SyncFrame, MachineType
    <3>3. sp \in 2 .. StackWords
      BY <3>2, StackAssumption
    <3>4. /\ stack'[sp - 2] = regs["x2"] /\ stack'[sp - 1] = regs["x3"]
          /\ \A x \in Addresses : x # sp - 2 /\ x # sp - 1 => stack'[x] = stack[x]
          /\ stack' \in [Addresses -> Values] /\ regs' = regs
          /\ sp' = sp - 2
          /\ at' = 3 /\ mode' = mode /\ left' = left /\ masked' = masked
      BY <2>4, <3>1, <3>3, Names, StoreChanges
    <3>5. MachineType'
      BY <3>2, <3>4 DEF MachineType
    <3>6. Above'
      BY <1>2, <3>2, <3>4 DEF Above, Addresses
    <3>7. SyncFrame'
      BY <1>2, <2>4, <3>2, <3>4, Names DEF SyncFrame, Holds, Kept
    <3> QED
      BY <1>2, <3>4, <3>5, <3>6, <3>7
  <2>5. CASE at = 3
    <3>1. Now.first = "fp" /\ Now.second = "lr"
      BY <1>2, <2>5, SyncCode, Instructions
    <3>2. left.sp \in 6 .. StackWords /\ sp = left.sp - 4
      BY <1>2, <2>5 DEF SyncFrame, MachineType
    <3>3. sp \in 2 .. StackWords
      BY <3>2, StackAssumption
    <3>4. /\ stack'[sp - 2] = regs["fp"] /\ stack'[sp - 1] = regs["lr"]
          /\ \A x \in Addresses : x # sp - 2 /\ x # sp - 1 => stack'[x] = stack[x]
          /\ stack' \in [Addresses -> Values] /\ regs' = regs
          /\ sp' = sp - 2
          /\ at' = 4 /\ mode' = mode /\ left' = left /\ masked' = masked
      BY <2>5, <3>1, <3>3, Names, StoreChanges
    <3>5. MachineType'
      BY <3>2, <3>4 DEF MachineType
    <3>6. Above'
      BY <1>2, <3>2, <3>4 DEF Above, Addresses
    <3>7. SyncFrame'
      BY <1>2, <2>5, <3>2, <3>4, Names DEF SyncFrame, Holds, Kept
    <3> QED
      BY <1>2, <3>4, <3>5, <3>6, <3>7
  <2> QED
    BY <2>1, <2>2, <2>3, <2>4, <2>5
<1> QED
  BY <1>0, <1>1, <1>2 DEF MachineType

\* The C++ function changes neither the frame above it nor x19 and fp.
LEMMA FrameCalled ==
    ASSUME FrameInv, Called
    PROVE  FrameInv'
<1> USE DEF FrameInv
<1>0. mode # "program"
  BY DEF Called
<1>1. CASE mode = "irq"
  <2>1. at \in 1 .. 6
    BY <1>1 DEF IrqFrame
  <2>2. at \notin {1, 2, 4, 5, 6}
    BY <1>1, Instructions, IrqCode DEF Called
  <2>3. CASE at = 3
    <3>1. left.sp \in 6 .. StackWords /\ sp = left.sp - 4
      BY <1>1, <2>3 DEF IrqFrame, MachineType
    <3>2. /\ regs' \in [Registers -> Values] /\ stack' \in [Addresses -> Values]
          /\ regs'["x19"] = regs["x19"] /\ regs'["fp"] = regs["fp"]
          /\ \A x \in Addresses : x >= sp => stack'[x] = stack[x]
          /\ sp' = sp /\ at' = 4 /\ mode' = mode /\ masked' = masked /\ left' = left
      BY <2>3, CalledChanges
    <3>3. MachineType'
      BY <3>1, <3>2 DEF MachineType
    <3>4. Above'
      BY <1>1, <3>1, <3>2 DEF Above, Addresses
    <3>5. IrqFrame'
      BY <1>1, <2>3, <3>1, <3>2, Names DEF IrqFrame, Holds, Kept
    <3> QED
      BY <1>1, <3>2, <3>3, <3>4, <3>5
  <2> QED
    BY <2>1, <2>2, <2>3
<1>2. CASE mode = "sync"
  <2>1. at \in 1 .. 8
    BY <1>2 DEF SyncFrame
  <2>2. at \notin {1, 2, 3, 5, 6, 7, 8}
    BY <1>2, Instructions, SyncCode DEF Called
  <2>3. CASE at = 4
    <3>1. left.sp \in 6 .. StackWords /\ sp = left.sp - 6
      BY <1>2, <2>3 DEF SyncFrame, MachineType
    <3>2. /\ regs' \in [Registers -> Values] /\ stack' \in [Addresses -> Values]
          /\ regs'["x19"] = regs["x19"] /\ regs'["fp"] = regs["fp"]
          /\ \A x \in Addresses : x >= sp => stack'[x] = stack[x]
          /\ sp' = sp /\ at' = 5 /\ mode' = mode /\ masked' = masked /\ left' = left
      BY <2>3, CalledChanges
    <3>3. MachineType'
      BY <3>1, <3>2 DEF MachineType
    <3>4. Above'
      BY <1>2, <3>1, <3>2 DEF Above, Addresses
    <3>5. SyncFrame'
      BY <1>2, <2>3, <3>1, <3>2, Names DEF SyncFrame, Holds, Kept
    <3> QED
      BY <1>2, <3>2, <3>3, <3>4, <3>5
  <2> QED
    BY <2>1, <2>2, <2>3
<1> QED
  BY <1>0, <1>1, <1>2 DEF MachineType

\* A pair is popped from where it was pushed.
LEMMA FrameLoad ==
    ASSUME FrameInv, Load
    PROVE  FrameInv'
<1> USE DEF FrameInv
<1>0. mode # "program"
  BY DEF Load
<1>1. CASE mode = "irq"
  <2>1. at \in 1 .. 6
    BY <1>1 DEF IrqFrame
  <2>2. at \notin {1, 2, 3, 6}
    BY <1>1, Instructions, IrqCode DEF Load
  <2>3. CASE at = 4
    <3>1. Now.first = "fp" /\ Now.second = "lr"
      BY <1>1, <2>3, IrqCode, Instructions
    <3>2. left.sp \in 6 .. StackWords /\ sp = left.sp - 4
      BY <1>1, <2>3 DEF IrqFrame, MachineType
    <3>3. sp \in 0 .. StackWords - 2
      BY <3>2, StackAssumption
    <3>4. /\ regs'["fp"] = stack[sp] /\ regs'["lr"] = stack[sp + 1]
          /\ \A r \in Registers : r # "fp" /\ r # "lr" => regs'[r] = regs[r]
          /\ regs' \in [Registers -> Values] /\ stack' = stack
          /\ sp' = sp + 2
          /\ at' = 5 /\ mode' = mode /\ left' = left /\ masked' = masked
      BY <2>3, <3>1, <3>3, Names, LoadChanges
    <3>5. MachineType'
      BY <3>2, <3>4 DEF MachineType
    <3>6. Above'
      BY <1>1, <3>2, <3>4 DEF Above, Addresses
    <3>7. IrqFrame'
      BY <1>1, <2>3, <3>2, <3>4, Names DEF IrqFrame, Holds, Kept
    <3> QED
      BY <1>1, <3>4, <3>5, <3>6, <3>7
  <2>4. CASE at = 5
    <3>1. Now.first = "x0" /\ Now.second = "x1"
      BY <1>1, <2>4, IrqCode, Instructions
    <3>2. left.sp \in 6 .. StackWords /\ sp = left.sp - 2
      BY <1>1, <2>4 DEF IrqFrame, MachineType
    <3>3. sp \in 0 .. StackWords - 2
      BY <3>2, StackAssumption
    <3>4. /\ regs'["x0"] = stack[sp] /\ regs'["x1"] = stack[sp + 1]
          /\ \A r \in Registers : r # "x0" /\ r # "x1" => regs'[r] = regs[r]
          /\ regs' \in [Registers -> Values] /\ stack' = stack
          /\ sp' = sp + 2
          /\ at' = 6 /\ mode' = mode /\ left' = left /\ masked' = masked
      BY <2>4, <3>1, <3>3, Names, LoadChanges
    <3>5. MachineType'
      BY <3>2, <3>4 DEF MachineType
    <3>6. Above'
      BY <1>1, <3>2, <3>4 DEF Above, Addresses
    <3>7. IrqFrame'
      BY <1>1, <2>4, <3>2, <3>4, Names DEF IrqFrame, Holds, Kept
    <3> QED
      BY <1>1, <3>4, <3>5, <3>6, <3>7
  <2> QED
    BY <2>1, <2>2, <2>3, <2>4
<1>2. CASE mode = "sync"
  <2>1. at \in 1 .. 8
    BY <1>2 DEF SyncFrame
  <2>2. at \notin {1, 2, 3, 4, 8}
    BY <1>2, Instructions, SyncCode DEF Load
  <2>3. CASE at = 5
    <3>1. Now.first = "fp" /\ Now.second = "lr"
      BY <1>2, <2>3, SyncCode, Instructions
    <3>2. left.sp \in 6 .. StackWords /\ sp = left.sp - 6
      BY <1>2, <2>3 DEF SyncFrame, MachineType
    <3>3. sp \in 0 .. StackWords - 2
      BY <3>2, StackAssumption
    <3>4. /\ regs'["fp"] = stack[sp] /\ regs'["lr"] = stack[sp + 1]
          /\ \A r \in Registers : r # "fp" /\ r # "lr" => regs'[r] = regs[r]
          /\ regs' \in [Registers -> Values] /\ stack' = stack
          /\ sp' = sp + 2
          /\ at' = 6 /\ mode' = mode /\ left' = left /\ masked' = masked
      BY <2>3, <3>1, <3>3, Names, LoadChanges
    <3>5. MachineType'
      BY <3>2, <3>4 DEF MachineType
    <3>6. Above'
      BY <1>2, <3>2, <3>4 DEF Above, Addresses
    <3>7. SyncFrame'
      BY <1>2, <2>3, <3>2, <3>4, Names DEF SyncFrame, Holds, Kept
    <3> QED
      BY <1>2, <3>4, <3>5, <3>6, <3>7
  <2>4. CASE at = 6
    <3>1. Now.first = "x2" /\ Now.second = "x3"
      BY <1>2, <2>4, SyncCode, Instructions
    <3>2. left.sp \in 6 .. StackWords /\ sp = left.sp - 4
      BY <1>2, <2>4 DEF SyncFrame, MachineType
    <3>3. sp \in 0 .. StackWords - 2
      BY <3>2, StackAssumption
    <3>4. /\ regs'["x2"] = stack[sp] /\ regs'["x3"] = stack[sp + 1]
          /\ \A r \in Registers : r # "x2" /\ r # "x3" => regs'[r] = regs[r]
          /\ regs' \in [Registers -> Values] /\ stack' = stack
          /\ sp' = sp + 2
          /\ at' = 7 /\ mode' = mode /\ left' = left /\ masked' = masked
      BY <2>4, <3>1, <3>3, Names, LoadChanges
    <3>5. MachineType'
      BY <3>2, <3>4 DEF MachineType
    <3>6. Above'
      BY <1>2, <3>2, <3>4 DEF Above, Addresses
    <3>7. SyncFrame'
      BY <1>2, <2>4, <3>2, <3>4, Names DEF SyncFrame, Holds, Kept
    <3> QED
      BY <1>2, <3>4, <3>5, <3>6, <3>7
  <2>5. CASE at = 7
    <3>1. Now.first = "x0" /\ Now.second = "x1"
      BY <1>2, <2>5, SyncCode, Instructions
    <3>2. left.sp \in 6 .. StackWords /\ sp = left.sp - 2
      BY <1>2, <2>5 DEF SyncFrame, MachineType
    <3>3. sp \in 0 .. StackWords - 2
      BY <3>2, StackAssumption
    <3>4. /\ regs'["x0"] = stack[sp] /\ regs'["x1"] = stack[sp + 1]
          /\ \A r \in Registers : r # "x0" /\ r # "x1" => regs'[r] = regs[r]
          /\ regs' \in [Registers -> Values] /\ stack' = stack
          /\ sp' = sp + 2
          /\ at' = 8 /\ mode' = mode /\ left' = left /\ masked' = masked
      BY <2>5, <3>1, <3>3, Names, LoadChanges
    <3>5. MachineType'
      BY <3>2, <3>4 DEF MachineType
    <3>6. Above'
      BY <1>2, <3>2, <3>4 DEF Above, Addresses
    <3>7. SyncFrame'
      BY <1>2, <2>5, <3>2, <3>4, Names DEF SyncFrame, Holds, Kept
    <3> QED
      BY <1>2, <3>4, <3>5, <3>6, <3>7
  <2> QED
    BY <2>1, <2>2, <2>3, <2>4, <2>5
<1> QED
  BY <1>0, <1>1, <1>2 DEF MachineType

\* eret finds the registers, the stack pointer and the stack as they were.
LEMMA FrameReturn ==
    ASSUME FrameInv, Return
    PROVE  /\ FrameInv'
           /\ \A r \in Restored(mode) \cup {"x19"} : regs'[r] = left.regs[r]
           /\ \A a \in left.sp .. StackWords - 1 : stack'[a] = left.stack[a]
           /\ sp' = left.sp /\ masked' = left.masked
<1> USE DEF FrameInv, MachineType, Return, Above, Addresses, Kept, Restored
<1>1. CASE mode = "irq"
  <2>1. at \in 1 .. 6
    BY <1>1 DEF IrqFrame
  <2>2. at \notin 1 .. 5
    BY <1>1, Instructions, IrqCode
  <2>3. at = 6
    BY <2>1, <2>2
  <2> QED
    BY <1>1, <2>3, StackAssumption DEF IrqFrame
<1>2. CASE mode = "sync"
  <2>1. at \in 1 .. 8
    BY <1>2 DEF SyncFrame
  <2>2. at \notin 1 .. 7
    BY <1>2, Instructions, SyncCode
  <2>3. at = 8
    BY <2>1, <2>2
  <2> QED
    BY <1>2, <2>3, StackAssumption DEF SyncFrame
<1> QED
  BY <1>1, <1>2

LEMMA FrameStep == FrameInv /\ [Next]_vars => FrameInv'
<1> SUFFICES ASSUME FrameInv, [Next]_vars PROVE FrameInv'
  OBVIOUS
<1> DEFINE Same == UNCHANGED <<regs, stack, mode, at, left>>
<1>1. CASE Same /\ sp' = sp /\ masked' \in BOOLEAN
  BY <1>1 DEF FrameInv, MachineType, Above, IrqFrame, SyncFrame, Holds, Kept
<1>2. UNCHANGED vectorsVars => FrameInv'
  BY <1>1 DEF vectorsVars, FrameInv, MachineType
<1>3. CASE Park \/ ZeroBss \/ SetVectors \/ EnableFp \/ InitDac \/ DacDone \/ InitI2s
  BY <1>2, <1>3 DEF Park, ZeroBss, SetVectors, EnableFp, InitDac, DacDone, InitI2s, StopI2s, StartI2s
<1>4. CASE SetNextTick \/ EnableTimerIrq \/ InitKernel \/ StartManagers \/ Leave \/ SetWatchdog
  BY <1>2, <1>4 DEF SetNextTick, EnableTimerIrq, InitKernel, StartManagers, Leave, SetWatchdog
<1>5. CASE Drop
  <2>1. masked' \in BOOLEAN
    BY <1>5 DEF Drop
  <2> QED
    BY <1>1, <1>5, <2>1 DEF Drop
<1>6. CASE SetStack
  BY <1>6, StackAssumption DEF SetStack, Provide, GoTo, ProgramMay, FrameInv, MachineType
<1>7. CASE Unmask \/ Mask
  <2>1. masked' \in BOOLEAN
    BY <1>7 DEF Unmask, Mask, SetMask
  <2> QED
    BY <1>1, <1>7, <2>1 DEF Unmask, Mask, SetMask
<1>8. CASE Play \/ Astray
  BY <1>2, <1>8 DEF Play, StopI2s, StartI2s, Astray
<1>9. CASE Call \/ Interrupt
  BY <1>9, FrameTake DEF Call, Interrupt, Svc, Irq
<1>10. CASE Work \/ Reset
  BY <1>10, StackAssumption, FilesAssumption
     DEF Work, Reset, Compute, Depths, FrameInv, MachineType
<1>11. CASE TimerExpires \/ Answer
  BY <1>2, <1>11 DEF TimerExpires, Answer
<1>12. CASE Exception
  BY <1>12, FrameStore, FrameCalled, FrameLoad, FrameReturn
     DEF Exception, Save, SyscallDispatch, TimerTickHandler, Restore, ReturnFromException
<1>13. CASE UNCHANGED vars
  BY <1>2, <1>13 DEF vars
<1> QED
  BY <1>3, <1>4, <1>5, <1>6, <1>7, <1>8, <1>9, <1>10, <1>11, <1>12, <1>13 DEF Next, KernelMain

\* An exception gives back what it saved, the program's stack and its mask, for
\* every stack size, register contents, and C++ handler that keeps the procedure
\* call standard (vectors.S:63, :72).
THEOREM ExceptionsRestore == Spec => ResumedAsLeft
<1>1. FrameInv /\ [Next]_vars => [mode # "program" /\ mode' = "program" =>
           /\ \A r \in Restored(mode) \cup {"x19"} : regs'[r] = left.regs[r]
           /\ \A a \in left.sp .. StackWords - 1 : stack'[a] = left.stack[a]
           /\ sp' = left.sp /\ masked' = left.masked]_vectorsVars
  <2> SUFFICES ASSUME FrameInv, [Next]_vars, mode # "program", mode' = "program"
               PROVE  Return
    BY FrameReturn
  <2>1. CASE KernelMain \/ Play \/ Call \/ Work \/ Astray \/ Leave
    BY <2>1 DEF KernelMain, Park, Drop, SetStack, ZeroBss, SetVectors, EnableFp, InitDac, DacDone,
                InitI2s, SetNextTick, EnableTimerIrq, Unmask, InitKernel, StartManagers, Mask,
                SetWatchdog, SetMask, Provide, GoTo, ProgramMay, Play, StopI2s, StartI2s, Call, Work,
                Running, Astray, Leave
  <2>2. CASE Reset \/ TimerExpires \/ Interrupt \/ Answer
    BY <2>2 DEF Reset, Compute, TimerExpires, Interrupt, Irq, Take, Answer, vectorsVars
  <2>3. CASE Exception
    BY <2>3 DEF Exception, Save, SyscallDispatch, TimerTickHandler, Restore, ReturnFromException,
                Store, Called, Load
  <2>4. CASE UNCHANGED vars
    BY <2>4 DEF vars, vectorsVars
  <2> QED
    BY <2>1, <2>2, <2>3, <2>4 DEF Next
<1> QED
  BY <1>1, FrameInit, FrameStep, PTL DEF Spec, ResumedAsLeft

-----------------------------------------------------------------------------
LEMMA Quotient ==
    ASSUME NEW a \in Nat, NEW b \in Nat \ {0}
    PROVE  /\ a \div b \in Nat /\ a % b \in 0 .. b - 1
           /\ (a \div b) * b <= a /\ a < (a \div b) * b + b
BY SMTT(60)

\* A divisor that fits DIVI is written as it is.
DiviRange == 0 .. 4095
Fits(n)   == Accepted(n) /\ n % 4096 = n

LEMMA TwelveBits ==
    ASSUME NEW n \in DiviRange
    PROVE  Fits(n)
<1>1. n \in 0 .. 4095
  BY DEF DiviRange
<1>2. n \div 4096 = 0 /\ n % 4096 = n
  BY <1>1
<1>3. \A bit \in {1, 4, 32, 128} : (0 \div bit) % 2 = 0
  OBVIOUS
<1> QED
  BY <1>2, <1>3 DEF Accepted, Fits

LEMMA WrittenAsIs ==
    ASSUME NEW c, NEW rate, NEW d, d.divi \in DiviRange
    PROVE  Written(c, rate, d) = [rate |-> rate, divi |-> d.divi, divf |-> d.divf]
<1>1. Fits(d.divi)
  BY TwelveBits, Zenon
<1> QED
  BY <1>1 DEF Written, Fits

\* The rounding of the fraction, its carry included, where nothing wraps; and what
\* the register then makes of it.
LEMMA DivisorIsNearest ==
    ASSUME NEW rate \in Nat \ {0}, Held(rate), NEW c
    PROVE  Nearest(Written(c, rate, Divisor(rate)))
<1> DEFINE h == rate \div 2
           rem == Base % rate
           whole == Base \div rate
           x == rem * 4096 + h
           q == x \div rate
<1>1. Base \in Nat
  BY DEF Base, Plld, ChanLen, Chans
<1>2. rem \in 0 .. rate - 1 /\ whole \in Nat
  BY <1>1, Quotient
<1>3. h \in Nat /\ 2 * h <= rate /\ rate <= 2 * h + 1
  OBVIOUS
<1>4. x \in Nat
  BY <1>2, <1>3
<1>5. q \in Nat /\ q * rate <= x /\ x < q * rate + rate
  <2> HIDE DEF x
  <2> QED
    BY <1>4, Quotient
<1>11. Fraction(rate) = q
  <2>1. x < rate * 4096 + rate /\ rate * 4096 + rate = rate * 4097
    BY <1>2, <1>3
  <2>2. x < Word
    BY <1>4, <2>1, WordAssumption DEF Held
  <2>3. x % Word = x
    <3> HIDE DEF x
    <3> QED
      BY <1>4, <2>2, WordAssumption
  <2> QED
    BY <2>3 DEF Fraction
<1>6. Divisor(rate) = IF q > 4095 THEN [divi |-> whole + 1, divf |-> 0]
                      ELSE [divi |-> whole, divf |-> q]
  <2> HIDE DEF q
  <2> QED
    BY <1>11 DEF Divisor
<1>12. whole < 4095
  BY DEF Held
<1>7. q <= 4096
  <2> SUFFICES ASSUME q >= 4097 PROVE FALSE
    BY <1>5
  <2> HIDE DEF q
  <2>1. q * rate >= 4097 * rate
    BY <1>5
  <2> QED
    BY <1>2, <1>3, <1>5, <2>1
<1> HIDE DEF q
<1>8. 2 * (q * rate - rem * 4096) <= rate /\ -2 * (q * rate - rem * 4096) <= rate
  <2> DEFINE y == q * rate
  <2>1. y \in Int
    BY <1>5
  <2> HIDE DEF y
  <2>2. 2 * (y - rem * 4096) <= rate /\ -2 * (y - rem * 4096) <= rate
    <3>1. y <= rem * 4096 + h /\ rem * 4096 + h < y + rate
      BY <1>5 DEF y
    <3> QED
      BY <1>2, <1>3, <2>1, <3>1
  <2> QED
    BY <2>2 DEF y
<1> HIDE DEF whole, rem
<1> DEFINE w == Written(c, rate, Divisor(rate))
<1> HIDE DEF w
<1> DEFINE Rounded == /\ w.rate = rate /\ w.divi \in 0 .. 4095 /\ w.divf \in 0 .. 4095
                      /\ (w.divi - whole) * 4096 + w.divf = q
           carry == q > 4095
<1>14. Rounded
  <2> DEFINE d == Divisor(rate)
  <2> HIDE DEF w, q, whole, rem, x, h, d
  <2>1. CASE carry
    <3>1. q = 4096
      BY <1>5, <1>7, <2>1
    <3>2. d.divi = whole + 1 /\ d.divf = 0
      BY <1>6, <2>1 DEF d
    <3>3. whole + 1 \in 0 .. 4095
      BY <1>2, <1>12
    <3>4. d.divi \in DiviRange
      BY <3>2, <3>3 DEF DiviRange
    <3>5. w.rate = rate /\ w.divi = d.divi /\ w.divf = d.divf
      BY <3>4, WrittenAsIs DEF w, d
    <3> QED
      BY <1>2, <3>1, <3>2, <3>3, <3>5
  <2>2. CASE ~carry
    <3>1. d.divi = whole /\ d.divf = q
      BY <1>6, <2>2 DEF d
    <3>2. whole \in 0 .. 4095 /\ q \in 0 .. 4095
      BY <1>2, <1>5, <1>12, <2>2
    <3>3. d.divi \in DiviRange
      BY <3>1, <3>2 DEF DiviRange
    <3>4. w.rate = rate /\ w.divi = d.divi /\ w.divf = d.divf
      BY <3>3, WrittenAsIs DEF w, d
    <3> QED
      BY <3>1, <3>2, <3>4
  <2> HIDE DEF carry, Rounded
  <2> QED
    BY <2>1, <2>2
<1>15. Nearest(w)
  BY <1>8, <1>14 DEF Nearest, whole, rem
<1> QED
  BY <1>15 DEF w

\* The divisor is the nearest one for every sample rate the register holds
\* (hal.cppm:198-206), whatever rates were asked for before and between.
THEOREM ClockRounds == Spec => []ClockIsNearest
<1> DEFINE Inv == /\ clock = [rate |-> clock.rate, divi |-> clock.divi, divf |-> clock.divf]
                  /\ ClockIsNearest
<1>1. Init => Inv
  BY DEF Init, HalInit, Unset, ClockIsNearest, Held
<1>2. Inv /\ [Next]_vars => Inv'
  <2> SUFFICES ASSUME Inv, [Next]_vars PROVE Inv'
    OBVIOUS
  <2>1. CASE InitI2s \/ Play
    <3>1. CASE clock' = clock
      BY <3>1 DEF ClockIsNearest
    <3>2. ASSUME NEW rate \in Nat \ {0}, SetSampleRate(rate) PROVE Inv'
      <4>1. clock' = Written(clock, rate, Divisor(rate))
        BY <3>2 DEF SetSampleRate
      <4>2. /\ clock' = [rate |-> clock'.rate, divi |-> clock'.divi, divf |-> clock'.divf]
            /\ clock'.rate = rate
        BY <4>1 DEF Written
      <4>3. Held(rate) => Nearest(clock')
        BY <4>1, DivisorIsNearest
      <4> QED
        BY <4>2, <4>3 DEF ClockIsNearest
    <3>3. Rates \cup {48000} \subseteq Nat \ {0}
      BY RatesAssumption, WordAssumption
    <3> QED
      BY <2>1, <3>1, <3>2, <3>3 DEF InitI2s, Play, StopI2s, StartI2s, StopClock
  <2>3. CASE clock' = clock
    BY <2>3 DEF ClockIsNearest
  <2>4. CASE Park \/ Drop \/ SetStack \/ ZeroBss \/ SetVectors \/ EnableFp \/ DacDone \/ SetNextTick
             \/ EnableTimerIrq \/ Unmask \/ InitKernel \/ StartManagers \/ Mask \/ SetWatchdog
    BY <2>3, <2>4 DEF Park, Drop, SetStack, ZeroBss, SetVectors, EnableFp, DacDone, SetNextTick,
                      EnableTimerIrq, Unmask, InitKernel, StartManagers, Mask, SetWatchdog,
                      SetMask, Provide, halVars, i2sVars
  <2>5. CASE InitDac \/ Answer
    BY <2>3, <2>5 DEF InitDac, DacInit, StartWrite, PollDone, PollError, CheckError,
                      Answer, Bus, Acknowledge, NotAcknowledged, ClockStops, i2sVars
  <2>6. CASE Call \/ Work \/ Astray \/ Leave \/ TimerExpires \/ Interrupt
    BY <2>3, <2>6 DEF Call, Work, Astray, Leave, TimerExpires, Interrupt, halVars
  <2>9. CASE Reset
    BY <2>9 DEF Reset, Unset, ClockIsNearest, Held
  <2>7. CASE Exception
    BY <2>3, <2>7 DEF Exception, Save, SyscallDispatch, TimerTickHandler, Restore,
                      ReturnFromException, halVars
  <2>8. CASE UNCHANGED vars
    BY <2>3, <2>8 DEF vars, halVars
  <2> QED
    BY <2>1, <2>4, <2>5, <2>6, <2>7, <2>8, <2>9 DEF Next, KernelMain
<1>3. Inv => ClockIsNearest
  OBVIOUS
<1> QED
  BY <1>1, <1>2, <1>3, PTL DEF Spec

-----------------------------------------------------------------------------
\* The BSC controller: its FIFO is empty or holds one of the writes.
Controller == [done : BOOLEAN, err : BOOLEAN,
               fifo : {<<>>} \cup {Writes[i] : i \in 1 .. Len(Writes)},
               step : {"idle", "wait", "check", "failed"}]

\* The writes of dac::init that have been acknowledged hold in the registers; a
\* transfer under way has its two bytes in the FIFO and nothing else.
Programmed(k) == \A i \in 3 .. k : dac[Writes[i][1]] = Writes[i][2]

DacInv ==
    /\ bsc \in Controller
    /\ sent \in 0 .. Len(Writes)
    /\ dac = [r \in DacRegisters |-> dac[r]]
    /\ bsc.step = "idle" => ~bsc.err
    /\ bsc.step # "idle" => sent >= 1
    /\ bsc.step # "failed" /\ ~bsc.err =>
          IF bsc.step = "wait" /\ ~bsc.done THEN bsc.fifo = Writes[sent] /\ Programmed(sent - 1)
          ELSE bsc.fifo = <<>> /\ Programmed(sent)

LEMMA WritesWhole ==
    /\ Len(Writes) = 19
    /\ \A i \in 1 .. 19 : /\ Writes[i] = <<Writes[i][1], Writes[i][2]>>
                          /\ Writes[i][1] \in DacRegisters
                          /\ Writes[i][1] = "reset" /\ Writes[i][2] = 17 => i = 2
<1>1. Len(Writes) = 19
  BY DEF Writes
<1>2. ASSUME NEW i \in 1 .. 19
      PROVE  /\ Writes[i] = <<Writes[i][1], Writes[i][2]>>
             /\ Writes[i][1] = "reset" /\ Writes[i][2] = 17 => i = 2
  BY DEF Writes
<1> QED
  BY <1>1, <1>2 DEF DacRegisters

\* After the resets every write goes to a register of its own.
LEMMA WritesDistinct ==
    \A i, j \in 3 .. 19 : i # j => Writes[i][1] # Writes[j][1]
<1> DEFINE place == [r \in DacRegisters |->
       CASE r = "page" -> 1 [] r = "reset" -> 3 [] r = "power" -> 4 [] r = "pll_ref" -> 5
         [] r = "pll_en" -> 6 [] r = "pll_p" -> 7 [] r = "pll_j" -> 8 [] r = "pll_d_hi" -> 9
         [] r = "pll_d_lo" -> 10 [] r = "pll_r" -> 11 [] r = "dsp_div" -> 12 [] r = "dac_div" -> 13
         [] r = "ncp_div" -> 14 [] r = "osr_div" -> 15 [] r = "i2s_cfg" -> 16 [] r = "vol_l" -> 17
         [] r = "vol_r" -> 18 [] r = "mute" -> 19]
<1>1. ASSUME NEW i \in 3 .. 19 PROVE place[Writes[i][1]] = i
  <2>1. Writes[i][1] \in DacRegisters
    BY WritesWhole
  <2> QED
    BY <2>1 DEF Writes
<1> QED
  BY <1>1

LEMMA DacStart == Init => DacInv
BY WritesWhole DEF Init, HalInit, Idle, Defaults, DacInv, Controller, Programmed

LEMMA DacStartWrite ==
    ASSUME DacInv, StartWrite
    PROVE  DacInv'
<1>1. ~bsc.err /\ bsc.fifo = <<>> /\ Programmed(sent) /\ sent \in 0 .. 18
  <2>1. bsc.step = "idle" /\ sent \in 0 .. 18
    BY WritesWhole DEF DacInv, StartWrite
  <2>2. bsc.step # "failed" /\ bsc.step # "wait"
    BY <2>1
  <2> QED
    BY <2>1, <2>2 DEF DacInv, Controller
<1>2. bsc' = [done |-> FALSE, err |-> FALSE, fifo |-> <<>> \o Writes[sent + 1], step |-> "wait"]
  BY <1>1 DEF StartWrite
<1>3. Writes[sent + 1] = <<Writes[sent + 1][1], Writes[sent + 1][2]>>
  <2>1. sent + 1 \in 1 .. 19
    BY <1>1
  <2> QED
    BY <2>1, WritesWhole, Zenon
<1>4. <<>> \o Writes[sent + 1] = Writes[sent + 1]
  BY <1>3
<1>5. bsc' = [done |-> FALSE, err |-> FALSE, fifo |-> Writes[sent'], step |-> "wait"] /\ sent' \in 1 .. 19
  BY <1>1, <1>2, <1>4 DEF StartWrite
<1>6. bsc' \in Controller
  BY <1>5, WritesWhole DEF Controller
<1>7. Programmed(sent - 1)'
  BY <1>1 DEF Programmed, StartWrite
<1>8. dac' = [r \in DacRegisters |-> dac'[r]]
  BY DEF DacInv, StartWrite
<1> QED
  BY <1>5, <1>6, <1>7, <1>8, WritesWhole DEF DacInv, Controller

LEMMA DacAcknowledge ==
    ASSUME DacInv, Acknowledge
    PROVE  DacInv'
<1> DEFINE r == Writes[sent][1]
           v == Writes[sent][2]
<1>1. /\ sent \in 1 .. 19 /\ bsc.fifo = Writes[sent] /\ Programmed(sent - 1)
      /\ bsc.step = "wait" /\ ~bsc.done /\ ~bsc.err
  BY WritesWhole DEF DacInv, Acknowledge
<1>2. Writes[sent] = <<r, v>> /\ r \in DacRegisters
  BY <1>1, WritesWhole
<1>3. SubSeq(<<r, v>>, 3, Len(<<r, v>>)) = <<>>
  OBVIOUS
<1>4. bsc' = [done |-> TRUE, err |-> FALSE, fifo |-> <<>>, step |-> "wait"]
  <2>1. bsc' = [bsc EXCEPT !.done = TRUE, !.fifo = SubSeq(bsc.fifo, 3, Len(bsc.fifo))]
    BY DEF Acknowledge
  <2>2. SubSeq(bsc.fifo, 3, Len(bsc.fifo)) = <<>>
    BY <1>1, <1>2, <1>3
  <2>3. bsc' = [bsc EXCEPT !.done = TRUE, !.fifo = <<>>]
    BY <2>1, <2>2
  <2> QED
    BY <1>1, <2>3 DEF DacInv, Controller
<1>5. /\ dac' = [x \in DacRegisters |-> dac'[x]]
      /\ sent # 2 => dac'[r] = v
      /\ sent # 2 => \A x \in DacRegisters : x # r => dac'[x] = dac[x]
  <2>1. dac' = IF r = "reset" /\ v = 17 THEN [x \in DacRegisters |-> IF x = r THEN v ELSE Default]
               ELSE [dac EXCEPT ![r] = v]
    BY <1>1 DEF Acknowledge
  <2>2. r = "reset" /\ v = 17 => sent = 2
    BY <1>1, WritesWhole
  <2>3. dac = [x \in DacRegisters |-> dac[x]]
    BY DEF DacInv, Controller
  <2> HIDE DEF r, v
  <2> QED
    BY <1>2, <2>1, <2>2, <2>3
<1>6. Programmed(sent)'
  <2> SUFFICES ASSUME NEW i \in 3 .. sent PROVE dac'[Writes[i][1]] = Writes[i][2]
    BY DEF Programmed, Acknowledge
  <2>1. CASE i = sent
    BY <1>1, <1>5, <2>1
  <2>2. CASE i # sent
    <3>1. i \in 3 .. sent - 1 /\ i \in 3 .. 19 /\ sent \in 3 .. 19
      BY <1>1, <2>2
    <3>2. Writes[i][1] # r /\ Writes[i][1] \in DacRegisters
      BY <2>2, <3>1, WritesDistinct, WritesWhole
    <3>3. dac[Writes[i][1]] = Writes[i][2]
      BY <1>1, <3>1 DEF Programmed
    <3> QED
      BY <1>5, <3>1, <3>2, <3>3
  <2> QED
    BY <2>1, <2>2
<1>7. bsc' \in Controller
  BY <1>4 DEF Controller
<1>8. dac' = [x \in DacRegisters |-> dac'[x]] /\ sent' \in 1 .. 19
  BY <1>1, <1>5 DEF Acknowledge
<1> HIDE DEF r, v
<1> QED
  BY <1>4, <1>6, <1>7, <1>8, WritesWhole DEF DacInv, Controller

LEMMA DacStep == DacInv /\ [Next]_vars => DacInv'
<1> SUFFICES ASSUME DacInv, [Next]_vars PROVE DacInv'
  OBVIOUS
<1>1. CASE UNCHANGED <<bsc, dac, sent>>
  BY <1>1 DEF DacInv, Controller, Programmed
<1>2. CASE InitDac
  <2>1. CASE StartWrite
    BY <2>1, DacStartWrite
  <2>2. CASE PollDone
    BY <2>2 DEF PollDone, DacInv, Controller, Programmed
  <2>3. CASE PollError
    BY <2>3 DEF PollError, DacInv, Controller, Programmed
  <2>4. CASE CheckError
    BY <2>4 DEF CheckError, DacInv, Controller, Programmed
  <2> QED
    BY <1>2, <2>1, <2>2, <2>3, <2>4 DEF InitDac, DacInit
<1>3. CASE Answer
  <2>1. CASE NotAcknowledged
    BY <2>1 DEF NotAcknowledged, DacInv, Controller, Programmed
  <2> QED
    BY <1>1, <1>3, <2>1, DacAcknowledge DEF Answer, Bus, ClockStops
<1>4. CASE Reset
  BY <1>4, WritesWhole DEF Reset, Idle, Defaults, DacInv, Controller, Programmed
<1>5. CASE InitI2s \/ Play
  BY <1>1, <1>5 DEF InitI2s, Play, StopI2s, StartI2s
<1>6. CASE \/ Park \/ Drop \/ SetStack \/ ZeroBss \/ SetVectors \/ EnableFp \/ DacDone \/ SetNextTick
           \/ EnableTimerIrq \/ Unmask \/ InitKernel \/ StartManagers \/ Mask \/ SetWatchdog
  BY <1>1, <1>6 DEF Park, Drop, SetStack, ZeroBss, SetVectors, EnableFp, DacDone, SetNextTick,
                    EnableTimerIrq, Unmask, InitKernel, StartManagers, Mask, SetWatchdog,
                    SetMask, Provide, halVars
<1>7. CASE Call \/ Work \/ Astray \/ Leave \/ TimerExpires \/ Interrupt
  BY <1>1, <1>7 DEF Call, Work, Astray, Leave, TimerExpires, Interrupt, halVars
<1>8. CASE Exception
  BY <1>1, <1>8 DEF Exception, Save, SyscallDispatch, TimerTickHandler, Restore,
                    ReturnFromException, halVars
<1>9. CASE UNCHANGED vars
  BY <1>1, <1>9 DEF vars, halVars
<1> QED
  BY <1>2, <1>3, <1>4, <1>5, <1>6, <1>7, <1>8, <1>9 DEF Next, KernelMain

\* Whatever write the DAC refuses, and however often the board is reset: when
\* dac::init reports success, every register holds what it wrote last
\* (hal.cppm:462).
THEOREM DacIsConfigured == Spec => []DacConfigured
<1>1. DacInv => DacConfigured
  <2> SUFFICES ASSUME DacInv, DacOk PROVE Programmed(Len(Writes))
    BY DEF DacConfigured, Programmed
  <2>1. bsc.step = "idle" /\ sent = Len(Writes) /\ ~bsc.err
    BY DEF DacInv, DacOk
  <2>2. bsc.step # "failed" /\ bsc.step # "wait"
    BY <2>1
  <2>3. Programmed(sent)
    BY <2>1, <2>2 DEF DacInv, Controller
  <2> QED
    BY <2>1, <2>3
<1> QED
  BY <1>1, DacStart, DacStep, PTL DEF Spec

-----------------------------------------------------------------------------
\* How far it is to the shell: the steps of start.S and kernel_main that are left,
\* with the writes of dac::init that are still to be made among them.
DacLeft == 8 + 4 * (Len(Writes) - sent)
              + [wait |-> 3, check |-> 2, idle |-> 1, failed |-> 0][bsc.step]
ToShell == [start |-> 95, drop |-> 94, stack |-> 93, bss |-> 92, vectors |-> 91, fp |-> 90,
            dac |-> DacLeft, i2s |-> 7, busy |-> 6, timer |-> 5, route |-> 4, unmask |-> 3,
            kernel |-> 2, managers |-> 1][pc]
Early == {"start", "drop", "stack", "bss", "vectors", "fp", "dac", "i2s", "busy", "timer", "route",
          "unmask"}
Late  == {"kernel", "managers"}

\* The entry of the timer interrupt has armed the timer once its call is made, and
\* nobody makes a system call before there is a shell.
TickInv == /\ mode = "sync" => pc = "shell"
           /\ mode = "irq" => at \in 1 .. 6
           /\ mode = "irq" /\ at \in 4 .. 6 => timer = "counting"

LEMMA TickStart == Init => TickInv
  BY DEF Init, VectorsInit, TickInv

LEMMA TickStep == OrderInv /\ TickInv /\ [Next]_vars => TickInv'
<1> SUFFICES ASSUME OrderInv, TickInv, [Next]_vars PROVE TickInv'
  OBVIOUS
<1> USE DEF TickInv
<1>1. CASE UNCHANGED <<mode, at, timer, pc>>
  BY <1>1
<1>2. CASE KernelMain \/ Play \/ Work \/ Astray \/ Leave
  BY <1>2 DEF KernelMain, Park, Drop, SetStack, ZeroBss, SetVectors, EnableFp, InitDac, DacDone, InitI2s,
              SetNextTick, EnableTimerIrq, Unmask, InitKernel, StartManagers, Mask, SetWatchdog, Play,
              StopI2s, StartI2s, Work, Running, Astray, Leave, GoTo, ProgramMay, Provide, SetMask, Compute,
              vectorsVars, bootVars
<1>3. CASE Reset
  BY <1>3 DEF Reset, Compute
<1>4. CASE Call \/ Interrupt
  BY <1>4 DEF Call, Interrupt, Svc, Irq, Take, bootVars
<1>5. CASE TimerExpires \/ Answer
  BY <1>5 DEF TimerExpires, Answer, vectorsVars, bootVars
<1>6. CASE Exception
  <2>1. CASE mode = "sync"
    BY <1>6, <2>1 DEF Exception, Save, SyscallDispatch, TimerTickHandler, Restore, ReturnFromException,
                      Store, Called, Load, Return, bootVars
  <2>2. CASE mode = "irq"
    <3>1. /\ at \in {1, 2} => Now.op = "stp"
          /\ at = 3 => Now.op = "bl"
          /\ at \in {4, 5} => Now.op = "ldp"
          /\ at = 6 => Now.op = "eret"
      BY <2>2, IrqCode, Instructions
    <3>2. at \in 1 .. 6
      BY <2>2
    <3> QED
      BY <1>6, <2>2, <3>1, <3>2 DEF Exception, Save, SyscallDispatch, TimerTickHandler, Restore,
               ReturnFromException, Store, Called, Load, Return, bootVars
  <2> QED
    BY <1>6, <2>1, <2>2 DEF Exception, Save, SyscallDispatch, TimerTickHandler, Restore,
                ReturnFromException, Store, Called, Load, Return, OrderInv
<1> QED
  BY <1>1, <1>2, <1>3, <1>4, <1>5, <1>6 DEF Next, vars, bootVars, vectorsVars

\* How far each place is from the shell.
Distances ==
  /\ pc = "start" => ToShell = 95
  /\ pc = "drop" => ToShell = 94
  /\ pc = "stack" => ToShell = 93
  /\ pc = "bss" => ToShell = 92
  /\ pc = "vectors" => ToShell = 91
  /\ pc = "fp" => ToShell = 90
  /\ pc = "dac" => ToShell = DacLeft
  /\ pc = "i2s" => ToShell = 7
  /\ pc = "busy" => ToShell = 6
  /\ pc = "timer" => ToShell = 5
  /\ pc = "route" => ToShell = 4
  /\ pc = "unmask" => ToShell = 3
  /\ pc = "kernel" => ToShell = 2
  /\ pc = "managers" => ToShell = 1

LEMMA ToShellIs == Distances
  BY DEF ToShell, Distances

DacDistances ==
  sent \in 0 .. 19 =>
  /\ bsc.step = "wait" => DacLeft = 11 + 4 * (19 - sent)
  /\ bsc.step = "check" => DacLeft = 10 + 4 * (19 - sent)
  /\ bsc.step = "idle" => DacLeft = 9 + 4 * (19 - sent)
  /\ bsc.step = "failed" => DacLeft = 8 + 4 * (19 - sent)

LEMMA DacLeftIs == DacDistances
<1> SUFFICES ASSUME sent \in 0 .. 19
             PROVE  /\ bsc.step = "wait" => DacLeft = 11 + 4 * (19 - sent)
                    /\ bsc.step = "check" => DacLeft = 10 + 4 * (19 - sent)
                    /\ bsc.step = "idle" => DacLeft = 9 + 4 * (19 - sent)
                    /\ bsc.step = "failed" => DacLeft = 8 + 4 * (19 - sent)
  BY DEF DacDistances
<1>1. Len(Writes) = 19
  BY WritesWhole
<1>2. DacLeft = 8 + 4 * (19 - sent)
              + [wait |-> 3, check |-> 2, idle |-> 1, failed |-> 0][bsc.step]
  BY <1>1 DEF DacLeft
<1> QED
  BY <1>2

\* The generator has been told to stop only where the program waits for it, and no
\* transfer is under way there.
WaitInv == /\ gen \in {"running", "killed", "stopped"}
           /\ gen = "killed" => pc \in {"busy", "play", "astray"}
           /\ pc = "busy" => gen # "running"
           /\ pc \in {"i2s", "busy"} => bsc.step # "wait"

LEMMA WaitStart == Init => WaitInv
  BY DEF Init, HalInit, Handover, WaitInv

LEMMA WaitStep == WaitInv /\ [Next]_vars => WaitInv'
<1> SUFFICES ASSUME WaitInv, [Next]_vars PROVE WaitInv'
  OBVIOUS
<1> USE DEF WaitInv
<1>1. CASE gen' = gen /\ bsc' = bsc /\ pc' \in {pc, "astray"}
  BY <1>1
<1>2. CASE Park \/ Drop \/ SetStack \/ ZeroBss \/ SetVectors \/ EnableFp \/ DacDone
  BY <1>2 DEF Park, Drop, SetStack, ZeroBss, SetVectors, EnableFp, DacDone, DacOk, DacFailed, Provide,
              GoTo, halVars
<1>3. CASE SetNextTick \/ EnableTimerIrq \/ Unmask \/ InitKernel \/ StartManagers \/ Mask
           \/ SetWatchdog \/ Leave
  BY <1>3 DEF SetNextTick, EnableTimerIrq, Unmask, InitKernel, StartManagers, Mask, SetWatchdog, Leave,
              SetMask, GoTo, halVars
<1>4. CASE InitDac
  BY <1>4 DEF InitDac, DacInit, StartWrite, PollDone, PollError, CheckError, bootVars, i2sVars
<1>5. CASE InitI2s \/ Play
  BY <1>5 DEF InitI2s, Play, StopI2s, StartI2s, StopClock, SetSampleRate, GoTo
<1>6. CASE Answer
  BY <1>6 DEF Answer, Bus, Acknowledge, NotAcknowledged, ClockStops, bootVars, i2sVars
<1>7. CASE Reset
  BY <1>7 DEF Reset
<1>8. CASE Call \/ Work \/ Astray \/ TimerExpires \/ Interrupt \/ Exception \/ UNCHANGED vars
  BY <1>1, <1>8 DEF Call, Work, Astray, TimerExpires, Interrupt, Exception, Save, SyscallDispatch,
              TimerTickHandler, Restore, ReturnFromException, vars, bootVars, halVars
<1> QED
  BY <1>2, <1>3, <1>4, <1>5, <1>6, <1>7, <1>8 DEF Next, KernelMain

\* Core 0 on its way to the shell.
Booting == OrderInv /\ DacInv /\ TickInv /\ WaitInv /\ core = 0 /\ pc \in Early \cup Late

LEMMA ToShellRange == Booting => ToShell \in 0 .. 127
<1> SUFFICES ASSUME Booting PROVE ToShell \in 0 .. 127
  OBVIOUS
<1>1. sent \in 0 .. 19 /\ bsc.step \in {"idle", "wait", "check", "failed"}
  BY WritesWhole DEF Booting, DacInv, Controller
<1>2. DacLeft \in 8 .. 87
  BY <1>1, DacLeftIs DEF DacDistances
<1>3. pc \in Early \cup Late
  BY DEF Booting
<1> QED
  BY <1>2, <1>3, ToShellIs DEF Early, Late, Distances

\* The steps of dac::init, and its end, each bring the shell nearer.
LEMMA DacLowers ==
  ASSUME Booting, InitDac
  PROVE  pc' = "dac" /\ ToShell' < ToShell
<1>1. sent \in 0 .. 19 /\ bsc \in Controller
  BY WritesWhole DEF Booting, DacInv
<1>2. pc = "dac" /\ pc' = "dac"
  BY DEF InitDac, bootVars
<1>3. ToShell = DacLeft /\ ToShell' = DacLeft'
  <2>1. Distances /\ Distances'
    BY ToShellIs, PTL
  <2> QED
    BY <1>2, <2>1 DEF Distances
<1>4. DacDistances /\ DacDistances'
  BY DacLeftIs, PTL
<1>5. \/ bsc.step = "idle" /\ bsc'.step = "wait" /\ sent < 19 /\ sent' = sent + 1
      \/ bsc.step = "wait" /\ bsc'.step \in {"check", "failed"} /\ sent' = sent
      \/ bsc.step = "check" /\ bsc'.step \in {"failed", "idle"} /\ sent' = sent
  <2>1. CASE StartWrite
    BY <2>1, WritesWhole DEF StartWrite
  <2>2. CASE PollDone \/ PollError \/ CheckError
    BY <1>1, <2>2 DEF PollDone, PollError, CheckError, Controller
  <2> QED
    BY <2>1, <2>2 DEF InitDac, DacInit
<1>6. DacLeft' < DacLeft
  BY <1>1, <1>4, <1>5 DEF DacDistances
<1> QED
  BY <1>2, <1>3, <1>6

LEMMA MainLowers ==
  ASSUME Booting, KernelMain
  PROVE  core' = 0 /\ (pc' = "shell" \/ (pc' \in Early \cup Late /\ ToShell' < ToShell))
<1>1. /\ sent \in 0 .. 19 /\ bsc.step \in {"idle", "wait", "check", "failed"}
      /\ core = 0 /\ pc \in Early \cup Late
  BY WritesWhole DEF Booting, DacInv, Controller
<1>2. DacLeft \in 8 .. 87
  BY <1>1, DacLeftIs DEF DacDistances
<1>3. Distances /\ Distances'
  BY ToShellIs, PTL
<1>4. CASE InitDac
  BY <1>1, <1>4, DacLowers DEF InitDac, bootVars, Early
<1>5. CASE EnableFp
  <2>1. pc = "fp" /\ pc' = "dac" /\ core' = core /\ DacLeft' = DacLeft
    BY <1>5 DEF EnableFp, Provide, GoTo, halVars, DacLeft
  <2> QED
    BY <1>1, <1>2, <1>3, <2>1 DEF Early, Distances
<1>6. CASE DacDone
  BY <1>1, <1>2, <1>3, <1>6 DEF DacDone, GoTo, Early, Distances
<1>7. CASE Park \/ Drop \/ SetStack \/ ZeroBss \/ SetVectors
  BY <1>1, <1>3, <1>7 DEF Park, Drop, SetStack, ZeroBss, SetVectors, Provide, GoTo, Early,
                           Distances
<1>8. CASE InitI2s \/ SetNextTick \/ EnableTimerIrq \/ Unmask \/ InitKernel \/ StartManagers
  BY <1>1, <1>3, <1>8
     DEF InitI2s, StopI2s, StartI2s, SetNextTick, EnableTimerIrq, Unmask, SetMask, InitKernel,
         StartManagers, GoTo, Early, Late, Distances
<1>9. CASE Mask \/ SetWatchdog
  BY <1>1, <1>9 DEF Mask, SetMask, SetWatchdog, GoTo, Early, Late
<1> QED
  BY <1>4, <1>5, <1>6, <1>7, <1>8, <1>9 DEF KernelMain

\* Whatever else happens, the way to the shell does not grow longer, or is lost.
LEMMA OthersKeep ==
  ASSUME Booting, [Next]_vars, ~KernelMain
  PROVE  pc' = "astray" \/ (core' = 0 /\ pc' = pc /\ ToShell' = ToShell)
<1>1. bsc \in Controller /\ core = 0 /\ pc \in Early \cup Late
  BY DEF Booting, DacInv
<1>2. CASE core' = core /\ pc' = pc /\ bsc'.step = bsc.step /\ sent' = sent
  BY <1>1, <1>2 DEF ToShell, DacLeft
<1>3. CASE Answer
  BY <1>1, <1>2, <1>3 DEF Answer, Bus, Acknowledge, NotAcknowledged, ClockStops, Controller, bootVars
<1>4. CASE Work \/ Astray \/ TimerExpires \/ Interrupt \/ Exception \/ UNCHANGED vars
  BY <1>2, <1>4 DEF Work, Astray, TimerExpires, Interrupt, Exception, Save, SyscallDispatch,
      TimerTickHandler, Restore, ReturnFromException, vars, bootVars, halVars
<1>5. CASE Play \/ Call \/ Leave \/ Reset
  BY <1>1, <1>5 DEF Play, StopI2s, StartI2s, Call, Leave, Reset, GoTo, Early, Late
<1> QED
  BY <1>3, <1>4, <1>5 DEF Next

LEMMA BootingStep == Booting /\ [Next]_vars => Booting' \/ pc' \in {"shell", "astray"}
<1> SUFFICES ASSUME Booting, [Next]_vars PROVE Booting' \/ pc' \in {"shell", "astray"}
  OBVIOUS
<1>1. OrderInv' /\ DacInv' /\ TickInv' /\ WaitInv'
  BY OrderStep, DacStep, TickStep, WaitStep DEF Booting
<1>2. pc' = "astray" \/ (core' = 0 /\ pc' \in Early \cup Late \cup {"shell"})
  BY MainLowers, OthersKeep DEF Booting
<1> QED
  BY <1>1, <1>2 DEF Booting, Early, Late

-----------------------------------------------------------------------------
\* When a step of the program, an answer of the devices, the interrupt and an entry
\* can be taken.
KernelMay    == /\ ProgramMay /\ pc \notin {"shell", "play", "parked", "halted", "astray"}
                /\ pc = "dac" /\ bsc.step = "wait" => bsc.done \/ bsc.err
                /\ pc = "busy" => gen = "stopped"
AnswerMay    == \/ bsc.step = "wait" /\ ~bsc.done /\ (~bsc.err \/ sent \in Refused)
                \/ gen = "killed"
InterruptMay == Pending /\ ~masked /\ mode = "program" /\ pc # "astray"
ExceptionMay == mode # "program" /\ (Now.op = "bl" => CalleeFiles # {} /\ Stacks # {}) /\ pc # "astray"

\* The fairness of Boot's FairSpec, with these guards written out: strong for the
\* program, weak for the others.
MachineRuns == /\ <>[]~KernelMay \/ []<><<KernelMain>>_vars
               /\ []<>~AnswerMay \/ []<><<Answer>>_vars
               /\ []<>~InterruptMay \/ []<><<Interrupt>>_vars
               /\ []<>~ExceptionMay \/ []<><<Exception>>_vars

\* dac::init waits for an answer, or set_sample_rate for BUSY; the entry of the
\* interrupt is at an instruction.
Hung == \/ pc = "dac" /\ bsc.step = "wait" /\ ~bsc.done /\ ~bsc.err
        \/ pc = "busy" /\ gen = "killed"
InIrq(i) == mode = "irq" /\ at = i

LEMMA WhoMayGo ==
  Booting => \/ KernelMay \/ Hung \/ InterruptMay
             \/ InIrq(1) \/ InIrq(2) \/ InIrq(3) \/ InIrq(4) \/ InIrq(5) \/ InIrq(6)
<1> SUFFICES ASSUME Booting, ~KernelMay, ~Hung
             PROVE  InterruptMay \/ \E i \in 1 .. 6 : InIrq(i)
  BY DEF InIrq
<1>1. pc \notin {"shell", "play", "parked", "halted", "astray"} /\ bsc \in Controller
  BY DEF Booting, Early, Late, DacInv
<1>2. ~ProgramMay
  BY <1>1 DEF KernelMay, Hung, Booting, WaitInv
<1>3. mode \in {"program", "irq"}
  BY <1>1 DEF Booting, OrderInv, TickInv
<1> QED
  BY <1>1, <1>2, <1>3 DEF ProgramMay, InterruptMay, Booting, TickInv, InIrq

\* The DAC answers, with an acknowledgement or with an error; the clock generator
\* stops.
LEMMA HungEnds ==
  /\ Booting /\ Hung => AnswerMay
  /\ Booting /\ Hung /\ [Next]_vars => Hung' \/ KernelMay'
  /\ Booting /\ Hung /\ <<Answer>>_vars => KernelMay'
<1>1. ASSUME Booting, Hung, Answer PROVE KernelMay'
  <2>1. /\ bsc \in Controller /\ mode = "program" /\ masked = TRUE
        /\ UNCHANGED <<pc, mode, masked, timer, routed>>
    BY <1>1 DEF Booting, DacInv, OrderInv, Closed, Hung, Answer, bootVars, vectorsVars
  <2>2. CASE pc = "dac"
    <3>1. gen # "killed" /\ bsc.step = "wait"
      BY <1>1, <2>2 DEF Booting, WaitInv, Hung
    <3>2. bsc'.done \/ bsc'.err
      BY <1>1, <2>1, <3>1 DEF Answer, Bus, Acknowledge, NotAcknowledged, ClockStops, Controller
    <3> QED
      BY <2>1, <2>2, <3>2 DEF KernelMay, ProgramMay
  <2>3. CASE pc = "busy"
    <3>1. gen' = "stopped"
      BY <1>1, <2>3 DEF Answer, Bus, Acknowledge, NotAcknowledged, ClockStops, Booting, WaitInv
    <3> QED
      BY <2>1, <2>3, <3>1 DEF KernelMay, ProgramMay
  <2> QED
    BY <1>1, <2>2, <2>3 DEF Hung
<1>2. ASSUME Booting, Hung, [Next]_vars, ~Answer PROVE Hung'
  <2>1. mode = "program" /\ masked = TRUE /\ pc \in {"dac", "busy"}
    BY <1>2 DEF Booting, OrderInv, Closed, Hung
  <2>2. ~KernelMain
    <3> USE DEF KernelMain, Park, Drop, SetStack, ZeroBss, SetVectors, EnableFp, SetNextTick, EnableTimerIrq,
                Unmask, SetMask, InitKernel, StartManagers, Mask, SetWatchdog, Provide, GoTo
    <3>1. CASE pc = "dac"
      <4>1. bsc.step = "wait" /\ ~bsc.done /\ ~bsc.err
        BY <1>2, <3>1 DEF Hung
      <4>2. ~InitDac /\ ~DacDone
        BY <4>1 DEF InitDac, DacInit, StartWrite, PollDone, PollError, CheckError, DacDone, DacOk, DacFailed
      <4>3. ~InitI2s
        BY <3>1 DEF InitI2s, StopI2s, StartI2s
      <4> QED
        BY <3>1, <4>2, <4>3
    <3>2. CASE pc = "busy"
      <4>1. gen = "killed"
        BY <1>2, <3>2 DEF Hung
      <4>2. ~InitI2s
        BY <3>2, <4>1 DEF InitI2s, StopI2s, StartI2s, SetSampleRate
      <4> QED
        BY <3>2, <4>2 DEF InitDac, DacDone
    <3> QED
      BY <2>1, <3>1, <3>2
  <2>3. ~Exception /\ ~Interrupt
    BY <2>1 DEF Exception, Save, SyscallDispatch, TimerTickHandler, Restore, ReturnFromException,
                Store, Called, Load, Return, Interrupt, Irq
  <2>4. ~Play /\ ~Call /\ ~Work /\ ~Astray /\ ~Leave /\ ~Reset
    BY <2>1 DEF Play, StopI2s, StartI2s, Call, Work, Running, Astray, Leave, GoTo, Reset
  <2>5. UNCHANGED <<pc, bsc, gen>>
    BY <1>2, <2>2, <2>3, <2>4 DEF Next, TimerExpires, halVars, vars, bootVars
  <2> QED
    BY <1>2, <2>5 DEF Hung
<1>3. Booting /\ Hung => AnswerMay
  BY DEF Hung, AnswerMay
<1> QED
  BY <1>1, <1>2, <1>3

\* A pending interrupt that is not masked is taken before the program goes on.
LEMMA InterruptEnds ==
  /\ Booting /\ InterruptMay /\ [Next]_vars => InterruptMay' \/ InIrq(1)'
  /\ Booting /\ InterruptMay /\ <<Interrupt>>_vars => InIrq(1)'
<1>1. ASSUME Interrupt PROVE InIrq(1)'
  BY <1>1 DEF Interrupt, Irq, Take, InIrq
<1>2. ASSUME Booting, InterruptMay, [Next]_vars, ~Interrupt PROVE InterruptMay'
  <2>1. mode = "program" /\ ~ProgramMay /\ timer = "expired" /\ pc \notin {"halted", "astray"}
    BY <1>2 DEF InterruptMay, ProgramMay, Pending, Booting, Early, Late
  <2>2. ~KernelMain
    BY <2>1 DEF KernelMain, InitDac, DacDone, Park, Drop, SetStack, ZeroBss, SetVectors, EnableFp,
       InitI2s, StopI2s, StartI2s, SetNextTick, EnableTimerIrq, Unmask, SetMask, InitKernel,
       StartManagers, Mask, SetWatchdog, Provide, GoTo
  <2>3. ~Exception /\ ~TimerExpires
    BY <2>1 DEF Exception, Save, SyscallDispatch, TimerTickHandler, Restore, ReturnFromException,
                Store, Called, Load, Return, TimerExpires
  <2>4. ~Play /\ ~Call /\ ~Work /\ ~Astray /\ ~Leave /\ ~Reset
    BY <2>1 DEF Play, StopI2s, StartI2s, Call, Work, Running, Astray, Leave, GoTo, Reset
  <2>5. UNCHANGED <<timer, routed, masked, mode, pc>>
    BY <1>2, <2>2, <2>3, <2>4 DEF Next, Answer, vars, bootVars, vectorsVars
  <2> QED
    BY <1>2, <2>5 DEF InterruptMay, Pending
<1> QED
  BY <1>1, <1>2

\* The entry goes on instruction by instruction, and gives the processor back to
\* the program with the timer armed.
LEMMA EntryEnds ==
  ASSUME Booting, NEW i \in 1 .. 6, InIrq(i), [Next]_vars
  PROVE  IF Exception THEN IF i = 6 THEN KernelMay' ELSE InIrq(i + 1)'
         ELSE InIrq(i)'
<1>1. /\ i \in {1, 2} => Now.op = "stp"
      /\ i = 3 => Now.op = "bl"
      /\ i \in {4, 5} => Now.op = "ldp"
      /\ i = 6 => Now.op = "eret"
  BY IrqCode, Instructions DEF InIrq
<1>2. CASE Exception /\ i # 6
  BY <1>1, <1>2 DEF InIrq, Exception, Save, SyscallDispatch, TimerTickHandler, Restore,
                    ReturnFromException, Store, Called, Load, Return
<1>3. CASE Exception /\ i = 6
  <2>1. timer = "counting" /\ pc \in Late
    BY <1>3 DEF InIrq, Booting, TickInv, OrderInv, Closed, Early
  <2>2. mode' = "program" /\ UNCHANGED bootVars
    BY <1>1, <1>3 DEF Exception, Save, SyscallDispatch, TimerTickHandler, Restore,
                      ReturnFromException, Store, Called, Load, Return
  <2> QED
    BY <1>3, <2>1, <2>2 DEF KernelMay, ProgramMay, Pending, Late, bootVars
<1>4. CASE ~Exception
  <2>1. mode = "irq" /\ at = i /\ pc # "halted"
    BY DEF InIrq, Booting, Early, Late
  <2>2. ~KernelMain /\ ~Play /\ ~Call /\ ~Work /\ ~Astray /\ ~Leave /\ ~Reset
    BY <2>1 DEF KernelMain, InitDac, DacDone, Park, Drop, SetStack, ZeroBss, SetVectors, EnableFp,
       InitI2s, StopI2s, StartI2s, SetNextTick, EnableTimerIrq, Unmask, SetMask, InitKernel,
       StartManagers, Mask, SetWatchdog, Provide, GoTo, ProgramMay, Play, Call, Work, Running, Astray,
       Leave, Reset
  <2>3. ~Interrupt /\ ~TimerExpires
    BY <2>1 DEF Interrupt, Irq, Take, TimerExpires
  <2>4. UNCHANGED <<mode, at>>
    BY <1>4, <2>2, <2>3 DEF Next, Answer, vars, vectorsVars
  <2> QED
    BY <1>4, <2>1, <2>4 DEF InIrq
<1> QED
  BY <1>2, <1>3, <1>4

-----------------------------------------------------------------------------
\* The temporal prover knows no induction over numbers.  It is given the way to the
\* shell digit by digit: above some digit nothing changes any more, so that the
\* digit can only fall, and then does not change either.
Digit(k) == (ToShell \div k) % 2 = 1
Stays(k) == ToShell' \div k = ToShell \div k

LEMMA Halves ==
  ASSUME NEW r \in 0 .. 127
  PROVE  /\ \A k \in {1, 2, 4, 8, 16, 32, 64} : r \div k \in Nat /\ r \div (2 * k) = (r \div k) \div 2
         /\ r \div 128 = 0 /\ r \div 1 = r
<1>1. ASSUME NEW k \in {1, 2, 4, 8, 16, 32, 64}
      PROVE  r \div k \in Nat /\ r \div (2 * k) = (r \div k) \div 2
  OBVIOUS
<1> QED
  BY <1>1

LEMMA Monotone ==
  ASSUME NEW r \in 0 .. 127, NEW s \in 0 .. 127, s <= r, NEW k \in {1, 2, 4, 8, 16, 32, 64}
  PROVE  s \div k <= r \div k
  OBVIOUS

LEMMA DigitFalls ==
  ASSUME NEW q \in Nat, NEW p \in Nat, p \div 2 = q \div 2
  PROVE  /\ p <= q /\ p % 2 = 1 => q % 2 = 1
         /\ p = q <=> (p % 2 = 1 <=> q % 2 = 1)
  OBVIOUS

LEMMA Nearer ==
  ASSUME Booting, [Next]_vars, Booting'
  PROVE  /\ ToShell \in 0 .. 127 /\ ToShell' \in 0 .. 127 /\ ToShell' <= ToShell
         /\ KernelMain => ToShell' # ToShell
<1>1. Booting' => (ToShell \in 0 .. 127)'
  BY ToShellRange, PTL
<1>2. pc' \notin {"shell", "astray"}
  BY DEF Booting, Early, Late
<1> QED
  BY <1>1, <1>2, ToShellRange, MainLowers, OthersKeep

LEMMA DigitsStay ==
  ASSUME Booting, [Next]_vars, Booting'
  PROVE  /\ Stays(128) /\ ~(Stays(1) /\ KernelMain)
         /\ \A k \in {1, 2, 4, 8, 16, 32, 64} : Stays(2 * k) =>
               (Digit(k)' => Digit(k)) /\ (Stays(k) <=> (Digit(k)' <=> Digit(k)))
<1> DEFINE r == ToShell  s == ToShell'
<1>1. r \in 0 .. 127 /\ s \in 0 .. 127 /\ s <= r /\ (KernelMain => s # r)
  BY Nearer
<1> HIDE DEF r, s
<1>2. ASSUME NEW k \in {1, 2, 4, 8, 16, 32, 64}, s \div (2 * k) = r \div (2 * k)
      PROVE  /\ (s \div k) % 2 = 1 => (r \div k) % 2 = 1
             /\ s \div k = r \div k <=> ((s \div k) % 2 = 1 <=> (r \div k) % 2 = 1)
  <2>1. /\ r \div k \in Nat /\ r \div (2 * k) = (r \div k) \div 2
        /\ s \div k \in Nat /\ s \div (2 * k) = (s \div k) \div 2
        /\ s \div k <= r \div k
    BY <1>1, Halves, Monotone
  <2> QED
    BY <1>2, <2>1, DigitFalls
<1>3. s \div 128 = r \div 128 /\ s \div 1 = s /\ r \div 1 = r
  BY <1>1, Halves
<1> QED
  BY <1>1, <1>2, <1>3 DEF Stays, Digit, r, s

\* Core 0 reaches the shell, on a first boot and after every reset: whichever writes
\* the DAC refuses, however it answers, and whenever the timer ticks
\* (boot.cpp:104), where a C++ handler can return at all; unless the program goes
\* on with a register that irq_handler has lost (vectors.S:78-86), or a tick comes
\* before Kernel::init (boot.cpp:65).
THEOREM BootReachesShell ==
  ASSUME CalleeFiles # {}, Stacks # {}
  PROVE  Spec /\ MachineRuns => ShellReached
<1>1. [][Next]_vars /\ []Booting /\ MachineRuns => []<>KernelMay
  <2>1. [][Next]_vars /\ []Booting /\ MachineRuns => [](InIrq(6) => <>KernelMay)
    <3>1. Booting /\ InIrq(6) /\ [Next]_vars => InIrq(6)' \/ KernelMay'
      BY EntryEnds
    <3>2. Booting /\ InIrq(6) /\ <<Exception>>_vars => KernelMay'
      BY EntryEnds DEF Next, Exception
    <3>3. Booting /\ InIrq(6) => ExceptionMay
      BY DEF InIrq, ExceptionMay, Booting, Early, Late
    <3> QED
      BY <3>1, <3>2, <3>3, PTL DEF MachineRuns
  <2>2. [][Next]_vars /\ []Booting /\ MachineRuns => [](InIrq(5) => <>KernelMay)
    <3>1. Booting /\ InIrq(5) /\ [Next]_vars => InIrq(5)' \/ InIrq(6)'
      BY EntryEnds
    <3>2. Booting /\ InIrq(5) /\ <<Exception>>_vars => InIrq(6)'
      BY EntryEnds DEF Next
    <3>3. Booting /\ InIrq(5) => ExceptionMay
      BY DEF InIrq, ExceptionMay, Booting, Early, Late
    <3> QED
      BY <2>1, <3>1, <3>2, <3>3, PTL DEF MachineRuns
  <2>3. [][Next]_vars /\ []Booting /\ MachineRuns => [](InIrq(4) => <>KernelMay)
    <3>1. Booting /\ InIrq(4) /\ [Next]_vars => InIrq(4)' \/ InIrq(5)'
      BY EntryEnds
    <3>2. Booting /\ InIrq(4) /\ <<Exception>>_vars => InIrq(5)'
      BY EntryEnds DEF Next
    <3>3. Booting /\ InIrq(4) => ExceptionMay
      BY DEF InIrq, ExceptionMay, Booting, Early, Late
    <3> QED
      BY <2>2, <3>1, <3>2, <3>3, PTL DEF MachineRuns
  <2>4. [][Next]_vars /\ []Booting /\ MachineRuns => [](InIrq(3) => <>KernelMay)
    <3>1. Booting /\ InIrq(3) /\ [Next]_vars => InIrq(3)' \/ InIrq(4)'
      BY EntryEnds
    <3>2. Booting /\ InIrq(3) /\ <<Exception>>_vars => InIrq(4)'
      BY EntryEnds DEF Next
    <3>3. Booting /\ InIrq(3) => ExceptionMay
      BY DEF InIrq, ExceptionMay, Booting, Early, Late
    <3> QED
      BY <2>3, <3>1, <3>2, <3>3, PTL DEF MachineRuns
  <2>5. [][Next]_vars /\ []Booting /\ MachineRuns => [](InIrq(2) => <>KernelMay)
    <3>1. Booting /\ InIrq(2) /\ [Next]_vars => InIrq(2)' \/ InIrq(3)'
      BY EntryEnds
    <3>2. Booting /\ InIrq(2) /\ <<Exception>>_vars => InIrq(3)'
      BY EntryEnds DEF Next
    <3>3. Booting /\ InIrq(2) => ExceptionMay
      BY DEF InIrq, ExceptionMay, Booting, Early, Late
    <3> QED
      BY <2>4, <3>1, <3>2, <3>3, PTL DEF MachineRuns
  <2>6. [][Next]_vars /\ []Booting /\ MachineRuns => [](InIrq(1) => <>KernelMay)
    <3>1. Booting /\ InIrq(1) /\ [Next]_vars => InIrq(1)' \/ InIrq(2)'
      BY EntryEnds
    <3>2. Booting /\ InIrq(1) /\ <<Exception>>_vars => InIrq(2)'
      BY EntryEnds DEF Next
    <3>3. Booting /\ InIrq(1) => ExceptionMay
      BY DEF InIrq, ExceptionMay, Booting, Early, Late
    <3> QED
      BY <2>5, <3>1, <3>2, <3>3, PTL DEF MachineRuns
  <2>7. [][Next]_vars /\ []Booting /\ MachineRuns => [](InterruptMay => <>KernelMay)
    BY <2>6, InterruptEnds, PTL DEF MachineRuns
  <2>8. [][Next]_vars /\ []Booting /\ MachineRuns => [](Hung => <>KernelMay)
    BY HungEnds, PTL DEF MachineRuns
  <2> QED
    BY <2>1, <2>2, <2>3, <2>4, <2>5, <2>6, <2>7, <2>8, WhoMayGo, PTL
<1>2. /\ Booting /\ [Next]_vars /\ Booting' => Stays(128) /\ ~(Stays(1) /\ KernelMain)
      /\ UNCHANGED vars => Stays(128) /\ Stays(1)
  BY DigitsStay DEF vars, bootVars, halVars, Stays, ToShell, DacLeft
<1>3. [][Next]_vars /\ []Booting => <>[][Stays(64)]_vars
  <2>1. /\ Booting /\ [Next]_vars /\ Booting' /\ Stays(128)
             => (Digit(64)' => Digit(64)) /\ (Stays(64) <=> (Digit(64)' <=> Digit(64)))
        /\ UNCHANGED vars => Stays(128)
    BY DigitsStay DEF vars, bootVars, halVars, Stays, ToShell, DacLeft
  <2> QED
    BY <1>2, <2>1, PTL
<1>4. [][Next]_vars /\ []Booting => <>[][Stays(32)]_vars
  <2>1. /\ Booting /\ [Next]_vars /\ Booting' /\ Stays(64)
             => (Digit(32)' => Digit(32)) /\ (Stays(32) <=> (Digit(32)' <=> Digit(32)))
        /\ UNCHANGED vars => Stays(64)
    BY DigitsStay DEF vars, bootVars, halVars, Stays, ToShell, DacLeft
  <2> QED
    BY <1>3, <2>1, PTL
<1>5. [][Next]_vars /\ []Booting => <>[][Stays(16)]_vars
  <2>1. /\ Booting /\ [Next]_vars /\ Booting' /\ Stays(32)
             => (Digit(16)' => Digit(16)) /\ (Stays(16) <=> (Digit(16)' <=> Digit(16)))
        /\ UNCHANGED vars => Stays(32)
    BY DigitsStay DEF vars, bootVars, halVars, Stays, ToShell, DacLeft
  <2> QED
    BY <1>4, <2>1, PTL
<1>6. [][Next]_vars /\ []Booting => <>[][Stays(8)]_vars
  <2>1. /\ Booting /\ [Next]_vars /\ Booting' /\ Stays(16)
             => (Digit(8)' => Digit(8)) /\ (Stays(8) <=> (Digit(8)' <=> Digit(8)))
        /\ UNCHANGED vars => Stays(16)
    BY DigitsStay DEF vars, bootVars, halVars, Stays, ToShell, DacLeft
  <2> QED
    BY <1>5, <2>1, PTL
<1>7. [][Next]_vars /\ []Booting => <>[][Stays(4)]_vars
  <2>1. /\ Booting /\ [Next]_vars /\ Booting' /\ Stays(8)
             => (Digit(4)' => Digit(4)) /\ (Stays(4) <=> (Digit(4)' <=> Digit(4)))
        /\ UNCHANGED vars => Stays(8)
    BY DigitsStay DEF vars, bootVars, halVars, Stays, ToShell, DacLeft
  <2> QED
    BY <1>6, <2>1, PTL
<1>8. [][Next]_vars /\ []Booting => <>[][Stays(2)]_vars
  <2>1. /\ Booting /\ [Next]_vars /\ Booting' /\ Stays(4)
             => (Digit(2)' => Digit(2)) /\ (Stays(2) <=> (Digit(2)' <=> Digit(2)))
        /\ UNCHANGED vars => Stays(4)
    BY DigitsStay DEF vars, bootVars, halVars, Stays, ToShell, DacLeft
  <2> QED
    BY <1>7, <2>1, PTL
<1>9. [][Next]_vars /\ []Booting => <>[][Stays(1)]_vars
  <2>1. /\ Booting /\ [Next]_vars /\ Booting' /\ Stays(2)
             => (Digit(1)' => Digit(1)) /\ (Stays(1) <=> (Digit(1)' <=> Digit(1)))
        /\ UNCHANGED vars => Stays(2)
    BY DigitsStay DEF vars, bootVars, halVars, Stays, ToShell, DacLeft
  <2> QED
    BY <1>8, <2>1, PTL
<1>10. [][Next]_vars /\ MachineRuns => []<>~Booting
  BY <1>1, <1>2, <1>9, PTL DEF MachineRuns
<1>11. Booting /\ [Next]_vars => Booting' \/ (pc \in {"shell", "astray"})'
  BY BootingStep
<1>12. OrderInv /\ DacInv /\ TickInv /\ WaitInv /\ core = 0 /\ pc = "start" => Booting
  BY DEF Booting, Early
<1>13. Spec => [](OrderInv /\ DacInv /\ TickInv /\ WaitInv)
  BY OrderInit, OrderStep, DacStart, DacStep, TickStart, TickStep, WaitStart, WaitStep, PTL DEF Spec
<1> QED
  BY <1>10, <1>11, <1>12, <1>13, PTL DEF Spec, ShellReached
=============================================================================
