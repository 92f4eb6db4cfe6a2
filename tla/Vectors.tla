------------------------------ MODULE Vectors ------------------------------
(***************************************************************************)
(* vectors.S: the entries of a synchronous exception and of the timer      *)
(* interrupt, one instruction at a time, on the stack of the program they  *)
(* interrupt.  The C++ function they call may change every register the    *)
(* procedure call standard lets it change, and the stack below it.         *)
(***************************************************************************)
EXTENDS Naturals, Sequences

CONSTANTS StackWords,  \* _stack_top of link.ld, in registers from the stack's lower end
          Values,      \* what a register may hold
          Files,       \* what a program leaves in the registers, and on the stack
          Stacks,
          CalleeFiles  \* what a C++ function leaves in the registers

ASSUME StackAssumption == StackWords \in Nat /\ StackWords >= 6 /\ StackWords % 2 = 0

VARIABLES regs,    \* the register file
          sp,      \* the stack pointer, an index of stack
          stack,   \* the words of the stack
          mode,    \* "program", or the entry that runs: "sync" or "irq"
          at,      \* the instruction of that entry that is next
          masked,  \* DAIF.I
          left     \* what the program had when it was interrupted, or had computed since

vectorsVars == <<regs, sp, stack, mode, at, masked, left>>

\* x8 stands for all registers from x4 to x18 and for the vector registers, x19
\* for those a callee keeps.
CallerSaved == {"x0", "x1", "x2", "x3", "x8", "lr"}
Registers   == CallerSaved \cup {"x19", "fp"}
Addresses   == 0 .. StackWords - 1

ASSUME FilesAssumption == /\ Files \cup CalleeFiles \subseteq [Registers -> Values]
                          /\ Stacks \subseteq [Addresses -> Values]

\* Where a program's frame may end: 16-byte aligned, above six free words.
Depths == {d \in 6 .. StackWords : d % 2 = 0}

Stp(a, b) == [op |-> "stp", first |-> a, second |-> b]
Ldp(a, b) == [op |-> "ldp", first |-> a, second |-> b]
Bl        == [op |-> "bl", first |-> "lr", second |-> "lr"]
Eret      == [op |-> "eret", first |-> "lr", second |-> "lr"]

\* Mutant: the pairs are loaded in the order in which they were stored.
BugHandlers == [sync |-> <<Stp("x0", "x1"), Stp("x2", "x3"), Stp("fp", "lr"), Bl,
                           Ldp("x0", "x1"), Ldp("x2", "x3"), Ldp("fp", "lr"), Eret>>,
                irq  |-> <<Stp("x0", "x1"), Stp("fp", "lr"), Bl,
                           Ldp("x0", "x1"), Ldp("fp", "lr"), Eret>>]

\* sync_handler calls syscall_dispatch, irq_handler calls timer_tick_handler.
Handlers == [sync |-> <<Stp("x0", "x1"), Stp("x2", "x3"), Stp("fp", "lr"), Bl,
                        Ldp("fp", "lr"), Ldp("x2", "x3"), Ldp("x0", "x1"), Eret>>,
             irq  |-> <<Stp("x0", "x1"), Stp("fp", "lr"), Bl,
                        Ldp("fp", "lr"), Ldp("x0", "x1"), Eret>>]

Now == Handlers[mode][at]

\* The registers an entry puts back.
Restored(entry) == {"x0", "x1", "fp", "lr"} \cup (IF entry = "sync" THEN {"x2", "x3"} ELSE {})

-----------------------------------------------------------------------------
\* No exception before the first; interrupts are masked, as after a reset.
VectorsInit == /\ regs \in Files
               /\ sp \in Depths
               /\ stack \in Stacks
               /\ mode = "program" /\ at = 1 /\ masked = TRUE
               /\ left = [regs |-> regs, sp |-> sp, stack |-> stack, masked |-> masked]

\* The processor masks interrupts and branches through the table.
Take(entry) ==
    /\ mode = "program"
    /\ mode' = entry /\ at' = 1 /\ masked' = TRUE
    /\ left' = [regs |-> regs, sp |-> sp, stack |-> stack, masked |-> masked]
    /\ UNCHANGED <<regs, sp, stack>>

Svc == Take("sync")
Irq == ~masked /\ Take("irq")

\* stp a, b, [sp, #-16]!
Store == /\ mode # "program" /\ Now.op = "stp"
         /\ sp' = sp - 2
         /\ stack' = [stack EXCEPT ![sp - 2] = regs[Now.first], ![sp - 1] = regs[Now.second]]
         /\ at' = at + 1
         /\ UNCHANGED <<regs, mode, masked, left>>

\* The C++ function, from bl to its return.
Called == /\ mode # "program" /\ Now.op = "bl"
          /\ \E f \in CalleeFiles, s \in Stacks :
                /\ regs' = [r \in Registers |-> IF r \in CallerSaved THEN f[r] ELSE regs[r]]
                /\ stack' = [a \in Addresses |-> IF a < sp THEN s[a] ELSE stack[a]]
          /\ at' = at + 1
          /\ UNCHANGED <<sp, mode, masked, left>>

\* ldp a, b, [sp], #16
Load == /\ mode # "program" /\ Now.op = "ldp"
        /\ regs' = [regs EXCEPT ![Now.first] = stack[sp], ![Now.second] = stack[sp + 1]]
        /\ sp' = sp + 2
        /\ at' = at + 1
        /\ UNCHANGED <<stack, mode, masked, left>>

\* The processor state, the interrupt mask with it, is the program's again.
Return == /\ mode # "program" /\ Now.op = "eret"
          /\ mode' = "program" /\ at' = 1 /\ masked' = left.masked
          /\ UNCHANGED <<regs, sp, stack, left>>

Handle == Store \/ Called \/ Load \/ Return

\* The registers that do not hold what the program left there: vectors.S:78-86
\* saves x0 and x1 around timer_tick_handler, and none from x2 to x18.
Lost == {r \in Registers : regs[r] # left.regs[r]}

\* The program computes: registers, stack and stack pointer are its own.
Compute == /\ mode = "program"
           /\ regs' \in Files
           /\ sp' \in Depths
           /\ stack' \in Stacks
           /\ left' = [regs |-> regs', sp |-> sp', stack |-> stack', masked |-> masked]
           /\ UNCHANGED <<mode, at, masked>>

\* An entry gives back the registers it saves, those a callee keeps, the stack
\* pointer, the program's stack and its interrupt mask (vectors.S:63, :72).
ResumedAsLeft ==
    [][mode # "program" /\ mode' = "program" =>
           /\ \A r \in Restored(mode) \cup {"x19"} : regs'[r] = left.regs[r]
           /\ \A a \in left.sp .. StackWords - 1 : stack'[a] = left.stack[a]
           /\ sp' = left.sp /\ masked' = left.masked]_vectorsVars
=============================================================================
