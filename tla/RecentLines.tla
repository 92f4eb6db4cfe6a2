---------------------------- MODULE RecentLines ----------------------------
(***************************************************************************)
(* What the user of the shell expects of its history: the last lines that  *)
(* were entered, the newest first, no line twice in a row.                 *)
(***************************************************************************)
EXTENDS Naturals, Sequences

CONSTANTS Lines,      \* the lines that can be entered
          MaxEntries  \* how many are kept

VARIABLE recent

Init == recent = << >>

Shorter(m, n) == IF m < n THEN m ELSE n

Remember(line) ==
    /\ recent = << >> \/ recent[1] # line
    /\ recent' = [i \in 1 .. Shorter(Len(recent) + 1, MaxEntries) |->
                     IF i = 1 THEN line ELSE recent[i - 1]]

Next == \E line \in Lines \ {<< >>} : Remember(line)

Spec == Init /\ [][Next]_recent
=============================================================================
