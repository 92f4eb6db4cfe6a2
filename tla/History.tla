------------------------------ MODULE History ------------------------------
(***************************************************************************)
(* shell.cpp: the ring of the last lines.                                  *)
(***************************************************************************)
EXTENDS Naturals, Sequences

CONSTANTS MaxEntries,  \* max_entries
          Lines        \* the lines the editor can return

ASSUME HistoryAssumption == MaxEntries \in Nat \ {0} /\ << >> \in Lines

VARIABLES entries, count, head

historyVars == <<entries, count, head>>

HistoryInit == /\ entries = [slot \in 0 .. MaxEntries - 1 |-> << >>]
               /\ count = 0
               /\ head = 0

\* Mutant: the newest line is looked for where the next one goes.
BugGetOffByOne(idx) == IF idx >= count THEN << >>
                       ELSE entries[(head + MaxEntries - idx) % MaxEntries]

\* The line idx calls ago; idx 0 is the newest.
Get(idx) == IF idx >= count THEN << >>
            ELSE entries[(head + MaxEntries - 1 - idx) % MaxEntries]

Ignored(line) == line = << >> \/ (count > 0 /\ Get(0) = line)

\* Mutant: once full, the ring stops turning.
BugPushStops(line) ==
    IF Ignored(line) \/ count = MaxEntries THEN UNCHANGED historyVars
    ELSE /\ entries' = [entries EXCEPT ![head] = line]
         /\ head' = (head + 1) % MaxEntries
         /\ count' = count + 1

Push(line) ==
    IF Ignored(line) THEN UNCHANGED historyVars
    ELSE /\ entries' = [entries EXCEPT ![head] = line]
         /\ head' = (head + 1) % MaxEntries
         /\ count' = IF count < MaxEntries THEN count + 1 ELSE count

-----------------------------------------------------------------------------
HistoryTypeOK == /\ entries \in [0 .. MaxEntries - 1 -> Lines]
                 /\ count \in 0 .. MaxEntries
                 /\ head \in 0 .. MaxEntries - 1

\* The lines one can recall, the newest first.
newestFirst == [i \in 1 .. count |-> Get(i - 1)]
=============================================================================
