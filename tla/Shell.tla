------------------------------- MODULE Shell -------------------------------
(***************************************************************************)
(* shell.cpp: the line editor on the UART, its history, and the dispatch   *)
(* of a line to the bus.  A key is an action; the reader may stand inside  *)
(* an escape sequence.  The terminal at the other end of the UART is       *)
(* modelled as the line after the prompt and a cursor.                     *)
(***************************************************************************)
EXTENDS History

CONSTANTS Chars,         \* the characters a key can insert
          Space,
          MaxLine,       \* max_line: a line is shorter
          CommandNames,  \* command_names
          Reboot, Local, \* the lines the shell handles itself: reboot; help, status
          KeyMax,        \* 50: longer keys are cut
          One            \* "1", the value of a command without one

ASSUME ShellAssumption ==
    /\ MaxLine \in Nat \ {0} /\ Space \in Chars /\ KeyMax \in Nat
    /\ Lines = UNION {[1 .. n -> Chars] : n \in 0 .. MaxLine - 1}
    /\ CommandNames \subseteq Lines

VARIABLES line,      \* buf[0 .. len)
          histIdx, browsing,
          at,        \* where the reader stands
          screen,    \* the terminal: text after the prompt, and the cursor
          published  \* the last command on the bus

editorVars == <<line, histIdx, browsing>>
vars == <<historyVars, editorVars, at, screen, published>>

-----------------------------------------------------------------------------
(* The terminal, and what the editor sends to it.                          *)

Prompt == [text |-> << >>, cursor |-> 0]

Echo(term, s) ==
    LET end == term.cursor + Len(s)
        len == IF Len(term.text) > end THEN Len(term.text) ELSE end
    IN  [text |-> [i \in 1 .. len |-> IF i \in term.cursor + 1 .. end
                                      THEN s[i - term.cursor] ELSE term.text[i]],
         cursor |-> end]

Back(term, n) == [term EXCEPT !.cursor = IF n < @ THEN @ - n ELSE 0]
Blanks(n) == [i \in 1 .. n |-> Space]

\* Mutant: goes back without blanking.
BugWiped(term, n) == Back(term, n)

\* clear: backspaces, blanks, backspaces, as many as the line has characters.
Wiped(term, n) == Back(Echo(Back(term, n), Blanks(n)), n)

Clear == /\ line' = << >>
         /\ screen' = Wiped(screen, Len(line))

\* set: the recalled lines and the command names are shorter than the buffer.
SetLine(s) == /\ line' = s
              /\ screen' = Echo(Wiped(screen, Len(line)), s)

-----------------------------------------------------------------------------
ReadInit == line = << >> /\ histIdx = 0 /\ browsing = FALSE /\ at = "line"

Init == HistoryInit /\ ReadInit /\ screen = Prompt /\ published = << >>

\* The loop of read goes on while the line is not full.
Reading == at = "line" /\ Len(line) < MaxLine - 1

Insert(c) == /\ Reading
             /\ line' = Append(line, c)
             /\ screen' = Echo(screen, <<c>>)
             /\ browsing' = FALSE /\ histIdx' = 0
             /\ UNCHANGED <<historyVars, at, published>>

Backspace == /\ Reading /\ line # << >>
             /\ line' = SubSeq(line, 1, Len(line) - 1)
             /\ screen' = Wiped(screen, 1)
             /\ UNCHANGED <<historyVars, histIdx, browsing, at, published>>

CtrlU == /\ Reading
         /\ Clear
         /\ UNCHANGED <<historyVars, histIdx, browsing, at, published>>

Escape == /\ Reading
          /\ at' = "escape"
          /\ UNCHANGED <<historyVars, editorVars, screen, published>>

\* The key after the escape: a bracket, or one that is swallowed.
Bracket == /\ at = "escape"
           /\ at' \in {"bracket", "line"}
           /\ UNCHANGED <<historyVars, editorVars, screen, published>>

Up == /\ at = "bracket" /\ histIdx < count
      /\ SetLine(Get(histIdx))
      /\ histIdx' = histIdx + 1 /\ browsing' = TRUE /\ at' = "line"
      /\ UNCHANGED <<historyVars, published>>

Down == /\ at = "bracket" /\ browsing
        /\ IF histIdx > 1
           THEN SetLine(Get(histIdx - 2)) /\ histIdx' = histIdx - 1 /\ browsing' = TRUE
           ELSE Clear /\ histIdx' = 0 /\ browsing' = FALSE
        /\ at' = "line"
        /\ UNCHANGED <<historyVars, published>>

\* Any other key, and the arrows when there is nothing to show.
OtherSequence == /\ at = "bracket"
                 /\ at' = "line"
                 /\ UNCHANGED <<historyVars, editorVars, screen, published>>

IsStartOf(s, t) == Len(s) <= Len(t) /\ \A i \in 1 .. Len(s) : s[i] = t[i]
Completions == {name \in CommandNames : IsStartOf(line, name)}

\* One completion replaces the line; with more, they are listed, and the prompt
\* and the line are written again below.
Tab == /\ Reading /\ line # << >> /\ Completions # {}
       /\ \/ \E name \in Completions : Completions = {name} /\ SetLine(name)
          \/ /\ \A name \in Completions : Completions # {name}
             /\ screen' = Echo(Prompt, line)
             /\ UNCHANGED line
       /\ UNCHANGED <<historyVars, histIdx, browsing, at, published>>

\* ctrl-c: an empty line is returned, which the history does not see.
CtrlC == /\ Reading
         /\ line' = << >> /\ at' = "dispatch" /\ screen' = Prompt
         /\ UNCHANGED <<historyVars, histIdx, browsing, published>>

\* The end of read, on a line end or because the line is full: a recalled line
\* of the greatest length is run at once.
Enter == /\ at = "line"
         /\ at' = "dispatch"
         /\ Push(line)
         /\ UNCHANGED <<editorVars, screen, published>>

-----------------------------------------------------------------------------
(* dispatch, and the call of read that follows it.                         *)

Spaces == {i \in 1 .. Len(line) : line[i] = Space}
FirstSpace == CHOOSE i \in Spaces : \A j \in Spaces : i <= j
Key == IF Spaces = {} THEN line ELSE SubSeq(line, 1, FirstSpace - 1)
Value == IF Spaces = {} THEN One ELSE SubSeq(line, FirstSpace + 1, Len(line))
Cut(s, n) == IF Len(s) > n THEN SubSeq(s, 1, n) ELSE s

NextRead == line' = << >> /\ histIdx' = 0 /\ browsing' = FALSE /\ at' = "line"
            /\ screen' = Prompt

Publishes == line # << >> /\ line \notin Local

Dispatch == /\ at = "dispatch" /\ line # Reboot
            /\ published' = IF Publishes THEN <<Cut(Key, KeyMax), Value>> ELSE published
            /\ NextRead
            /\ UNCHANGED historyVars

\* shell_main returns.
Leave == /\ at = "dispatch" /\ line = Reboot
         /\ at' = "rebooting"
         /\ UNCHANGED <<historyVars, editorVars, screen, published>>

Next == \/ \E c \in Chars : Insert(c)
        \/ Backspace \/ CtrlU \/ Escape \/ Bracket \/ Up \/ Down \/ OtherSequence
        \/ Tab \/ CtrlC \/ Enter \/ Dispatch \/ Leave

Spec == Init /\ [][Next]_vars

-----------------------------------------------------------------------------
TypeOK == /\ HistoryTypeOK
          /\ line \in Lines
          /\ histIdx \in 0 .. MaxEntries /\ browsing \in BOOLEAN
          /\ at \in {"line", "escape", "bracket", "dispatch", "rebooting"}

\* The arrows walk inside the history, and a line that was typed on is not a
\* recalled one any more.
BrowsesInside == histIdx <= count /\ (browsing <=> histIdx > 0)

\* The line the user sees is the line that will run: up to the cursor the
\* terminal shows the buffer, behind it nothing.
ScreenShowsLine ==
    at \in {"line", "escape", "bracket"} =>
        /\ screen.cursor = Len(line)
        /\ \A i \in 1 .. Len(screen.text) :
              screen.text[i] = IF i <= Len(line) THEN line[i] ELSE Space

\* A line that runs is the newest of the history, also when it was recalled,
\* when it repeats the one before, and when the ring is full.
RunIsNewest == at = "dispatch" /\ line # << >> => Get(0) = line

IInv == TypeOK /\ BrowsesInside /\ RunIsNewest

\* The ring is the list of the last lines.
Recent == INSTANCE RecentLines WITH recent <- newestFirst
HistorySpec == Recent!Spec
=============================================================================
