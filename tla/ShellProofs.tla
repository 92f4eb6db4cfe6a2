---------------------------- MODULE ShellProofs ----------------------------
(***************************************************************************)
(* Proofs about the shell, for every length of line and of history: the    *)
(* editor stays inside its buffer and its history, a line that runs is the *)
(* newest of the history, and the ring implements the list of the last     *)
(* lines.                                                                  *)
(***************************************************************************)
EXTENDS Shell, SequenceTheorems, TLAPS

\* Counting backwards in a ring.
LEMMA RingPosition ==
  ASSUME NEW w \in Nat \ {0}, NEW h \in 0 .. w - 1, NEW i \in 0 .. w - 1
  PROVE  (h + w - 1 - i) % w = IF i < h THEN h - 1 - i ELSE h + w - 1 - i
<1> DEFINE m == h + w - 1 - i
<1>1. m \in Nat /\ m < 2 * w
  OBVIOUS
<1>2. CASE i < h
  <2>1. m - w \in Nat /\ m - w < w /\ m = w + (m - w)
    BY <1>2
  <2>2. m % w = m - w
    BY <2>1
  <2>3. QED
    BY <2>2, <1>2
<1>3. CASE ~(i < h)
  BY <1>3
<1>4. QED
  BY <1>2, <1>3

\* Counting forwards.
LEMMA RingNext ==
  ASSUME NEW w \in Nat \ {0}, NEW h \in 0 .. w - 1
  PROVE  (h + 1) % w = IF h = w - 1 THEN 0 ELSE h + 1
OBVIOUS

-----------------------------------------------------------------------------
\* The lines are the sequences shorter than the buffer.
LEMMA LinesAreSequences ==
  /\ \A s \in Lines : s \in Seq(Chars) /\ Len(s) <= MaxLine - 1
  /\ \A s \in Seq(Chars) : Len(s) <= MaxLine - 1 => s \in Lines
<1> USE ShellAssumption
<1>1. ASSUME NEW s \in Lines PROVE s \in Seq(Chars) /\ Len(s) <= MaxLine - 1
  <2>1. PICK n \in 0 .. MaxLine - 1 : s \in [1 .. n -> Chars]
    OBVIOUS
  <2>2. n \in Nat
    BY <2>1
  <2>3. s \in Seq(Chars) /\ Len(s) = n
    BY <2>1, <2>2, SeqDef
  <2>4. QED
    BY <2>3, <2>1
<1>2. ASSUME NEW s \in Seq(Chars), Len(s) <= MaxLine - 1 PROVE s \in Lines
  <2>1. Len(s) \in 0 .. MaxLine - 1 /\ s \in [1 .. Len(s) -> Chars]
    BY <1>2
  <2>2. QED
    BY <2>1
<1>3. QED
  BY <1>1, <1>2

\* Editing at the end of a line gives a line.
LEMMA EditedLines ==
  /\ << >> \in Lines
  /\ \A s \in Lines, c \in Chars : Len(s) < MaxLine - 1 => Append(s, c) \in Lines
  /\ \A s \in Lines : s # << >> => SubSeq(s, 1, Len(s) - 1) \in Lines
<1>1. ASSUME NEW s \in Lines, NEW c \in Chars, Len(s) < MaxLine - 1
      PROVE  Append(s, c) \in Lines
  <2>1. s \in Seq(Chars) /\ Len(s) \in Nat /\ MaxLine \in Nat
    BY LinesAreSequences, LenProperties, ShellAssumption
  <2>2. Append(s, c) \in Seq(Chars) /\ Len(Append(s, c)) = Len(s) + 1
    BY <2>1, AppendProperties
  <2>3. Len(Append(s, c)) <= MaxLine - 1
    BY <2>1, <2>2, <1>1
  <2>4. QED
    BY <2>2, <2>3, LinesAreSequences
<1>2. ASSUME NEW s \in Lines, s # << >> PROVE SubSeq(s, 1, Len(s) - 1) \in Lines
  <2>1. s \in Seq(Chars) /\ MaxLine \in Nat /\ Len(s) <= MaxLine - 1
    BY LinesAreSequences, ShellAssumption
  <2>2. Len(s) \in Nat \ {0}
    BY <2>1, <1>2, EmptySeq
  <2>3. \A i \in 1 .. Len(s) - 1 : s[i] \in Chars
    BY <2>1, <2>2, ElementOfSeq
  <2>4. /\ SubSeq(s, 1, Len(s) - 1) \in Seq(Chars)
        /\ Len(SubSeq(s, 1, Len(s) - 1)) <= Len(s)
    BY <2>2, <2>3, SubSeqProperties
  <2>5. Len(SubSeq(s, 1, Len(s) - 1)) <= MaxLine - 1
    <3>1. Len(SubSeq(s, 1, Len(s) - 1)) \in Nat
      BY <2>4, LenProperties
    <3>2. QED
      BY <3>1, <2>1, <2>2, <2>4
  <2>6. QED
    BY <2>4, <2>5, LinesAreSequences
<1>3. QED
  BY <1>1, <1>2, HistoryAssumption

-----------------------------------------------------------------------------
\* What a recall answers: one of the lines.
LEMMA RecalledLines == ASSUME HistoryTypeOK, NEW idx \in Nat PROVE Get(idx) \in Lines
<1>1. MaxEntries \in Nat \ {0} /\ head \in 0 .. MaxEntries - 1 /\ count \in 0 .. MaxEntries
  BY HistoryAssumption DEF HistoryTypeOK
<1>2. CASE idx < count
  <2>1. idx \in 0 .. MaxEntries - 1
    BY <1>1, <1>2
  <2>2. (head + MaxEntries - 1 - idx) % MaxEntries \in 0 .. MaxEntries - 1
    BY <1>1, <2>1, RingPosition
  <2>3. QED
    BY <2>2, <1>1, <1>2 DEF Get, HistoryTypeOK
<1>3. CASE idx >= count
  BY <1>3, HistoryAssumption DEF Get
<1>4. QED
  BY <1>1, <1>2, <1>3

\* Where the recalled line stands.
LEMMA RecallPosition ==
  ASSUME HistoryTypeOK, NEW idx \in 0 .. count - 1
  PROVE  Get(idx) = entries[IF idx < head THEN head - 1 - idx
                            ELSE head + MaxEntries - 1 - idx]
<1>1. MaxEntries \in Nat \ {0} /\ head \in 0 .. MaxEntries - 1 /\ count \in 0 .. MaxEntries
  BY HistoryAssumption DEF HistoryTypeOK
<1>2. idx \in 0 .. MaxEntries - 1 /\ ~(idx >= count)
  BY <1>1
<1>3. QED
  BY <1>1, <1>2, RingPosition DEF Get

LEMMA PushTypes ==
  ASSUME HistoryTypeOK, NEW s \in Lines, Push(s) PROVE HistoryTypeOK'
<1>1. MaxEntries \in Nat \ {0} /\ head \in 0 .. MaxEntries - 1 /\ count \in 0 .. MaxEntries
  BY HistoryAssumption DEF HistoryTypeOK
<1>2. (head + 1) % MaxEntries \in 0 .. MaxEntries - 1
  BY <1>1, RingNext
<1>3. CASE Ignored(s)
  BY <1>3 DEF Push, historyVars, HistoryTypeOK
<1>4. CASE ~Ignored(s)
  BY <1>1, <1>2, <1>4 DEF Push, HistoryTypeOK
<1>5. QED
  BY <1>3, <1>4

\* A line that is not ignored becomes the newest, and the others move by one; the
\* oldest of a full ring is overwritten.
LEMMA PushMoves ==
  ASSUME HistoryTypeOK, NEW s \in Lines, Push(s), ~Ignored(s)
  PROVE  /\ count' \in 1 .. MaxEntries
         /\ count' = (IF count < MaxEntries THEN count + 1 ELSE MaxEntries)
         /\ Get(0)' = s
         /\ \A i \in 1 .. count' - 1 : Get(i)' = Get(i - 1)
<1>1. MaxEntries \in Nat \ {0} /\ head \in 0 .. MaxEntries - 1 /\ count \in 0 .. MaxEntries
  BY HistoryAssumption DEF HistoryTypeOK
<1>2. /\ entries' = [entries EXCEPT ![head] = s]
      /\ head' = (IF head = MaxEntries - 1 THEN 0 ELSE head + 1)
      /\ count' = (IF count < MaxEntries THEN count + 1 ELSE count)
  BY <1>1, RingNext DEF Push
<1>3. count' \in 1 .. MaxEntries /\ count' = IF count < MaxEntries THEN count + 1 ELSE MaxEntries
  BY <1>1, <1>2
<1>4. HistoryTypeOK' /\ DOMAIN entries = 0 .. MaxEntries - 1
  BY PushTypes DEF HistoryTypeOK
<1>5. Get(0)' = s
  <2>1. ~(0 >= count') /\ head' \in 0 .. MaxEntries - 1 /\ 0 \in 0 .. MaxEntries - 1
    BY <1>1, <1>2, <1>3
  <2>2. Get(0)' = entries'[(head' + MaxEntries - 1 - 0) % MaxEntries]
    BY <2>1 DEF Get
  <2>3. (head' + MaxEntries - 1 - 0) % MaxEntries = head
    BY <2>1, <1>1, <1>2, RingPosition
  <2>4. QED
    BY <2>2, <2>3, <1>1, <1>2, <1>4
<1>6. ASSUME NEW i \in 1 .. count' - 1 PROVE Get(i)' = Get(i - 1)
  <2>1. /\ i \in 1 .. MaxEntries - 1 /\ ~(i >= count') /\ i - 1 \in 0 .. count - 1
        /\ head' \in 0 .. MaxEntries - 1
    BY <1>1, <1>2
  <2> DEFINE new == IF i < head' THEN head' - 1 - i ELSE head' + MaxEntries - 1 - i
             was == IF i - 1 < head THEN head - 1 - (i - 1)
                    ELSE head + MaxEntries - 1 - (i - 1)
  <2>2. new = was /\ new # head
    BY <2>1, <1>1, <1>2
  <2>3. Get(i)' = entries'[new]
    <3>1. Get(i)' = entries'[(head' + MaxEntries - 1 - i) % MaxEntries]
      BY <2>1 DEF Get
    <3>2. (head' + MaxEntries - 1 - i) % MaxEntries = new
      BY <2>1, <1>1, RingPosition
    <3>3. QED
      BY <3>1, <3>2
  <2>4. Get(i - 1) = entries[was]
    BY <2>1, RecallPosition
  <2> HIDE DEF new, was
  <2>5. QED
    BY <2>2, <2>3, <2>4, <1>2
<1>7. QED
  BY <1>3, <1>5, <1>6

-----------------------------------------------------------------------------
LEMMA InitIInv == Init => IInv
<1> SUFFICES ASSUME Init PROVE IInv
  OBVIOUS
<1>1. HistoryTypeOK
  BY HistoryAssumption DEF Init, HistoryInit, HistoryTypeOK
<1>2. TypeOK
  <2>1. histIdx \in 0 .. MaxEntries /\ line \in Lines
    BY HistoryAssumption DEF Init, ReadInit
  <2>2. browsing \in BOOLEAN /\ at \in {"line", "escape", "bracket", "dispatch", "rebooting"}
    BY DEF Init, ReadInit
  <2>3. QED
    BY <1>1, <2>1, <2>2 DEF TypeOK
<1>3. BrowsesInside
  <2>1. histIdx = 0 /\ count = 0 /\ browsing = FALSE
    BY DEF Init, HistoryInit, ReadInit
  <2>2. histIdx <= count /\ ~(histIdx > 0)
    BY <2>1
  <2>3. QED
    BY <2>1, <2>2, Zenon DEF BrowsesInside
<1>4. RunIsNewest
  BY DEF Init, ReadInit, RunIsNewest
<1>5. QED
  BY <1>2, <1>3, <1>4 DEF IInv

\* The keys that edit the line or move in an escape sequence leave the history
\* alone.
LEMMA EditIInv ==
  ASSUME IInv,
         \/ \E c \in Chars : Insert(c)
         \/ Backspace \/ CtrlU \/ Escape \/ Bracket \/ OtherSequence \/ Tab
  PROVE  IInv'
<1>1. UNCHANGED historyVars
  BY DEF Insert, Backspace, CtrlU, Escape, Bracket, OtherSequence, Tab
<1>2. HistoryTypeOK'
  BY <1>1 DEF IInv, TypeOK, HistoryTypeOK, historyVars
<1>3. line' \in Lines
  <2>1. CASE \E c \in Chars : Insert(c)
    BY <2>1, EditedLines DEF Insert, Reading, IInv, TypeOK
  <2>2. CASE Backspace
    BY <2>2, EditedLines DEF Backspace, IInv, TypeOK
  <2>3. CASE CtrlU
    BY <2>3, EditedLines DEF CtrlU, Clear
  <2>4. CASE Escape \/ Bracket \/ OtherSequence
    BY <2>4 DEF Escape, Bracket, OtherSequence, editorVars, IInv, TypeOK
  <2>5. CASE Tab
    BY <2>5, ShellAssumption DEF Tab, SetLine, Completions, IInv, TypeOK
  <2>6. QED
    BY <2>1, <2>2, <2>3, <2>4, <2>5
<1>4. /\ histIdx' \in 0 .. MaxEntries /\ browsing' \in BOOLEAN
      /\ histIdx' <= count /\ (browsing' <=> histIdx' > 0)
  <2>1. CASE \E c \in Chars : Insert(c)
    <3>1. histIdx' = 0 /\ browsing' = FALSE
      BY <2>1 DEF Insert
    <3>2. 0 \in 0 .. MaxEntries /\ count \in Nat
      BY HistoryAssumption DEF IInv, TypeOK, HistoryTypeOK
    <3>3. histIdx' \in 0 .. MaxEntries /\ histIdx' <= count /\ ~(histIdx' > 0)
      BY <3>1, <3>2
    <3>4. QED
      BY <3>1, <3>3, Zenon
  <2>2. CASE Backspace \/ CtrlU \/ Escape \/ Bracket \/ OtherSequence \/ Tab
    <3>1. histIdx' = histIdx /\ browsing' = browsing
      BY <2>2 DEF Backspace, CtrlU, Escape, Bracket, OtherSequence, Tab, editorVars
    <3>2. QED
      BY <3>1 DEF IInv, TypeOK, BrowsesInside
  <2>3. QED
    BY <2>1, <2>2
<1>5. at' \in {"line", "escape", "bracket"}
  BY DEF Insert, Backspace, CtrlU, Escape, Bracket, OtherSequence, Tab, Reading
<1>6. TypeOK' /\ RunIsNewest'
  BY <1>2, <1>3, <1>4, <1>5 DEF TypeOK, RunIsNewest
<1>7. BrowsesInside'
  BY <1>1, <1>4 DEF BrowsesInside, historyVars
<1>8. QED
  BY <1>6, <1>7 DEF IInv

\* The arrows show lines of the history and stay inside it.
LEMMA ArrowIInv == ASSUME IInv, Up \/ Down PROVE IInv'
<1>1. UNCHANGED historyVars /\ at' = "line"
  BY DEF Up, Down
<1>2. HistoryTypeOK /\ HistoryTypeOK'
  BY <1>1 DEF IInv, TypeOK, HistoryTypeOK, historyVars
<1>3. /\ MaxEntries \in Nat /\ count \in 0 .. MaxEntries
      /\ histIdx \in 0 .. MaxEntries /\ histIdx <= count
      /\ line \in Lines /\ << >> \in Lines
  BY HistoryAssumption DEF IInv, TypeOK, HistoryTypeOK, BrowsesInside
<1>4. /\ line' \in Lines /\ histIdx' \in 0 .. MaxEntries
      /\ histIdx' <= count /\ browsing' \in BOOLEAN /\ (browsing' <=> histIdx' > 0)
  <2>1. CASE Up
    <3>1. histIdx < count /\ histIdx' = histIdx + 1 /\ browsing' = TRUE
          /\ line' = Get(histIdx)
      BY <2>1 DEF Up, SetLine
    <3>2. line' \in Lines
      BY <3>1, <1>2, <1>3, RecalledLines
    <3>3. QED
      BY <3>1, <3>2, <1>3
  <2>2. CASE Down /\ histIdx > 1
    <3>1. histIdx' = histIdx - 1 /\ browsing' = TRUE /\ line' = Get(histIdx - 2)
      BY <2>2 DEF Down, SetLine
    <3>2. histIdx - 2 \in Nat
      BY <2>2, <1>3
    <3>3. line' \in Lines
      BY <3>1, <3>2, <1>2, RecalledLines
    <3>4. QED
      BY <3>1, <3>3, <2>2, <1>3
  <2>3. CASE Down /\ ~(histIdx > 1)
    <3>1. histIdx' = 0 /\ browsing' = FALSE /\ line' = << >>
      BY <2>3 DEF Down, Clear
    <3>2. line' \in Lines /\ histIdx' \in 0 .. MaxEntries /\ histIdx' <= count
          /\ ~(histIdx' > 0)
      BY <3>1, <1>3
    <3>3. QED
      BY <3>1, <3>2, Zenon
  <2>4. QED
    BY <2>1, <2>2, <2>3
<1>5. TypeOK' /\ RunIsNewest'
  BY <1>1, <1>2, <1>4 DEF TypeOK, RunIsNewest
<1>6. BrowsesInside'
  BY <1>1, <1>4 DEF BrowsesInside, historyVars
<1>7. QED
  BY <1>5, <1>6 DEF IInv

\* The end of read puts the line on top of the history, where it may be already.
LEMMA EnterIInv == ASSUME IInv, Enter PROVE IInv'
<1>1. /\ line \in Lines /\ line' = line /\ histIdx' = histIdx
      /\ browsing' = browsing /\ at' = "dispatch" /\ Push(line) /\ HistoryTypeOK
  BY DEF Enter, editorVars, IInv, TypeOK
<1>2. HistoryTypeOK'
  BY <1>1, PushTypes
<1>3. count <= count' /\ (line # << >> => Get(0)' = line)
  <2>1. count \in 0 .. MaxEntries /\ MaxEntries \in Nat
    BY <1>1, HistoryAssumption DEF HistoryTypeOK
  <2>2. CASE Ignored(line)
    <3>1. UNCHANGED historyVars
      BY <1>1, <2>2 DEF Push
    <3>2. Get(0)' = Get(0) /\ count' = count
      BY <3>1 DEF Get, historyVars
    <3>3. QED
      BY <3>2, <2>1, <2>2 DEF Ignored
  <2>3. CASE ~Ignored(line)
    BY <1>1, <2>1, <2>3, PushMoves
  <2>4. QED
    BY <2>2, <2>3
<1>4. TypeOK'
  BY <1>1, <1>2 DEF IInv, TypeOK
<1>5. RunIsNewest'
  BY <1>1, <1>3 DEF RunIsNewest
<1>6. BrowsesInside'
  <2>1. histIdx \in Nat /\ histIdx <= count /\ count \in Nat /\ count' \in Nat
    BY <1>1, <1>2, HistoryAssumption DEF IInv, TypeOK, HistoryTypeOK, BrowsesInside
  <2>2. histIdx' <= count'
    BY <2>1, <1>1, <1>3
  <2>3. QED
    BY <2>2, <1>1 DEF IInv, BrowsesInside
<1>7. QED
  BY <1>4, <1>5, <1>6 DEF IInv

\* ctrl-c, running a line and leaving end a read or start the next one.
LEMMA RunIInv ==
  ASSUME IInv, CtrlC \/ Dispatch \/ Leave \/ UNCHANGED vars PROVE IInv'
<1>1. UNCHANGED historyVars
  BY DEF CtrlC, Dispatch, Leave, vars
<1>2. HistoryTypeOK' /\ count' = count /\ Get(0)' = Get(0)
  BY <1>1 DEF IInv, TypeOK, HistoryTypeOK, historyVars, Get
<1>3. << >> \in Lines /\ 0 \in 0 .. MaxEntries /\ count \in Nat
  BY HistoryAssumption DEF IInv, TypeOK, HistoryTypeOK
<1>4. CASE CtrlC
  BY <1>2, <1>3, <1>4 DEF CtrlC, IInv, TypeOK, BrowsesInside, RunIsNewest
<1>5. CASE Dispatch
  <2>1. /\ histIdx' = 0 /\ browsing' = FALSE /\ line' = << >> /\ at' = "line"
    BY <1>5 DEF Dispatch, NextRead
  <2>2. TypeOK' /\ RunIsNewest'
    BY <2>1, <1>2, <1>3 DEF TypeOK, RunIsNewest
  <2>3. histIdx' <= count' /\ ~(histIdx' > 0)
    BY <2>1, <1>2, <1>3
  <2>4. BrowsesInside'
    BY <2>1, <2>3, Zenon DEF BrowsesInside
  <2>5. QED
    BY <2>2, <2>4 DEF IInv
<1>6. CASE Leave
  BY <1>2, <1>6 DEF Leave, editorVars, IInv, TypeOK, BrowsesInside, RunIsNewest
<1>7. CASE UNCHANGED vars
  BY <1>2, <1>7 DEF vars, editorVars, IInv, TypeOK, BrowsesInside, RunIsNewest
<1>8. QED
  BY <1>4, <1>5, <1>6, <1>7

\* No key leaves IInv.
THEOREM Invariance == Spec => []IInv
<1>1. IInv /\ [Next]_vars => IInv'
  BY EditIInv, ArrowIInv, EnterIInv, RunIInv DEF Next
<1>2. QED
  BY InitIInv, <1>1, PTL DEF Spec

\* The line stays inside the buffer and the ring's indices inside the ring.
THEOREM TypeCorrect == Spec => []TypeOK
<1>1. IInv => TypeOK
  BY DEF IInv
<1>2. QED
  BY <1>1, Invariance, PTL

\* What runs can be recalled with one key.
THEOREM RunRecallable == Spec => []RunIsNewest
<1>1. IInv => RunIsNewest
  BY DEF IInv
<1>2. QED
  BY <1>1, Invariance, PTL

-----------------------------------------------------------------------------
\* A pushed line is remembered, or was the newest already.
LEMMA EnterRefines ==
  ASSUME IInv, Enter
  PROVE  Recent!Next \/ UNCHANGED newestFirst
<1>1. line \in Lines /\ Push(line) /\ HistoryTypeOK
  BY DEF Enter, IInv, TypeOK
<1>2. CASE Ignored(line)
  BY <1>1, <1>2 DEF Push, historyVars, newestFirst, Get
<1>3. CASE ~Ignored(line)
  <2>1. MaxEntries \in Nat \ {0} /\ count \in 0 .. MaxEntries
    BY <1>1, HistoryAssumption DEF HistoryTypeOK
  <2>2. line \in Lines \ {<< >>}
    BY <1>1, <1>3 DEF Ignored
  <2>3. newestFirst \in Seq(Lines) /\ Len(newestFirst) = count
    <3>1. newestFirst = [i \in 1 .. count |-> Get(i - 1)]
      BY DEF newestFirst
    <3>2. \A i \in 1 .. count : Get(i - 1) \in Lines
      BY <1>1, <2>1, RecalledLines
    <3>3. newestFirst \in [1 .. count -> Lines] /\ count \in Nat
      BY <3>1, <3>2, <2>1
    <3>4. QED
      BY <3>3, SeqDef
  <2>4. newestFirst = << >> \/ newestFirst[1] # line
    <3>1. CASE count = 0
      BY <3>1, <2>3, EmptySeq
    <3>2. CASE count > 0
      BY <3>2, <1>3, <2>1 DEF Ignored, newestFirst
    <3>3. QED
      BY <3>1, <3>2, <2>1
  <2>5. newestFirst' = [i \in 1 .. Recent!Shorter(count + 1, MaxEntries) |->
                           IF i = 1 THEN line ELSE newestFirst[i - 1]]
    <3>1. /\ count' \in 1 .. MaxEntries
          /\ count' = (IF count < MaxEntries THEN count + 1 ELSE MaxEntries)
          /\ Get(0)' = line
          /\ \A i \in 1 .. count' - 1 : Get(i)' = Get(i - 1)
      BY <1>1, <1>3, PushMoves
    <3>2. count' = Recent!Shorter(count + 1, MaxEntries)
      BY <3>1, <2>1 DEF Recent!Shorter
    <3>3. ASSUME NEW i \in 1 .. count'
          PROVE  Get(i - 1)' = IF i = 1 THEN line ELSE newestFirst[i - 1]
      <4>1. CASE i = 1
        BY <4>1, <3>1
      <4>2. CASE i # 1
        <5>1. i - 1 \in 1 .. count' - 1 /\ i - 1 \in 1 .. count
          BY <4>2, <3>1, <2>1
        <5>2. Get(i - 1)' = Get(i - 1 - 1)
          BY <5>1, <3>1
        <5>3. newestFirst[i - 1] = Get(i - 1 - 1)
          BY <5>1 DEF newestFirst
        <5>4. QED
          BY <5>2, <5>3, <4>2
      <4>3. QED
        BY <4>1, <4>2
    <3>4. newestFirst' = [i \in 1 .. count' |-> Get(i - 1)']
      BY DEF newestFirst
    <3>5. QED
      BY <3>2, <3>3, <3>4
  <2>6. Recent!Remember(line)
    BY <2>3, <2>4, <2>5 DEF Recent!Remember
  <2>7. QED
    BY <2>2, <2>6 DEF Recent!Next
<1>4. QED
  BY <1>2, <1>3

\* The ring of the shell is the list of the last lines, newest first.
THEOREM Refinement == Spec => HistorySpec
<1>1. Init => Recent!Init
  BY DEF Init, HistoryInit, Recent!Init, newestFirst
<1>2. IInv /\ [Next]_vars =>
         [Recent!Next]_newestFirst
  <2> SUFFICES ASSUME IInv, [Next]_vars
               PROVE  Recent!Next \/ UNCHANGED newestFirst
    OBVIOUS
  <2>1. CASE Enter
    BY <2>1, EnterRefines
  <2>2. CASE ~Enter
    <3>1. UNCHANGED historyVars
      BY <2>2 DEF Next, Insert, Backspace, CtrlU, Escape, Bracket, Up, Down,
                  OtherSequence, Tab, CtrlC, Dispatch, Leave, vars
    <3>2. QED
      BY <3>1 DEF newestFirst, Get, historyVars
  <2>3. QED
    BY <2>1, <2>2
<1>3. QED
  BY Invariance, <1>1, <1>2, PTL DEF Spec, HistorySpec, Recent!Spec

-----------------------------------------------------------------------------
(* The terminal, by what it shows: the line up to the cursor, and blanks.  *)

Terminal == [text : Seq(Chars), cursor : Nat]

Shown(term, l) ==
    /\ term \in Terminal
    /\ term.cursor = Len(l) /\ Len(l) <= Len(term.text)
    /\ \A i \in 1 .. Len(term.text) :
          term.text[i] = IF i <= Len(l) THEN l[i] ELSE Space

LEMMA PromptShown == Shown(Prompt, << >>)
BY DEF Shown, Prompt, Terminal

\* What is written goes from the cursor on; what stands around it stays.
LEMMA Echoed ==
  ASSUME NEW term \in Terminal, term.cursor <= Len(term.text), NEW s \in Seq(Chars)
  PROVE  /\ Echo(term, s) \in Terminal
         /\ Echo(term, s).cursor = term.cursor + Len(s)
         /\ Len(Echo(term, s).text) = IF Len(term.text) > term.cursor + Len(s)
                                      THEN Len(term.text) ELSE term.cursor + Len(s)
         /\ \A i \in 1 .. Len(Echo(term, s).text) :
               Echo(term, s).text[i] = IF i \in term.cursor + 1 .. term.cursor + Len(s)
                                       THEN s[i - term.cursor] ELSE term.text[i]
<1> DEFINE c == term.cursor
           end == c + Len(s)
           len == IF Len(term.text) > end THEN Len(term.text) ELSE end
           text == [i \in 1 .. len |-> IF i \in c + 1 .. end
                                       THEN s[i - c] ELSE term.text[i]]
<1>1. c \in Nat /\ Len(s) \in Nat /\ term.text \in Seq(Chars) /\ Len(term.text) \in Nat
  BY DEF Terminal
<1>2. len \in Nat /\ end \in Nat /\ c <= Len(term.text)
  BY <1>1
<1>3. ASSUME NEW i \in 1 .. len
      PROVE  (IF i \in c + 1 .. end THEN s[i - c] ELSE term.text[i]) \in Chars
  <2>1. CASE i \in c + 1 .. end
    <3>1. i - c \in 1 .. Len(s)
      BY <2>1, <1>1
    <3>2. s[i - c] \in Chars
      BY <3>1, ElementOfSeq
    <3>3. QED
      BY <3>2, <2>1
  <2>2. CASE i \notin c + 1 .. end
    <3>1. i \in 1 .. Len(term.text)
      BY <2>2, <1>1, <1>2
    <3>2. term.text[i] \in Chars
      BY <3>1, <1>1, ElementOfSeq
    <3>3. QED
      BY <3>2, <2>2
  <2>3. QED
    BY <2>1, <2>2
<1>4. text \in Seq(Chars) /\ Len(text) = len
  <2>1. text \in [1 .. len -> Chars]
    BY <1>3
  <2> HIDE DEF text, len
  <2>2. QED
    BY <2>1, <1>2, SeqDef
<1>5. Echo(term, s) = [text |-> text, cursor |-> end]
  BY DEF Echo
<1>6. \A i \in 1 .. len : text[i] = IF i \in c + 1 .. end THEN s[i - c] ELSE term.text[i]
  OBVIOUS
<1> HIDE DEF text
<1>7. QED
  BY <1>2, <1>4, <1>5, <1>6 DEF Terminal

\* What is typed is shown behind the line.
LEMMA EchoShown ==
  ASSUME NEW term, NEW l \in Seq(Chars), Shown(term, l), NEW s \in Seq(Chars),
         NEW l2 \in Seq(Chars), Len(l2) = Len(l) + Len(s),
         \A i \in 1 .. Len(l) : l2[i] = l[i],
         \A i \in 1 .. Len(s) : l2[Len(l) + i] = s[i]
  PROVE  Shown(Echo(term, s), l2)
<1> DEFINE new == Echo(term, s)
<1>1. /\ Len(l) \in Nat /\ Len(s) \in Nat /\ Len(l2) \in Nat /\ Len(term.text) \in Nat
      /\ term \in Terminal /\ term.cursor = Len(l) /\ term.cursor <= Len(term.text)
  BY DEF Shown, Terminal
<1>2. /\ new \in Terminal /\ new.cursor = Len(l) + Len(s)
      /\ Len(new.text) = IF Len(term.text) > Len(l) + Len(s)
                         THEN Len(term.text) ELSE Len(l) + Len(s)
      /\ \A i \in 1 .. Len(new.text) :
            new.text[i] = IF i \in Len(l) + 1 .. Len(l) + Len(s)
                          THEN s[i - Len(l)] ELSE term.text[i]
  <2>1. /\ new \in Terminal /\ new.cursor = term.cursor + Len(s)
        /\ Len(new.text) = IF Len(term.text) > term.cursor + Len(s)
                           THEN Len(term.text) ELSE term.cursor + Len(s)
        /\ \A i \in 1 .. Len(new.text) :
              new.text[i] = IF i \in term.cursor + 1 .. term.cursor + Len(s)
                            THEN s[i - term.cursor] ELSE term.text[i]
    BY <1>1, Echoed, Zenon
  <2> HIDE DEF new
  <2>2. QED
    BY <2>1, <1>1
<1> HIDE DEF new
<1>3. ASSUME NEW i \in 1 .. Len(new.text)
      PROVE  new.text[i] = IF i <= Len(l2) THEN l2[i] ELSE Space
  <2>1. CASE i <= Len(l)
    <3>1. i \in 1 .. Len(l) /\ i \in 1 .. Len(term.text) /\ i <= Len(l2)
          /\ i \notin Len(l) + 1 .. Len(l) + Len(s)
      BY <2>1, <1>1
    <3>2. new.text[i] = term.text[i] /\ term.text[i] = l[i] /\ l2[i] = l[i]
      BY <3>1, <2>1, <1>2 DEF Shown
    <3>3. QED
      BY <3>1, <3>2
  <2>2. CASE i > Len(l) /\ i <= Len(l2)
    <3>1. i \in Len(l) + 1 .. Len(l) + Len(s) /\ i - Len(l) \in 1 .. Len(s)
          /\ Len(l) + (i - Len(l)) = i
      BY <2>2, <1>1
    <3>2. new.text[i] = s[i - Len(l)]
      BY <3>1, <1>2
    <3>3. l2[i] = s[i - Len(l)]
      BY <3>1
    <3>4. QED
      BY <3>2, <3>3, <2>2
  <2>3. CASE i > Len(l2)
    <3>1. i \in 1 .. Len(term.text) /\ ~(i <= Len(l)) /\ ~(i <= Len(l2))
          /\ i \notin Len(l) + 1 .. Len(l) + Len(s)
      BY <2>3, <1>1, <1>2
    <3>2. new.text[i] = term.text[i] /\ term.text[i] = Space
      BY <3>1, <1>2 DEF Shown
    <3>3. QED
      BY <3>1, <3>2
  <2>4. QED
    BY <2>1, <2>2, <2>3, <1>1
<1>4. new.cursor = Len(l2) /\ Len(l2) <= Len(new.text)
  BY <1>1, <1>2
<1>5. QED
  BY <1>2, <1>3, <1>4 DEF Shown, new

\* Erasing blanks what it takes back, and nothing else.
LEMMA WipedShown ==
  ASSUME NEW term, NEW l \in Seq(Chars), Shown(term, l), NEW n \in 0 .. Len(l),
         NEW l2 \in Seq(Chars), Len(l2) = Len(l) - n,
         \A i \in 1 .. Len(l2) : l2[i] = l[i]
  PROVE  Shown(Wiped(term, n), l2)
<1> DEFINE back == Back(term, n)
           blanked == Echo(back, Blanks(n))
<1>1. /\ Len(l) \in Nat /\ n \in Nat /\ Len(l2) \in Nat /\ Len(term.text) \in Nat
      /\ term \in Terminal /\ term.cursor = Len(l) /\ Len(l) <= Len(term.text)
      /\ n <= Len(l)
  BY DEF Shown, Terminal
<1>2. back \in Terminal /\ back.cursor = Len(l2) /\ back.text = term.text
  <2>1. (IF n < Len(l) THEN Len(l) - n ELSE 0) = Len(l2) /\ Len(l2) \in Nat
    BY <1>1
  <2>2. back = [term EXCEPT !.cursor = Len(l2)]
    BY <1>1, <2>1 DEF Back
  <2> HIDE DEF back
  <2>3. QED
    BY <2>1, <2>2, <1>1 DEF Terminal
<1>3. Blanks(n) \in Seq(Chars) /\ Len(Blanks(n)) = n /\ \A i \in 1 .. n : Blanks(n)[i] = Space
  <2>1. Blanks(n) \in [1 .. n -> Chars]
    BY ShellAssumption DEF Blanks
  <2>2. QED
    BY <2>1, <1>1, SeqDef DEF Blanks
<1> HIDE DEF back
<1>4. /\ blanked \in Terminal /\ blanked.cursor = Len(l)
      /\ Len(blanked.text) = Len(term.text)
      /\ \A i \in 1 .. Len(blanked.text) :
            blanked.text[i] = IF i \in Len(l2) + 1 .. Len(l)
                              THEN Blanks(n)[i - Len(l2)] ELSE term.text[i]
  <2>1. Len(l2) + n = Len(l) /\ back.cursor <= Len(back.text)
    BY <1>1, <1>2
  <2>2. /\ blanked \in Terminal /\ blanked.cursor = Len(l)
        /\ Len(blanked.text) = IF Len(term.text) > Len(l) THEN Len(term.text) ELSE Len(l)
        /\ \A i \in 1 .. Len(blanked.text) :
              blanked.text[i] = IF i \in Len(l2) + 1 .. Len(l)
                                THEN Blanks(n)[i - Len(l2)] ELSE term.text[i]
    <3> DEFINE b == Blanks(n)
    <3>1. /\ blanked \in Terminal /\ blanked.cursor = back.cursor + Len(b)
          /\ Len(blanked.text) = IF Len(back.text) > back.cursor + Len(b)
                                 THEN Len(back.text) ELSE back.cursor + Len(b)
          /\ \A i \in 1 .. Len(blanked.text) :
                blanked.text[i] = IF i \in back.cursor + 1 .. back.cursor + Len(b)
                                  THEN b[i - back.cursor] ELSE back.text[i]
      BY <2>1, <1>2, <1>3, Echoed, Zenon
    <3>2. back.cursor = Len(l2) /\ back.cursor + Len(b) = Len(l) /\ back.text = term.text
      BY <2>1, <1>2, <1>3
    <3> HIDE DEF blanked, b
    <3>3. QED
      BY <3>1, <3>2 DEF b
  <2>3. QED
    BY <2>2, <1>1
<1>5. Wiped(term, n) = [blanked EXCEPT !.cursor = IF n < @ THEN @ - n ELSE 0]
  BY DEF Wiped, Back, back
<1> HIDE DEF blanked
<1>6. /\ Wiped(term, n) \in Terminal /\ Wiped(term, n).cursor = Len(l2)
      /\ Wiped(term, n).text = blanked.text
  <2>1. (IF n < Len(l) THEN Len(l) - n ELSE 0) = Len(l2)
    BY <1>1
  <2>2. Wiped(term, n) = [blanked EXCEPT !.cursor = Len(l2)]
    BY <2>1, <1>4, <1>5
  <2>3. QED
    BY <2>2, <1>1, <1>4 DEF Terminal
<1>7. ASSUME NEW i \in 1 .. Len(blanked.text)
      PROVE  blanked.text[i] = IF i <= Len(l2) THEN l2[i] ELSE Space
  <2>1. i \in 1 .. Len(term.text) /\ Len(l2) <= Len(l)
    BY <1>4, <1>1
  <2>2. CASE i <= Len(l2)
    <3>1. i \in 1 .. Len(l2) /\ i <= Len(l) /\ i \notin Len(l2) + 1 .. Len(l)
      BY <2>1, <2>2, <1>1
    <3>2. blanked.text[i] = term.text[i] /\ term.text[i] = l[i]
      BY <2>1, <3>1, <1>4 DEF Shown
    <3>3. QED
      BY <3>1, <3>2, <2>2
  <2>3. CASE i > Len(l2) /\ i <= Len(l)
    <3>1. i \in Len(l2) + 1 .. Len(l) /\ i - Len(l2) \in 1 .. n /\ ~(i <= Len(l2))
      BY <2>1, <2>3, <1>1
    <3>2. QED
      BY <3>1, <1>3, <1>4
  <2>4. CASE i > Len(l)
    <3>1. i \notin Len(l2) + 1 .. Len(l) /\ ~(i <= Len(l2)) /\ ~(i <= Len(l))
      BY <2>1, <2>4, <1>1
    <3>2. blanked.text[i] = term.text[i] /\ term.text[i] = Space
      BY <2>1, <3>1, <1>4 DEF Shown
    <3>3. QED
      BY <3>1, <3>2
  <2>5. QED
    BY <2>1, <2>2, <2>3, <2>4, <1>1
<1>8. Len(l2) <= Len(blanked.text)
  BY <1>1, <1>4
<1>9. QED
  BY <1>6, <1>7, <1>8 DEF Shown

-----------------------------------------------------------------------------
\* While a line is read, the terminal shows it.
Mirrored == at \in {"line", "escape", "bracket"} => Shown(screen, line)

\* Typing writes behind the line.
LEMMA InsertMirrored ==
  ASSUME IInv, Mirrored, NEW c \in Chars, Insert(c) PROVE Mirrored'
<1>1. line \in Seq(Chars) /\ Shown(screen, line) /\ <<c>> \in Seq(Chars) /\ Len(<<c>>) = 1
  BY LinesAreSequences DEF Insert, Reading, Mirrored, IInv, TypeOK
<1>2. /\ Append(line, c) \in Seq(Chars) /\ Len(Append(line, c)) = Len(line) + 1
      /\ \A i \in 1 .. Len(line) : Append(line, c)[i] = line[i]
      /\ Append(line, c)[Len(line) + 1] = c
  BY <1>1, AppendProperties
<1>3. \A i \in 1 .. Len(<<c>>) : Append(line, c)[Len(line) + i] = <<c>>[i]
  BY <1>1, <1>2
<1>4. Shown(Echo(screen, <<c>>), Append(line, c))
  BY <1>1, <1>2, <1>3, EchoShown
<1>5. line' = Append(line, c) /\ screen' = Echo(screen, <<c>>)
  BY DEF Insert
<1>6. QED
  BY <1>4, <1>5 DEF Mirrored

\* A line takes the place of another.
LEMMA SetMirrored ==
  ASSUME Shown(screen, line), line \in Seq(Chars), NEW s \in Seq(Chars), SetLine(s)
  PROVE  Shown(screen', line')
<1>1. Len(line) \in 0 .. Len(line) /\ << >> \in Seq(Chars) /\ Len(<< >>) = Len(line) - Len(line)
      /\ \A i \in 1 .. Len(<< >>) : << >>[i] = line[i]
  OBVIOUS
<1>2. Shown(Wiped(screen, Len(line)), << >>)
  BY <1>1, WipedShown
<1>3. /\ Len(s) = Len(<< >>) + Len(s)
      /\ \A i \in 1 .. Len(<< >>) : s[i] = << >>[i]
      /\ \A i \in 1 .. Len(s) : s[Len(<< >>) + i] = s[i]
  OBVIOUS
<1>4. Shown(Echo(Wiped(screen, Len(line)), s), s)
  BY <1>1, <1>2, <1>3, EchoShown
<1>5. QED
  BY <1>4 DEF SetLine

\* The line is erased.
LEMMA ClearMirrored ==
  ASSUME Shown(screen, line), line \in Seq(Chars), Clear
  PROVE  Shown(screen', line')
<1>1. Len(line) \in 0 .. Len(line) /\ << >> \in Seq(Chars) /\ Len(<< >>) = Len(line) - Len(line)
      /\ \A i \in 1 .. Len(<< >>) : << >>[i] = line[i]
  OBVIOUS
<1>2. Shown(Wiped(screen, Len(line)), << >>)
  BY <1>1, WipedShown
<1>3. QED
  BY <1>2 DEF Clear

LEMMA BackspaceMirrored == ASSUME IInv, Mirrored, Backspace PROVE Mirrored'
<1> DEFINE shorter == SubSeq(line, 1, Len(line) - 1)
<1>1. line \in Seq(Chars) /\ Shown(screen, line) /\ line # << >>
  BY LinesAreSequences DEF Backspace, Reading, Mirrored, IInv, TypeOK
<1>2. Len(line) \in Nat \ {0}
  BY <1>1, EmptySeq
<1>3. /\ shorter \in Seq(Chars) /\ Len(shorter) = Len(line) - 1
      /\ \A i \in 1 .. Len(shorter) : shorter[i] = line[i]
  <2>1. \A i \in 1 .. Len(line) - 1 : line[i] \in Chars
    BY <1>1, <1>2, ElementOfSeq
  <2>2. /\ shorter \in Seq(Chars)
        /\ Len(shorter) = IF 1 <= Len(line) - 1 THEN Len(line) - 1 - 1 + 1 ELSE 0
        /\ \A i \in 1 .. Len(line) - 1 - 1 + 1 : shorter[i] = line[1 + i - 1]
    BY <1>2, <2>1, SubSeqProperties
  <2>3. Len(shorter) = Len(line) - 1
    <3> DEFINE n == Len(line)
               m == Len(shorter)
    <3>1. n \in Nat \ {0} /\ m = IF 1 <= n - 1 THEN n - 1 - 1 + 1 ELSE 0
      BY <2>2, <1>2, Zenon
    <3> HIDE DEF n, m
    <3>2. m = n - 1
      BY <3>1
    <3>3. QED
      BY <3>2 DEF n, m
  <2> HIDE DEF shorter
  <2>4. ASSUME NEW i \in 1 .. Len(shorter) PROVE shorter[i] = line[i]
    <3>1. i \in 1 .. Len(line) - 1 - 1 + 1 /\ 1 + i - 1 = i
      BY <2>3, <1>2
    <3>2. QED
      BY <3>1, <2>2
  <2>5. QED
    BY <2>2, <2>3, <2>4
<1>4. 1 \in 0 .. Len(line)
  BY <1>2
<1> HIDE DEF shorter
<1>5. Shown(Wiped(screen, 1), shorter)
  BY <1>1, <1>3, <1>4, WipedShown
<1>6. line' = shorter /\ screen' = Wiped(screen, 1)
  BY DEF Backspace, shorter
<1>7. QED
  BY <1>5, <1>6 DEF Mirrored

\* One completion is shown in the place of the line; with more, the line again.
LEMMA TabMirrored == ASSUME IInv, Mirrored, Tab PROVE Mirrored'
<1>1. line \in Seq(Chars) /\ Shown(screen, line)
  BY LinesAreSequences DEF Tab, Reading, Mirrored, IInv, TypeOK
<1>2. CASE \E name \in Completions : SetLine(name)
  <2>1. PICK name \in Completions : SetLine(name)
    BY <1>2
  <2>2. name \in Seq(Chars)
    BY ShellAssumption, LinesAreSequences DEF Completions
  <2>3. Shown(screen', line')
    BY <1>1, <2>1, <2>2, SetMirrored
  <2>4. QED
    BY <2>3 DEF Mirrored
<1>3. CASE screen' = Echo(Prompt, line) /\ UNCHANGED line
  <2>1. /\ << >> \in Seq(Chars) /\ Len(line) = Len(<< >>) + Len(line)
        /\ \A i \in 1 .. Len(<< >>) : line[i] = << >>[i]
        /\ \A i \in 1 .. Len(line) : line[Len(<< >>) + i] = line[i]
    BY <1>1
  <2>2. Shown(Echo(Prompt, line), line)
    BY <1>1, <2>1, PromptShown, EchoShown
  <2>3. QED
    BY <1>3, <2>2 DEF Mirrored
<1>4. QED
  BY <1>2, <1>3 DEF Tab

LEMMA ArrowMirrored == ASSUME IInv, Mirrored, Up \/ Down PROVE Mirrored'
<1>1. /\ line \in Seq(Chars) /\ Shown(screen, line) /\ HistoryTypeOK
      /\ histIdx \in Nat
  BY LinesAreSequences, HistoryAssumption DEF Up, Down, Mirrored, IInv, TypeOK
<1>2. CASE \E idx \in Nat : SetLine(Get(idx))
  <2>1. PICK idx \in Nat : SetLine(Get(idx))
    BY <1>2
  <2>2. Get(idx) \in Seq(Chars)
    BY <1>1, RecalledLines, LinesAreSequences
  <2>3. Shown(screen', line')
    BY <1>1, <2>1, <2>2, SetMirrored
  <2>4. QED
    BY <2>3 DEF Mirrored
<1>3. CASE Clear
  <2>1. Shown(screen', line')
    BY <1>1, <1>3, ClearMirrored
  <2>2. QED
    BY <2>1 DEF Mirrored
<1>4. CASE Up
  <2>1. SetLine(Get(histIdx))
    BY <1>4 DEF Up
  <2>2. QED
    BY <2>1, <1>1, <1>2
<1>5. CASE Down
  <2>1. CASE histIdx > 1
    <3>1. histIdx - 2 \in Nat
      BY <1>1, <2>1
    <3>2. SetLine(Get(histIdx - 2))
      BY <1>5, <2>1 DEF Down
    <3>3. QED
      BY <3>1, <3>2, <1>2
  <2>2. CASE ~(histIdx > 1)
    BY <1>3, <1>5, <2>2 DEF Down
  <2>3. QED
    BY <2>1, <2>2
<1>6. QED
  BY <1>4, <1>5

\* The rest leaves line and screen, starts a new prompt, or ends the reading.
LEMMA OthersMirrored ==
  ASSUME IInv, Mirrored,
         CtrlU \/ Escape \/ Bracket \/ OtherSequence \/ CtrlC \/ Enter \/ Dispatch
           \/ Leave \/ UNCHANGED vars
  PROVE  Mirrored'
<1>1. CASE CtrlU
  <2>1. line \in Seq(Chars) /\ Shown(screen, line) /\ Clear
    BY <1>1, LinesAreSequences DEF CtrlU, Reading, Mirrored, IInv, TypeOK
  <2>2. Shown(screen', line')
    BY <2>1, ClearMirrored
  <2>3. QED
    BY <2>2 DEF Mirrored
<1>2. CASE Escape \/ Bracket \/ OtherSequence \/ UNCHANGED vars
  BY <1>2 DEF Escape, Bracket, OtherSequence, vars, editorVars, Reading, Mirrored
<1>3. CASE CtrlC \/ Enter \/ Leave
  BY <1>3 DEF CtrlC, Enter, Leave, Mirrored
<1>4. CASE Dispatch
  BY <1>4, PromptShown DEF Dispatch, NextRead, Mirrored
<1>5. QED
  BY <1>1, <1>2, <1>3, <1>4

\* Whatever is typed, recalled, completed or erased, the terminal shows the line
\* that will run.
THEOREM ScreenFaithful == Spec => []ScreenShowsLine
<1>1. Init => Mirrored
  BY PromptShown DEF Init, ReadInit, Mirrored
<1>2. IInv /\ Mirrored /\ [Next]_vars => Mirrored'
  BY InsertMirrored, BackspaceMirrored, TabMirrored, ArrowMirrored, OthersMirrored
     DEF Next
<1>3. Mirrored => ScreenShowsLine
  BY DEF Mirrored, Shown, ScreenShowsLine
<1>4. QED
  BY Invariance, <1>1, <1>2, <1>3, PTL DEF Spec
=============================================================================
