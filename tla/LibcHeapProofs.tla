--------------------------- MODULE LibcHeapProofs ---------------------------
(***************************************************************************)
(* Proofs about the arena allocator and the libc shim on top of it, for    *)
(* every arena size, word size and set of requests.                        *)
(*                                                                         *)
(* The allocator: IInv is inductive; the type invariant, the tiling and    *)
(* the other invariants follow, first fit is a consequence of what the     *)
(* cursor has passed, and every step maps to a step of Heap or a stutter.  *)
(*                                                                         *)
(* The shim, on the target build, where a failed allocation stops the      *)
(* machine: it calls the allocator only as the allocator allows, and every *)
(* pointer its callers hold stays backed by a block of its own.  All this  *)
(* until a calloc or a realloc whose size wrapped runs over the headers;   *)
(* no other call ever does.                                                *)
(***************************************************************************)
EXTENDS LibcHeap, TLAPS


\* What % yields: a natural below the divisor, and the number itself when it
\* is already below it.
LEMMA ModRange == \A m \in Nat, w \in Nat \ {0} : m % w \in 0 .. w - 1
OBVIOUS

\* A number below the modulus is its own remainder.
LEMMA ModSmall == \A m \in Nat, w \in Nat : m < w => m % w = m
OBVIOUS

\* align_up returns a multiple of 8 below 2^64, and does not round down unless
\* the sum wraps.
LEMMA AlignUpFacts ==
  ASSUME NEW n \in 0 .. WordMod - 1
  PROVE  /\ AlignUp(n) \in Nat
         /\ AlignUp(n) % 8 = 0
         /\ n + Align - 1 < WordMod => n <= AlignUp(n)
<1> DEFINE m == (n + Align - 1) % WordMod
<1>1. n + Align - 1 \in Nat /\ WordMod \in Nat \ {0}
  BY ArenaAssumption DEF Align, Hdr
<1>2. m \in Nat
  BY <1>1, ModRange
<1>3. n + Align - 1 < WordMod => m = n + 15
  BY <1>1, ModSmall DEF Align
<1>4. AlignUp(n) = m - (m % 16)
  BY DEF AlignUp, Align
<1> HIDE DEF m
<1>5. QED
  BY <1>2, <1>3, <1>4 DEF Align

\* The size the running call needs: 16 rounds to itself, so size 0 needs no case
\* of its own.
LEMMA NeededFacts ==
  ASSUME TypeOK
  PROVE  /\ Needed \in Nat
         /\ Needed % 8 = 0
         /\ request + Align - 1 < WordMod => request <= Needed
<1>1. (IF request = 0 THEN MinAlloc ELSE request) \in 0 .. WordMod - 1
  BY ArenaAssumption DEF TypeOK, MinAlloc, Hdr
<1>2. QED
  BY <1>1, AlignUpFacts, ArenaAssumption
     DEF Needed, TypeOK, MinAlloc, Align, Hdr

\* Before the first call the arena holds no block, and IInv says nothing.
LEMMA InitIInv == Init => IInv
BY ArenaAssumption
   DEF Init, IInv, TypeOK, Tiled, AllocatedAreLive, Coalesced, GrantCoversRequest,
       HeadersAligned, SizesAligned, SearchedDoNotFit, MergedBehind, Blocks,
       CanMerge, Fits, Null

-----------------------------------------------------------------------------
\* Entering arena_alloc: either the list is untouched, or its one block is the
\* whole arena.
LEMMA AllocIInv ==
  ASSUME IInv, NEW n \in Requests, Alloc(n)
  PROVE  IInv'
<1> USE ArenaAssumption DEF Hdr, Null, Blocks
<1>1. CASE Blocks = {}
  <2>1. /\ size' = [b \in {0} |-> ArenaSize - Hdr]
        /\ next' = [b \in {0} |-> Null]
        /\ free' = [b \in {0} |-> TRUE]
        /\ pc' = "search" /\ curr' = 0 /\ request' = n /\ ret' = Null
        /\ live' = live
    BY <1>1 DEF Alloc, ArenaInit
  <2>2. live = [p \in {} |-> 0] /\ DOMAIN live = {}
    BY <1>1 DEF IInv, AllocatedAreLive, TypeOK
  <2>3. TypeOK'
    BY <2>1, <2>2 DEF IInv, TypeOK
  <2>4. Tiled'
    BY <2>1 DEF Tiled, End
  <2>5. AllocatedAreLive' /\ GrantCoversRequest'
    BY <2>1, <2>2 DEF AllocatedAreLive, GrantCoversRequest
  <2>6. Coalesced' /\ SearchedDoNotFit' /\ MergedBehind'
    BY <2>1 DEF Coalesced, CanMerge, SearchedDoNotFit, MergedBehind
  <2>7. HeadersAligned' /\ SizesAligned'
    BY <2>1 DEF HeadersAligned, SizesAligned
  <2>8. QED
    BY <2>3, <2>4, <2>5, <2>6, <2>7 DEF IInv
<1>2. CASE Blocks # {}
  <2>1. /\ size' = size /\ next' = next /\ free' = free /\ live' = live
        /\ pc = "idle" /\ pc' = "search" /\ curr' = 0 /\ request' = n /\ ret' = Null
    BY <1>2 DEF Alloc, ArenaInit
  <2>2. 0 \in Blocks /\ \A b \in Blocks : b \in Nat
    BY <1>2 DEF IInv, Tiled, TypeOK
  <2>3. TypeOK'
    BY <2>1, <2>2 DEF IInv, TypeOK
  <2>4. Tiled' /\ AllocatedAreLive' /\ Coalesced' /\ GrantCoversRequest'
    BY <2>1 DEF IInv, Tiled, AllocatedAreLive, Coalesced, GrantCoversRequest, CanMerge, End
  <2>5. HeadersAligned' /\ SizesAligned'
    BY <2>1 DEF IInv, HeadersAligned, SizesAligned
  <2>6. SearchedDoNotFit' /\ MergedBehind'
    BY <2>1, <2>2 DEF SearchedDoNotFit, MergedBehind
  <2>7. QED
    BY <2>3, <2>4, <2>5, <2>6 DEF IInv
<1>3. QED
  BY <1>1, <1>2

\* The numbers a header stands for.
LEMMA BlockFacts ==
  ASSUME TypeOK, NEW b \in Blocks
  PROVE  b \in Nat /\ size[b] \in Nat /\ End(b) \in Nat /\ End(b) = b + 24 + size[b]
<1>1. b \in 0 .. ArenaSize /\ size[b] \in 0 .. ArenaSize
  BY DEF TypeOK
<1>2. QED
  BY <1>1, ArenaAssumption DEF End, Hdr

\* What follows `curr' on the list starts where `curr' ends, so a block behind
\* the advanced cursor is `curr' itself or was behind the cursor already.
LEMMA BehindNext ==
  ASSUME TypeOK, Tiled, curr \in Blocks, NEW b \in Blocks,
         next[curr] = Null \/ b < next[curr]
  PROVE  b = curr \/ b < curr
<1>1. \A x \in Blocks : End(x) = x + 24 + size[x] /\ x \in Nat /\ size[x] \in Nat
  BY BlockFacts
<1>2. curr < b => End(curr) <= b /\ next[curr] = End(curr)
  BY <1>1, ArenaAssumption DEF Tiled
<1>3. QED
  BY <1>1, <1>2 DEF Null

\* Moving the search to the next block keeps the invariant: the block passed is
\* known not to fit.
LEMMA SkipIInv == ASSUME IInv, Skip PROVE IInv'
<1> USE DEF Blocks
<1>1. /\ size' = size /\ next' = next /\ free' = free /\ live' = live
      /\ pc = "search" /\ pc' = pc /\ curr' = next[curr] /\ request' = request
      /\ ret' = ret /\ curr \in Blocks /\ ~Fits(curr)
  BY DEF Skip, IInv, TypeOK
<1>2. TypeOK'
  BY <1>1 DEF IInv, TypeOK
<1>3. Tiled' /\ AllocatedAreLive' /\ Coalesced' /\ GrantCoversRequest'
  BY <1>1 DEF IInv, Tiled, AllocatedAreLive, Coalesced, GrantCoversRequest, CanMerge, End
<1>4. HeadersAligned' /\ SizesAligned' /\ MergedBehind'
  BY <1>1 DEF IInv, HeadersAligned, SizesAligned, MergedBehind
<1>5. \A b \in Blocks : Fits(b)' <=> Fits(b)
  BY <1>1 DEF Fits, Needed
<1>6. SearchedDoNotFit'
  BY <1>1, <1>5, BehindNext DEF IInv, SearchedDoNotFit
<1>7. QED
  BY <1>2, <1>3, <1>4, <1>6 DEF IInv

\* Moving the coalescing pass to the next block keeps the invariant: the block
\* passed has no free neighbour left.
LEMMA AdvanceIInv == ASSUME IInv, Advance PROVE IInv'
<1> USE DEF Blocks
<1>1. /\ size' = size /\ next' = next /\ free' = free /\ live' = live
      /\ pc = "coalesce" /\ pc' = pc /\ curr' = next[curr] /\ request' = request
      /\ ret' = ret /\ curr \in Blocks /\ ~CanMerge(curr)
  BY DEF Advance, IInv, TypeOK
<1>2. TypeOK'
  BY <1>1 DEF IInv, TypeOK
<1>3. Tiled' /\ AllocatedAreLive' /\ Coalesced' /\ GrantCoversRequest'
  BY <1>1 DEF IInv, Tiled, AllocatedAreLive, Coalesced, GrantCoversRequest, CanMerge, End
<1>4. HeadersAligned' /\ SizesAligned' /\ SearchedDoNotFit'
  BY <1>1 DEF IInv, HeadersAligned, SizesAligned, SearchedDoNotFit
<1>5. \A b \in Blocks : CanMerge(b)' <=> CanMerge(b)
  BY <1>1 DEF CanMerge
<1>6. MergedBehind'
  BY <1>1, <1>5, BehindNext DEF IInv, MergedBehind
<1>7. QED
  BY <1>2, <1>3, <1>4, <1>6 DEF IInv

\* The end of an unsuccessful search keeps the invariant.
LEMMA OutOfMemoryIInv == ASSUME IInv, OutOfMemory PROVE IInv'
BY DEF IInv, OutOfMemory, TypeOK, Tiled, AllocatedAreLive, Coalesced, CanMerge,
       GrantCoversRequest, HeadersAligned, SizesAligned, SearchedDoNotFit,
       MergedBehind, Blocks, End

\* Off the end of the list every block is behind the cursor, so nothing can
\* merge any more.
LEMMA FreeDoneIInv == ASSUME IInv, FreeDone PROVE IInv'
BY DEF IInv, FreeDone, TypeOK, Tiled, AllocatedAreLive, Coalesced, CanMerge,
       GrantCoversRequest, HeadersAligned, SizesAligned, SearchedDoNotFit,
       MergedBehind, Blocks, End

-----------------------------------------------------------------------------
\* Splitting writes a header inside the free block c and nowhere else: the
\* tiling survives, and the two pieces end where the block did.
LEMMA SplitTiles ==
  ASSUME IInv, NEW c \in Blocks, c = curr, NEW N \in Nat, N = Needed, N % 8 = 0,
         size[c] > N + 40, Split
  PROVE  /\ c + 24 + N \in Nat \ Blocks
         /\ Blocks' = Blocks \cup {c + 24 + N}
         /\ size' \in [Blocks' -> 0 .. ArenaSize]
         /\ next' \in [Blocks' -> Blocks' \cup {Null}]
         /\ free' \in [Blocks' -> BOOLEAN]
         /\ Blocks' \subseteq 0 .. ArenaSize
         /\ Tiled' /\ HeadersAligned' /\ SizesAligned'
<1> DEFINE s == c + 24 + N
<1> USE DEF Null
<1>1. /\ size' = [b \in Blocks \cup {s} |->
                    IF b = c THEN N
                    ELSE IF b = s THEN size[c] - N - 24 ELSE size[b]]
      /\ next' = [b \in Blocks \cup {s} |->
                    IF b = c THEN s
                    ELSE IF b = s THEN next[c] ELSE next[b]]
      /\ free' = [b \in Blocks \cup {s} |->
                    IF b = c THEN FALSE
                    ELSE IF b = s THEN TRUE ELSE free[b]]
  <2>1. s # c
    BY BlockFacts DEF IInv
  <2>2. QED
    BY <2>1 DEF Split, SplitAt, Hdr
<1>2. \A b \in Blocks : b \in Nat /\ size[b] \in Nat /\ End(b) \in Nat
                           /\ End(b) = b + 24 + size[b]
  BY BlockFacts DEF IInv
<1>3. /\ s \in Nat /\ s < End(c) /\ c < s
      /\ s \notin Blocks
  BY <1>2 DEF IInv, Tiled
<1> HIDE DEF s
<1>4. Blocks' = Blocks \cup {s}
  BY <1>1 DEF Blocks
<1>5. /\ size' \in [Blocks' -> 0 .. ArenaSize]
      /\ next' \in [Blocks' -> Blocks' \cup {Null}]
      /\ free' \in [Blocks' -> BOOLEAN]
      /\ Blocks' \subseteq 0 .. ArenaSize
  <2>1. c + 24 + size[c] <= ArenaSize /\ ArenaSize \in Nat
    BY <1>2, ArenaAssumption DEF IInv, Tiled
  <2>2. N \in 0 .. ArenaSize /\ size[c] - N - 24 \in 0 .. ArenaSize
    BY <1>2, <2>1
  <2>3. s \in 0 .. ArenaSize
    BY <1>2, <1>3, <2>1
  <2>4. QED
    BY <1>1, <1>3, <1>4, <2>2, <2>3 DEF IInv, TypeOK
<1>6. /\ \A b \in Blocks \ {c} : End(b)' = End(b)
      /\ \A b \in {c} : End(b)' = s
      /\ \A b \in {s} : End(b)' = End(c)
  <2>1. s = c + 24 + N
    BY DEF s
  <2>2. QED
    BY <1>1, <1>2, <1>3, <2>1 DEF End, Hdr
<1>7. Tiled'
  <2>1. 0 \in Blocks' /\ \A b \in Blocks' : End(b)' <= ArenaSize
    BY <1>2, <1>3, <1>4, <1>6, ArenaAssumption DEF IInv, Tiled
  <2>2. \A b \in Blocks' : next'[b] = IF End(b)' = ArenaSize THEN Null ELSE End(b)'
    BY <1>1, <1>2, <1>3, <1>4, <1>6, ArenaAssumption DEF IInv, Tiled
  <2>3. \A a, b \in Blocks' : a < b => End(a)' <= b
    <3> SUFFICES ASSUME NEW a \in Blocks', NEW b \in Blocks', a < b
                 PROVE  End(a)' <= b
      OBVIOUS
    <3>1. \A x, y \in Blocks : x < y => End(x) <= y
      BY DEF IInv, Tiled
    <3>2. CASE a = s
      BY <1>2, <1>3, <1>4, <1>6, <3>1, <3>2
    <3>3. CASE b = s
      BY <1>2, <1>3, <1>4, <1>6, <3>1, <3>3
    <3>4. CASE a # s /\ b # s
      BY <1>2, <1>3, <1>4, <1>6, <3>1, <3>4
    <3>5. QED
      BY <3>2, <3>3, <3>4
  <2>4. QED
    BY <2>1, <2>2, <2>3 DEF Tiled
<1>8. HeadersAligned' /\ SizesAligned'
  <2>1. s % 8 = 0 /\ (size[c] - N - 24) % 8 = 0
    BY <1>2 DEF s, IInv, HeadersAligned, SizesAligned
  <2>2. QED
    BY <1>1, <1>4, <2>1 DEF IInv, HeadersAligned, SizesAligned
<1>9. QED
  BY <1>3, <1>4, <1>5, <1>7, <1>8 DEF s

\* Either way of granting block c leaves a tiling in which c is allocated and
\* long enough, the other blocks are as they were, and a new block is free.
LEMMA TakeTiles ==
  ASSUME IInv, Take, NEW c \in Blocks, c = curr, NEW N \in Nat, N = Needed
  PROVE  /\ Blocks \subseteq Blocks' /\ Blocks' \subseteq 0 .. ArenaSize
         /\ size' \in [Blocks' -> 0 .. ArenaSize]
         /\ next' \in [Blocks' -> Blocks' \cup {Null}]
         /\ free' \in [Blocks' -> BOOLEAN]
         /\ Tiled' /\ HeadersAligned' /\ SizesAligned'
         /\ ~free'[c] /\ N <= size'[c]
         /\ \A b \in Blocks \ {c} : /\ free'[b] = free[b] /\ size'[b] = size[b]
                                    /\ next'[b] = next[b]
         /\ \A b \in Blocks' \ Blocks : free'[b] /\ next'[b] = next[c]
<1>1. /\ free[c] /\ N <= size[c] /\ size[c] \in Nat /\ N % 8 = 0
  BY BlockFacts, NeededFacts DEF Take, Fits, IInv
<1>2. CASE size[c] - N > Hdr + MinAlloc
  <2>1. Split /\ size[c] > N + 40
    BY <1>1, <1>2 DEF Take, Splits, Hdr, MinAlloc
  <2>2. c + 24 + N # c
    BY BlockFacts DEF IInv
  <2>3. /\ ~free'[c] /\ N <= size'[c]
        /\ \A b \in Blocks \ {c} : /\ free'[b] = free[b] /\ size'[b] = size[b]
                                   /\ next'[b] = next[b]
        /\ free'[c + 24 + N] /\ next'[c + 24 + N] = next[c]
    <3> DEFINE s == c + 24 + N
    <3>1. s \notin Blocks
      BY <1>1, <2>1, SplitTiles
    <3>2. /\ size' = [b \in Blocks \cup {s} |->
                        IF b = c THEN N
                        ELSE IF b = s THEN size[c] - N - 24 ELSE size[b]]
          /\ next' = [b \in Blocks \cup {s} |->
                        IF b = c THEN s ELSE IF b = s THEN next[c] ELSE next[b]]
          /\ free' = [b \in Blocks \cup {s} |->
                        IF b = c THEN FALSE ELSE IF b = s THEN TRUE ELSE free[b]]
      BY <2>1, <2>2 DEF Split, SplitAt, Hdr
    <3>3. s # c
      BY <2>2
    <3> HIDE DEF s
    <3>4. /\ ~free'[c] /\ N <= size'[c] /\ free'[s] /\ next'[s] = next[c]
          /\ \A b \in Blocks \ {c} : /\ free'[b] = free[b] /\ size'[b] = size[b]
                                     /\ next'[b] = next[b]
      <4>1. ~free'[c]
        BY <3>2
      <4>2. free'[s]
        BY <3>2, <3>3
      <4>3. N <= size'[c] /\ next'[s] = next[c]
        BY <3>2, <3>3
      <4>4. \A b \in Blocks \ {c} : size'[b] = size[b] /\ next'[b] = next[b]
        BY <3>1, <3>2
      <4>5. \A b \in Blocks \ {c} : free'[b] = free[b]
        BY <3>1, <3>2
      <4>6. QED
        BY <4>1, <4>2, <4>3, <4>4, <4>5
    <3>5. QED
      BY <3>4 DEF s
  <2>4. QED
    BY <1>1, <2>1, <2>3, SplitTiles
<1>3. CASE ~(size[c] - N > Hdr + MinAlloc)
  <2>1. size' = size /\ next' = next /\ free' = [free EXCEPT ![c] = FALSE]
    BY <1>3 DEF Take, Splits
  <2>2. Blocks' = Blocks
    BY <2>1 DEF Blocks
  <2>3. Tiled' /\ HeadersAligned' /\ SizesAligned'
    BY <2>1, <2>2 DEF IInv, Tiled, HeadersAligned, SizesAligned, End
  <2>4. QED
    BY <1>1, <2>1, <2>2, <2>3 DEF IInv, TypeOK
<1>4. QED
  BY <1>2, <1>3

\* Granting a block, split or whole, keeps the invariant.
LEMMA TakeIInv == ASSUME IInv, Take PROVE IInv'
<1> SUFFICES ASSUME NEW c \in Blocks, c = curr, NEW N \in Nat, N = Needed
             PROVE  IInv'
  BY NeededFacts DEF Take, IInv, TypeOK
<1>1. /\ Blocks \subseteq Blocks' /\ Blocks' \subseteq 0 .. ArenaSize
      /\ size' \in [Blocks' -> 0 .. ArenaSize]
      /\ next' \in [Blocks' -> Blocks' \cup {Null}]
      /\ free' \in [Blocks' -> BOOLEAN]
      /\ Tiled' /\ HeadersAligned' /\ SizesAligned'
      /\ ~free'[c] /\ N <= size'[c]
      /\ \A b \in Blocks \ {c} : /\ free'[b] = free[b] /\ size'[b] = size[b]
                                 /\ next'[b] = next[b]
      /\ \A b \in Blocks' \ Blocks : free'[b] /\ next'[b] = next[c]
  BY TakeTiles
<1>2. /\ pc = "search" /\ pc' = "idle" /\ curr' = Null /\ request' = 0
      /\ ret' = c + 24 /\ c \in Nat /\ free[c]
      /\ live' = [p \in DOMAIN live \cup {c + 24} |->
                    IF p = c + 24 THEN request ELSE live[p]]
  BY BlockFacts DEF Take, Hdr, IInv, Fits
<1>3. TypeOK'
  BY <1>1, <1>2 DEF IInv, TypeOK
<1>4. AllocatedAreLive'
  <2>1. {b \in Blocks' : ~free'[b]} = {b \in Blocks : ~free[b]} \cup {c}
    BY <1>1, <1>2
  <2>2. QED
    BY <1>2, <2>1 DEF IInv, AllocatedAreLive, Hdr
<1>5. Coalesced'
  <2> SUFFICES ASSUME NEW b \in Blocks', free'[b], next'[b] # Null, free'[next'[b]]
               PROVE  FALSE
    BY DEF Coalesced, CanMerge
  <2>1. \A x \in Blocks : free[x] /\ next[x] # Null => ~free[next[x]] /\ next[x] \in Blocks
    BY <1>2 DEF IInv, Coalesced, CanMerge, TypeOK
  <2>2. next[c] # c
    BY BlockFacts, ArenaAssumption DEF IInv, Tiled, Null
  <2>3. QED
    BY <1>1, <1>2, <2>1, <2>2
<1>6. GrantCoversRequest'
  <2> SUFFICES ASSUME NEW p \in DOMAIN live', live'[p] + Align - 1 < WordMod
               PROVE  live'[p] <= size'[p - 24]
    BY DEF GrantCoversRequest, Hdr
  <2>1. CASE p = c + 24
    <3>1. request <= N
      BY <1>2, <2>1, NeededFacts DEF IInv
    <3>2. size'[c] \in Nat /\ request \in Nat
      BY <1>1, ArenaAssumption DEF IInv, TypeOK
    <3>3. QED
      BY <1>1, <1>2, <2>1, <3>1, <3>2
  <2>2. CASE p # c + 24
    <3>1. p \in DOMAIN live /\ live'[p] = live[p]
      BY <1>2, <2>2
    <3>2. p - 24 \in Blocks \ {c}
      BY <1>2, <2>2, <3>1, BlockFacts DEF IInv, AllocatedAreLive, Hdr
    <3>3. QED
      BY <1>1, <3>1, <3>2 DEF IInv, GrantCoversRequest, Hdr
  <2>3. QED
    BY <2>1, <2>2
<1>7. SearchedDoNotFit' /\ MergedBehind'
  BY <1>2 DEF SearchedDoNotFit, MergedBehind
<1>8. QED
  BY <1>1, <1>3, <1>4, <1>5, <1>6, <1>7 DEF IInv

-----------------------------------------------------------------------------
\* arena_free marks one allocated block and starts at the head of the list.
LEMMA FreeIInv == ASSUME IInv, NEW p \in DOMAIN live, Free(p) PROVE IInv'
<1> DEFINE f == p - 24
<1>1. /\ size' = size /\ next' = next /\ free' = [free EXCEPT ![f] = TRUE]
      /\ live' = [q \in DOMAIN live \ {p} |-> live[q]] /\ p \in Nat
      /\ pc = "idle" /\ pc' = "coalesce" /\ curr' = 0 /\ ret' = Null /\ request' = request
      /\ Blocks' = Blocks
  BY DEF Free, PassStart, Hdr, Blocks, IInv, TypeOK
<1>2. f \in Blocks /\ ~free[f]
  BY <1>1, BlockFacts DEF IInv, AllocatedAreLive, Hdr
<1>3. 0 \in Blocks
  BY <1>2 DEF IInv, Tiled
<1>4. TypeOK'
  BY <1>1, <1>2, <1>3 DEF IInv, TypeOK, Null
<1>5. Tiled' /\ HeadersAligned' /\ SizesAligned'
  BY <1>1 DEF IInv, Tiled, HeadersAligned, SizesAligned, End
<1>6. AllocatedAreLive'
  <2>1. {b \in Blocks' : ~free'[b]} = {b \in Blocks : ~free[b]} \ {f}
    BY <1>1, <1>2 DEF IInv, TypeOK
  <2>2. \A b \in Blocks : b + 24 = p <=> b = f
    BY <1>1, BlockFacts DEF IInv
  <2>3. QED
    BY <1>1, <2>1, <2>2 DEF IInv, AllocatedAreLive, Hdr
<1>7. GrantCoversRequest'
  BY <1>1 DEF IInv, GrantCoversRequest
<1>8. Coalesced' /\ SearchedDoNotFit'
  BY <1>1 DEF Coalesced, SearchedDoNotFit
<1>9. MergedBehind'
  BY <1>1, BlockFacts DEF IInv, MergedBehind, Null
<1>10. QED
  BY <1>4, <1>5, <1>6, <1>7, <1>8, <1>9 DEF IInv

\* Merging block c with its neighbour n leaves one free block that ends where n
\* did; no other header pointed to n.
LEMMA MergeIInv == ASSUME IInv, Merge PROVE IInv'
<1> USE DEF Null
<1> SUFFICES ASSUME NEW c \in Blocks, c = curr, NEW n \in Blocks, n = next[c]
             PROVE  IInv'
  BY DEF Merge, CanMerge, IInv, TypeOK
<1> DEFINE rest == Blocks \ {n}
<1>1. /\ size' = [b \in rest |-> IF b = c THEN size[b] + 24 + size[n] ELSE size[b]]
      /\ next' = [b \in rest |-> IF b = c THEN next[n] ELSE next[b]]
      /\ free' = [b \in rest |-> free[b]]
      /\ pc = "coalesce" /\ pc' = pc /\ curr' = curr /\ request' = request
      /\ ret' = ret /\ live' = live /\ free[c] /\ free[n]
  BY DEF Merge, CanMerge, Hdr
<1>2. \A b \in Blocks : /\ b \in Nat /\ size[b] \in Nat /\ End(b) \in Nat
                        /\ End(b) = b + 24 + size[b]
  BY BlockFacts DEF IInv
<1>3. /\ n = End(c) /\ c < n
      /\ \A b \in rest : b # c => next[b] # n
      /\ next[n] # n
  BY <1>2 DEF IInv, Tiled
<1> HIDE DEF rest
<1>4. Blocks' = rest /\ c \in rest /\ rest \subseteq Blocks
  BY <1>1, <1>3 DEF Blocks, rest
<1>5. /\ \A b \in rest \ {c} : End(b)' = End(b)
      /\ \A b \in {c} : End(b)' = End(n)
  BY <1>1, <1>2, <1>3, <1>4 DEF End, Hdr
<1>6. Tiled'
  <2>1. 0 \in rest
    BY <1>2, <1>3 DEF IInv, Tiled, rest
  <2>2. \A b \in rest : End(b)' <= ArenaSize
    BY <1>4, <1>5 DEF IInv, Tiled
  <2>3. \A b \in rest : next'[b] = IF End(b)' = ArenaSize THEN Null ELSE End(b)'
    BY <1>1, <1>4, <1>5 DEF IInv, Tiled
  <2>4. \A a, b \in rest : a < b => End(a)' <= b
    <3>1. \A x, y \in Blocks : x < y => End(x) <= y
      BY DEF IInv, Tiled
    <3>2. QED
      BY <1>2, <1>3, <1>4, <1>5, <3>1 DEF rest
  <2>5. QED
    BY <1>4, <2>1, <2>2, <2>3, <2>4 DEF Tiled
<1>7. TypeOK'
  <2>1. size[c] + 24 + size[n] \in 0 .. ArenaSize
    <3>1. End(n) <= ArenaSize
      BY DEF IInv, Tiled
    <3>2. QED
      BY <1>2, <1>3, <3>1, ArenaAssumption
  <2>2. next' \in [rest -> rest \cup {Null}]
    BY <1>1, <1>3 DEF IInv, TypeOK, rest
  <2>3. QED
    BY <1>1, <1>4, <2>1, <2>2 DEF IInv, TypeOK
<1>8. AllocatedAreLive'
  <2>1. {b \in Blocks' : ~free'[b]} = {b \in Blocks : ~free[b]}
    BY <1>1, <1>4 DEF rest
  <2>2. QED
    BY <1>1, <2>1 DEF IInv, AllocatedAreLive
<1>9. GrantCoversRequest'
  <2>1. \A p \in DOMAIN live : p - 24 \in rest \ {c}
    BY <1>1, <1>2 DEF IInv, AllocatedAreLive, Hdr, rest
  <2>2. QED
    BY <1>1, <2>1 DEF IInv, GrantCoversRequest, Hdr
<1>10. HeadersAligned' /\ SizesAligned'
  <2>1. (size[c] + 24 + size[n]) % 8 = 0
    BY <1>2 DEF IInv, SizesAligned
  <2>2. QED
    BY <1>1, <1>4, <2>1 DEF IInv, HeadersAligned, SizesAligned
<1>11. MergedBehind'
  <2> SUFFICES ASSUME NEW b \in rest, curr' = Null \/ b < curr', CanMerge(b)'
               PROVE  FALSE
    BY <1>4 DEF MergedBehind
  <2>1. b < c
    BY <1>1, <1>2
  <2>2. b # c /\ next'[b] = next[b] /\ free'[b] = free[b]
    BY <1>1, <1>2, <2>1
  <2>3. next[b] # Null /\ free[b]
    BY <2>2 DEF CanMerge
  <2>4. next[b] \in rest
    BY <1>3, <1>4, <2>2, <2>3 DEF IInv, TypeOK, rest
  <2>5. free[next[b]]
    BY <1>1, <2>2, <2>4 DEF CanMerge
  <2>6. QED
    BY <1>1, <1>4, <2>1, <2>3, <2>5 DEF IInv, MergedBehind, CanMerge
<1>12. Coalesced' /\ SearchedDoNotFit'
  BY <1>1 DEF Coalesced, SearchedDoNotFit
<1>13. QED
  BY <1>6, <1>7, <1>8, <1>9, <1>10, <1>11, <1>12 DEF IInv

-----------------------------------------------------------------------------
\* A step that changes no variable keeps the invariant.
LEMMA StutterIInv == ASSUME IInv, UNCHANGED vars PROVE IInv'
BY DEF vars, IInv, TypeOK, Tiled, AllocatedAreLive, Coalesced, CanMerge,
       GrantCoversRequest, HeadersAligned, SizesAligned, SearchedDoNotFit,
       MergedBehind, Blocks, End, Fits, Needed

\* Every step of arena_alloc and arena_free keeps the invariant.
LEMMA NextIInv == IInv /\ [Next]_vars => IInv'
<1> SUFFICES ASSUME IInv, [Next]_vars PROVE IInv'
  OBVIOUS
<1>1. ASSUME NEW n \in Requests, Alloc(n) PROVE IInv'
  BY <1>1, AllocIInv
<1>2. ASSUME NEW p \in DOMAIN live, Free(p) PROVE IInv'
  BY <1>2, FreeIInv
<1>3. CASE Step
  BY <1>3, SkipIInv, TakeIInv, OutOfMemoryIInv, MergeIInv, AdvanceIInv, FreeDoneIInv
     DEF Step
<1>4. CASE UNCHANGED vars
  BY <1>4, StutterIInv
<1>5. QED
  BY <1>1, <1>2, <1>3, <1>4 DEF Next

\* The inductive invariant holds in every state of every run.
THEOREM Invariance == Spec => []IInv
BY InitIInv, NextIInv, PTL DEF Spec

\* Every variable keeps its type, and the cursor stays on the list.
THEOREM TypeCorrect == Spec => []TypeOK
<1>1. IInv => TypeOK
  BY DEF IInv
<1>2. QED
  BY <1>1, Invariance, PTL

\* The blocks tile the arena after any history of allocations and frees.
THEOREM TilingHolds == Spec => []Tiled
<1>1. IInv => Tiled
  BY DEF IInv
<1>2. QED
  BY <1>1, Invariance, PTL

\* A block is marked allocated exactly while a caller holds its payload.
THEOREM NothingLeaks == Spec => []AllocatedAreLive
<1>1. IInv => AllocatedAreLive
  BY DEF IInv
<1>2. QED
  BY <1>1, Invariance, PTL

\* When arena_free has returned, no two neighbouring blocks are free.
THEOREM FreeCoalesces == Spec => []Coalesced
<1>1. IInv => Coalesced
  BY DEF IInv
<1>2. QED
  BY <1>1, Invariance, PTL

\* A payload is as long as was asked, short of the wrap of align_up; and
\* headers are word aligned whatever is asked.
THEOREM GrantsAreLongEnough == Spec => [](GrantCoversRequest /\ HeadersAligned)
<1>1. IInv => GrantCoversRequest /\ HeadersAligned
  BY DEF IInv
<1>2. QED
  BY <1>1, Invariance, PTL

\* The search ends on the lowest block that fits, or with the knowledge that
\* none does.
THEOREM SearchIsFirstFit == Spec => FirstFit
<1>1. ASSUME IInv, [Next]_vars PROVE [FirstFitStep]_vars
  <2> SUFFICES ASSUME pc = "search", pc' # "search" PROVE FirstFitStep
    BY DEF FirstFitStep
  <2>1. Take \/ OutOfMemory
    BY <1>1 DEF Next, Step, Alloc, Skip, Free, Merge, Advance, FreeDone, vars
  <2>2. CASE Take
    <3>1. curr \in Blocks /\ curr \in Nat /\ Fits(curr) /\ ret' = curr + 24
      BY <1>1, <2>2, BlockFacts DEF Take, IInv, TypeOK, Hdr
    <3>2. \A b \in Blocks : b < curr => ~Fits(b)
      BY <1>1 DEF IInv, SearchedDoNotFit
    <3>3. ret' - Hdr = curr
      BY <3>1 DEF Hdr
    <3>4. QED
      BY <3>1, <3>2, <3>3 DEF FirstFitStep
  <2>3. CASE OutOfMemory
    BY <1>1, <2>3 DEF OutOfMemory, FirstFitStep, IInv, SearchedDoNotFit
  <2>4. QED
    BY <2>1, <2>2, <2>3
<1>2. QED
  BY <1>1, Invariance, PTL DEF Spec, FirstFit

-----------------------------------------------------------------------------
\* Granting a block is the abstract Grant of its payload.
LEMMA TakeGrants == ASSUME IInv, Take PROVE H!Grant
<1> SUFFICES ASSUME NEW c \in Blocks, c = curr, NEW N \in Nat, N = Needed
             PROVE  H!Grant
  BY NeededFacts DEF Take, IInv, TypeOK
<1> DEFINE p == c + 24
<1>1. /\ Blocks \subseteq Blocks'
      /\ size' \in [Blocks' -> 0 .. ArenaSize] /\ Tiled' /\ TypeOK'
      /\ \A b \in Blocks \ {c} : size'[b] = size[b]
  BY TakeTiles, TakeIInv DEF IInv
<1>2. /\ c \in Nat /\ free[c] /\ DOMAIN live' = DOMAIN live \cup {p}
  BY BlockFacts DEF Take, Hdr, IInv, Fits
<1>3. \A q \in DOMAIN live : q \in Nat /\ q - 24 \in Blocks \ {c}
  BY <1>2, BlockFacts DEF IInv, AllocatedAreLive, Hdr
<1>4. /\ DOMAIN grants = DOMAIN live /\ DOMAIN grants' = DOMAIN live \cup {p}
      /\ grants'[p] = size'[c]
      /\ \A q \in DOMAIN live : grants'[q] = size'[q - 24] /\ grants[q] = size[q - 24]
      /\ \A q \in DOMAIN live : grants'[q] = grants[q]
      /\ p \notin DOMAIN live
  BY <1>1, <1>2, <1>3 DEF grants, Hdr
<1>5. size'[c] \in Nat /\ p \in Nat /\ p + size'[c] <= ArenaSize
  <2>1. c \in Blocks' /\ size'[c] \in Nat
    BY <1>1, ArenaAssumption
  <2>2. c + 24 + size'[c] <= ArenaSize
    BY <1>1, <2>1 DEF Tiled, End, Hdr
  <2>3. QED
    BY <1>2, <2>1, <2>2
<1>6. \A q \in DOMAIN live : p + size'[c] <= q \/ q + size[q - 24] <= p
  <2> SUFFICES ASSUME NEW q \in DOMAIN live
               PROVE  p + size'[c] <= q \/ q + size[q - 24] <= p
    OBVIOUS
  <2>1. /\ q - 24 \in Blocks' /\ c \in Blocks' /\ q - 24 # c /\ q \in Nat
        /\ size'[q - 24] = size[q - 24] /\ size[q - 24] \in Nat
    BY <1>1, <1>3, BlockFacts DEF IInv
  <2>2. \A x, y \in Blocks' : x < y => x + 24 + size'[x] <= y
    BY <1>1 DEF Tiled, End, Hdr
  <2>3. QED
    BY <1>2, <1>5, <2>1, <2>2
<1> HIDE DEF p
<1>7. grants' = [q \in DOMAIN grants \cup {p} |->
                   IF q = p THEN grants'[p] ELSE grants[q]]
  BY <1>4 DEF grants
<1>8. p \in DOMAIN grants' \ DOMAIN grants
  BY <1>4
<1>9. QED
  BY <1>4, <1>5, <1>6, <1>7, <1>8 DEF H!Grant, H!Apart

\* Freeing a payload is the abstract Release of it.
LEMMA FreeReleases == ASSUME IInv, NEW p \in DOMAIN live, Free(p) PROVE H!Release
<1>1. DOMAIN grants = DOMAIN live /\ size' = size /\ DOMAIN live' = DOMAIN live \ {p}
  BY DEF grants, Free
<1>2. grants' = [q \in DOMAIN grants \ {p} |-> grants[q]]
  BY <1>1 DEF grants
<1>3. QED
  BY <1>1, <1>2 DEF H!Release

\* No other step touches a live payload: a merge absorbs free blocks only, and
\* the first allocation finds no payload live.
LEMMA OthersStutter ==
  ASSUME IInv,
         \/ \E n \in Requests : Alloc(n)
         \/ Skip \/ OutOfMemory \/ Merge \/ Advance \/ FreeDone \/ UNCHANGED vars
  PROVE  grants' = grants
<1>1. CASE \E n \in Requests : Alloc(n)
  <2>1. live' = live /\ (size' = size \/ Blocks = {})
    BY <1>1 DEF Alloc, ArenaInit
  <2>2. Blocks = {} => DOMAIN live = {}
    BY DEF IInv, AllocatedAreLive
  <2>3. QED
    BY <2>1, <2>2 DEF grants
<1>2. CASE Merge
  <2>1. /\ live' = live /\ curr \in Blocks /\ next[curr] \in Blocks
        /\ free[curr] /\ free[next[curr]]
        /\ \A b \in Blocks \ {curr, next[curr]} : size'[b] = size[b]
    BY <1>2 DEF Merge, CanMerge, IInv, TypeOK
  <2>2. \A p \in DOMAIN live : p - Hdr \in Blocks /\ ~free[p - Hdr]
    BY BlockFacts DEF IInv, AllocatedAreLive, Hdr
  <2>3. QED
    BY <2>1, <2>2 DEF grants
<1>3. CASE Skip \/ OutOfMemory \/ Advance \/ FreeDone \/ UNCHANGED vars
  BY <1>3 DEF Skip, OutOfMemory, Advance, FreeDone, vars, grants
<1>4. QED
  BY <1>1, <1>2, <1>3

LEMMA NextIsHeapNext == IInv /\ [Next]_vars => [H!Next]_grants
<1> SUFFICES ASSUME IInv, [Next]_vars PROVE H!Next \/ grants' = grants
  OBVIOUS
<1>1. ASSUME NEW p \in DOMAIN live, Free(p) PROVE H!Next
  BY <1>1, FreeReleases DEF H!Next
<1>2. CASE Take
  BY <1>2, TakeGrants DEF H!Next
<1>3. QED
  BY <1>1, <1>2, OthersStutter DEF Next, Step

\* The allocator implements the abstract heap: payloads held are disjoint, stay
\* inside the arena, and never move or change length.
THEOREM Refinement == Spec => HeapSpec
<1>1. Init => H!Init
  BY DEF Init, H!Init, grants
<1>2. QED
  BY <1>1, NextIsHeapNext, Invariance, PTL DEF Spec, HeapSpec, H!Spec

-----------------------------------------------------------------------------
(***************************************************************************)
(* The libc shim.                                                          *)
(***************************************************************************)

\* A block that has been granted and not yet been handed to the caller.
Granted(p) == /\ p \in DOMAIN live \ DOMAIN held
              /\ live[p] = want % WordMod

\* A call of arena_alloc on the way, or its result.
Allocating ==
  \/ /\ pc = "search" /\ request = want % WordMod
     /\ DOMAIN live = DOMAIN held
  \/ pc = "trapped"
  \/ /\ pc = "idle" /\ Granted(ret)
     /\ DOMAIN live = DOMAIN held \cup {ret}

\* A call of arena_free on the way, or done.
Freeing == pc \in {"coalesce", "idle"}

\* What each libc function has done so far.
FnInv ==
  \/ fn = "none" /\ pc = "idle" /\ DOMAIN live = DOMAIN held
  \/ fn \in {"malloc", "calloc"} /\ Allocating
  \/ fn = "free" /\ Freeing /\ DOMAIN live = DOMAIN held
  \/ fn = "realloc" /\ old \in DOMAIN held /\ Allocating
  \/ /\ fn = "realloc_free" /\ old \in DOMAIN held /\ Freeing
     /\ Granted(result)
     /\ DOMAIN live = (DOMAIN held \ {old}) \cup {result}

\* A pointer that is still backed was granted for the bytes its holder believes
\* it has, modulo the width of size_t.
HeldInv == /\ want \in Nat /\ held \in [DOMAIN held -> Nat]
           /\ \A p \in DOMAIN held \cap DOMAIN live : live[p] = held[p] % WordMod

LInv == IInv /\ FnInv /\ HeldInv

-----------------------------------------------------------------------------
\* The steps of a running call that grant nothing leave the callers' view alone.
LEMMA WalkLive ==
  ASSUME Skip \/ Merge \/ Advance \/ FreeDone
  PROVE  /\ live' = live /\ ret' = ret /\ request' = request
         /\ \/ pc = "search" /\ pc' = "search"
            \/ pc = "coalesce" /\ pc' \in {"coalesce", "idle"}
BY DEF Skip, Merge, Advance, FreeDone

\* A block that arena_alloc grants was nobody's.
LEMMA TakeLive ==
  ASSUME IInv, Take
  PROVE  /\ pc = "search" /\ pc' = "idle" /\ ret' \notin DOMAIN live
         /\ DOMAIN live' = DOMAIN live \cup {ret'} /\ live'[ret'] = request
         /\ \A p \in DOMAIN live : live'[p] = live[p]
<1>1. curr \in Blocks /\ free[curr] /\ curr \in Nat
  BY BlockFacts DEF Take, Fits, IInv, TypeOK
<1>2. ret' = curr + 24
  BY DEF Take, Hdr
<1>3. ret' \notin DOMAIN live
  <2> SUFFICES ASSUME ret' \in DOMAIN live PROVE FALSE
    OBVIOUS
  <2>1. PICK b \in Blocks : ~free[b] /\ ret' = b + 24
    BY DEF IInv, AllocatedAreLive, Hdr
  <2>2. b \in Nat
    BY BlockFacts DEF IInv
  <2>3. QED
    BY <1>1, <1>2, <2>1, <2>2
<1>4. live' = [p \in DOMAIN live \cup {ret'} |-> IF p = ret' THEN request ELSE live[p]]
  BY DEF Take
<1>5. QED
  BY <1>3, <1>4 DEF Take

\* The callers' pointers keep what they were granted when live only grows.
LEMMA HeldGrows ==
  ASSUME HeldInv, UNCHANGED <<want, held>>,
         \A p \in DOMAIN live : live'[p] = live[p],
         \A p \in DOMAIN live' \ DOMAIN live : p \notin DOMAIN held
  PROVE  HeldInv'
BY DEF HeldInv

\* A step of the allocator in the middle of a libc call.
LEMMA HeapStepInv == ASSUME HostBuild = FALSE, LInv, HeapStep PROVE FnInv' /\ HeldInv'
<1> USE DEF LInv
<1>1. /\ UNCHANGED <<fn, want, old, result, held>>
      /\ fn' = fn /\ old' = old /\ held' = held
  BY DEF HeapStep
<1>2. CASE Skip \/ Merge \/ Advance \/ FreeDone
  <2>1. /\ live' = live /\ ret' = ret /\ request' = request
        /\ \/ pc = "search" /\ pc' = "search"
           \/ pc = "coalesce" /\ pc' \in {"coalesce", "idle"}
    BY <1>2, WalkLive
  <2>2. HeldInv'
    BY <1>1, <2>1 DEF HeldInv
  <2>3. FnInv'
    BY <1>1, <2>1 DEF FnInv, Allocating, Freeing, Granted
  <2>4. QED
    BY <2>2, <2>3
<1>3. CASE Take
  <2>1. /\ pc = "search" /\ pc' = "idle" /\ ret' \notin DOMAIN live
        /\ DOMAIN live' = DOMAIN live \cup {ret'} /\ live'[ret'] = request
        /\ \A p \in DOMAIN live : live'[p] = live[p]
    BY <1>3, TakeLive
  <2>2. Allocating /\ (fn \in {"malloc", "calloc"} \/ (fn = "realloc" /\ old \in DOMAIN held))
    BY <2>1 DEF FnInv, Freeing
  <2>3. request = want % WordMod /\ DOMAIN live = DOMAIN held
    BY <2>1, <2>2 DEF Allocating
  <2>4. HeldInv'
    BY <1>1, <2>1, <2>3, HeldGrows
  <2>5. Allocating'
    BY <1>1, <2>1, <2>3 DEF Allocating, Granted
  <2>6. fn' \in {"malloc", "calloc"} \/ (fn' = "realloc" /\ old' \in DOMAIN held')
    BY <1>1, <2>2
  <2>7. FnInv'
    BY <2>5, <2>6 DEF FnInv
  <2>8. QED
    BY <2>4, <2>7
<1>4. CASE OutOfMemory
  <2>1. pc = "search" /\ pc' = "trapped" /\ live' = live
    BY <1>4 DEF OutOfMemory
  <2>2. Allocating /\ (fn \in {"malloc", "calloc"} \/ (fn = "realloc" /\ old \in DOMAIN held))
    BY <2>1 DEF FnInv, Freeing
  <2>3. HeldInv'
    BY <1>1, <2>1 DEF HeldInv
  <2>4. fn' \in {"malloc", "calloc"} \/ (fn' = "realloc" /\ old' \in DOMAIN held')
    BY <1>1, <2>2
  <2>5. Allocating'
    BY <2>1 DEF Allocating
  <2>6. FnInv'
    BY <2>4, <2>5 DEF FnInv
  <2>7. QED
    BY <2>3, <2>6
<1>5. QED
  BY <1>2, <1>3, <1>4 DEF HeapStep, Step

-----------------------------------------------------------------------------
\* malloc, calloc and realloc start an allocation of what they were asked for.
LEMMA AllocStarts ==
  ASSUME LInv, fn = "none", NEW m \in Nat, NEW n \in Requests, n = m % WordMod,
         Alloc(n), want' = m, UNCHANGED held
  PROVE  IInv' /\ Allocating' /\ HeldInv'
<1>1. IInv'
  BY AllocIInv DEF LInv
<1>2. live' = live /\ pc' = "search" /\ request' = n /\ DOMAIN live = DOMAIN held
  BY DEF Alloc, LInv, FnInv
<1>3. QED
  BY <1>1, <1>2 DEF Allocating, HeldInv, LInv

LEMMA StartInv ==
  ASSUME LInv, NEW n \in Asked,
         \/ Malloc(n)
         \/ \E c \in Counts : Calloc(c, n)
         \/ \E p \in DOMAIN held : Realloc(p, n)
  PROVE  LInv'
<1>1. n \in Requests /\ n \in Nat /\ n % WordMod = n
  BY LibcAssumption, ArenaAssumption, ModSmall DEF Hdr
<1>2. CASE Malloc(n)
  BY <1>1, <1>2, AllocStarts DEF Malloc, LInv, FnInv
<1>3. ASSUME NEW c \in Counts, Calloc(c, n) PROVE LInv'
  <2>1. c \in Nat /\ c * n \in Nat /\ (c * n) % WordMod \in Requests
    BY <1>1, LibcAssumption
  <2>2. QED
    BY <1>3, <2>1, AllocStarts DEF Calloc, LInv, FnInv
<1>4. ASSUME NEW p \in DOMAIN held, Realloc(p, n) PROVE LInv'
  <2>1. IInv' /\ Allocating' /\ HeldInv'
    BY <1>1, <1>4, AllocStarts DEF Realloc
  <2>2. QED
    BY <1>4, <2>1 DEF Realloc, LInv, FnInv
<1>5. QED
  BY <1>2, <1>3, <1>4

\* malloc returns: the block that was granted is the caller's.
LEMMA ReturnMallocInv == ASSUME HostBuild = FALSE, LInv, ReturnMalloc PROVE LInv'
<1>1. IInv'
  BY StutterIInv DEF ReturnMalloc, LInv
<1>2. /\ Granted(ret) /\ DOMAIN live = DOMAIN held \cup {ret} /\ pc = "idle"
      /\ UNCHANGED <<live, pc>>
  BY DEF LInv, FnInv, Allocating, ReturnMalloc, vars
<1>3. ret # Null
  BY <1>2 DEF LInv, IInv, TypeOK, Granted, Null
<1>4. held' = [q \in DOMAIN held \cup {ret} |-> IF q = ret THEN want ELSE held[q]]
  BY <1>3 DEF ReturnMalloc, Gained
<1>5. FnInv'
  BY <1>2, <1>4 DEF FnInv, ReturnMalloc
<1>6. HeldInv'
  BY <1>2, <1>4 DEF HeldInv, LInv, Granted, ReturnMalloc
<1>7. QED
  BY <1>1, <1>5, <1>6 DEF LInv

\* free gives up the pointer together with the block.
LEMMA FreeCallInv == ASSUME LInv, NEW p \in DOMAIN held, FreeCall(p) PROVE LInv'
<1>1. p \in DOMAIN live /\ Free(p)
  BY DEF FreeCall, LInv, FnInv
<1>2. IInv'
  BY <1>1, FreeIInv DEF LInv
<1>3. /\ live' = [q \in DOMAIN live \ {p} |-> live[q]] /\ pc' = "coalesce"
      /\ held' = [q \in DOMAIN held \ {p} |-> held[q]]
      /\ DOMAIN live = DOMAIN held
  BY <1>1 DEF Free, FreeCall, Dropped, LInv, FnInv
<1>4. FnInv'
  BY <1>3 DEF FnInv, Freeing, FreeCall
<1>5. HeldInv'
  BY <1>3 DEF HeldInv, LInv, FreeCall
<1>6. QED
  BY <1>2, <1>4, <1>5 DEF LInv

LEMMA ReturnFreeInv == ASSUME LInv, ReturnFree PROVE LInv'
<1>1. IInv'
  BY StutterIInv DEF ReturnFree, LInv
<1>2. FnInv' /\ HeldInv'
  BY DEF ReturnFree, LInv, FnInv, HeldInv, vars
<1>3. QED
  BY <1>1, <1>2 DEF LInv

\* realloc frees the old block while it holds the new one.
LEMMA CopyThenFreeInv == ASSUME LInv, CopyThenFree PROVE LInv'
<1>1. /\ old \in DOMAIN held /\ Granted(ret) /\ DOMAIN live = DOMAIN held \cup {ret}
  BY DEF LInv, FnInv, Allocating, CopyThenFree
<1>2. old \in DOMAIN live /\ old # ret /\ Free(old)
  BY <1>1 DEF CopyThenFree, Granted
<1>3. IInv'
  BY <1>2, FreeIInv DEF LInv
<1>4. /\ live' = [q \in DOMAIN live \ {old} |-> live[q]] /\ pc' = "coalesce"
      /\ result' = ret /\ UNCHANGED <<want, old, held>> /\ fn' = "realloc_free"
  BY <1>2 DEF Free, CopyThenFree
<1>5. DOMAIN live' = (DOMAIN held \ {old}) \cup {ret} /\ live'[ret] = live[ret]
  BY <1>1, <1>2, <1>4 DEF Granted
<1>6. FnInv'
  BY <1>1, <1>4, <1>5 DEF FnInv, Freeing, Granted
<1>7. HeldInv'
  BY <1>4 DEF HeldInv, LInv
<1>8. QED
  BY <1>3, <1>6, <1>7 DEF LInv

\* realloc returns: the new pointer takes the place of the old one.
LEMMA ReturnReallocInv == ASSUME LInv, ReturnRealloc PROVE LInv'
<1>1. IInv'
  BY StutterIInv DEF ReturnRealloc, LInv
<1>2. /\ Granted(result) /\ old \in DOMAIN held /\ pc = "idle" /\ UNCHANGED <<live, pc>>
      /\ DOMAIN live = (DOMAIN held \ {old}) \cup {result}
  BY DEF LInv, FnInv, ReturnRealloc, vars
<1>3. result # Null
  BY <1>2 DEF LInv, IInv, TypeOK, Granted, Null
<1>4. held' = [q \in (DOMAIN held \ {old}) \cup {result} |->
                 IF q = result THEN want ELSE held[q]]
  BY <1>3 DEF ReturnRealloc
<1>5. FnInv'
  BY <1>2, <1>4 DEF FnInv, ReturnRealloc
<1>6. HeldInv'
  BY <1>2, <1>4 DEF HeldInv, LInv, Granted, ReturnRealloc
<1>7. QED
  BY <1>1, <1>5, <1>6 DEF LInv

LEMMA LInitInv == LInit => LInv
<1> SUFFICES ASSUME LInit PROVE LInv
  OBVIOUS
<1>1. IInv
  BY InitIInv DEF LInit
<1>2. FnInv /\ HeldInv
  BY DEF LInit, Init, FnInv, HeldInv
<1>3. QED
  BY <1>1, <1>2 DEF LInv

\* The machine after a write loop that ran over the headers.
LostInv == OverrunByWrap /\ pc = "idle"

\* Only a size that wrapped gets a block too short for calloc's or realloc's loop.
LEMMA OverrunWraps ==
  ASSUME LInv, Overruns
  PROVE  live[ret] = Written /\ ret \in DOMAIN live /\ Written + Align - 1 >= WordMod
<1>1. Granted(ret)
  BY DEF Overruns, LInv, FnInv, Allocating
<1>2. live[ret] = Written /\ ret \in DOMAIN live
  BY <1>1 DEF Granted, Written
<1>3. Written \in 0 .. WordMod - 1
  BY ModRange, ArenaAssumption DEF Written, LInv, HeldInv
<1>4. curr \in Int /\ ret - Hdr \in Blocks /\ size[ret - Hdr] \in Nat
  <2>1. PICK b \in Blocks : ret = b + Hdr
    BY <1>2 DEF LInv, IInv, AllocatedAreLive
  <2>2. ret - Hdr = b
    BY <2>1, BlockFacts DEF LInv, IInv, Hdr
  <2>3. QED
    BY <2>2, BlockFacts DEF LInv, IInv, TypeOK, Null
<1>5. ASSUME live[ret] + Align - 1 < WordMod PROVE FALSE
  <2>1. live[ret] <= size[ret - Hdr]
    BY <1>2, <1>5 DEF LInv, IInv, GrantCoversRequest
  <2>2. QED
    BY <1>2, <1>3, <1>4, <2>1 DEF Overruns
<1>6. QED
  BY <1>2, <1>3, <1>5, ArenaAssumption DEF Align

LEMMA RunsOverLoses == ASSUME LInv, RunsOver PROVE LostInv'
BY OverrunWraps DEF RunsOver, Overruns, LostInv, OverrunByWrap, Written

\* Nothing runs once the machine is lost.
LEMMA LostStays == LostInv /\ [LNext]_lvars => LostInv' /\ UNCHANGED lvars
BY DEF LostInv, OverrunByWrap, Written, LNext, lvars, vars, Malloc, Calloc, Realloc, FreeCall,
       ReturnMalloc, ReturnFree, CopyThenFree, ReturnRealloc, RunsOver, Overruns, HeapStep,
       Step, Skip, Take, OutOfMemory, Merge, Advance, FreeDone

\* Every step of the shim keeps the invariant, or is the one that loses the list.
LEMMA LNextInv ==
  ASSUME HostBuild = FALSE PROVE LInv /\ [LNext]_lvars => LInv' \/ (RunsOver /\ LostInv')
<1> SUFFICES ASSUME LInv, [LNext]_lvars PROVE LInv' \/ (RunsOver /\ LostInv')
  OBVIOUS
<1>1. CASE HeapStep
  <2>1. IInv'
    BY <1>1, NextIInv DEF HeapStep, Next, LInv
  <2>2. QED
    BY <1>1, <2>1, HeapStepInv DEF LInv
<1>2. CASE UNCHANGED lvars
  <2>1. IInv'
    BY <1>2, StutterIInv DEF lvars, LInv
  <2>2. FnInv' /\ HeldInv'
    BY <1>2 DEF lvars, vars, LInv, FnInv, HeldInv, Allocating, Freeing, Granted
  <2>3. QED
    BY <2>1, <2>2 DEF LInv
<1>3. QED
  BY <1>1, <1>2, StartInv, FreeCallInv, ReturnMallocInv, ReturnFreeInv, CopyThenFreeInv,
     ReturnReallocInv, RunsOverLoses DEF LNext

\* Every other step is one that the allocator allows.
LEMMA LNextIsNext == LInv /\ [LNext]_lvars => [Next]_vars \/ RunsOver
<1> SUFFICES ASSUME LInv, [LNext]_lvars PROVE Next \/ UNCHANGED vars \/ RunsOver
  OBVIOUS
<1>1. ASSUME NEW p \in DOMAIN held, FreeCall(p) PROVE Next
  <2>1. p \in DOMAIN live
    BY <1>1 DEF FreeCall, LInv, FnInv
  <2>2. QED
    BY <1>1, <2>1 DEF FreeCall, Next
<1>2. CASE CopyThenFree
  <2>1. old \in DOMAIN live
    BY <1>2 DEF CopyThenFree, LInv, FnInv, Allocating
  <2>2. QED
    BY <1>2, <2>1 DEF CopyThenFree, Next
<1>3. ASSUME NEW n \in Asked,
             \/ Malloc(n)
             \/ \E c \in Counts : Calloc(c, n)
             \/ \E p \in DOMAIN held : Realloc(p, n)
      PROVE  Next
  BY <1>3, LibcAssumption DEF Malloc, Calloc, Realloc, Next
<1>4. CASE HeapStep \/ ReturnMalloc \/ ReturnFree \/ ReturnRealloc \/ UNCHANGED lvars
  BY <1>4 DEF HeapStep, ReturnMalloc, ReturnFree, ReturnRealloc, lvars, Next
<1>5. QED
  BY <1>1, <1>2, <1>3, <1>4 DEF LNext

-----------------------------------------------------------------------------
\* The shim's invariant, on the target build, for every arena and every set of
\* sizes and counts, those that wrap included.
THEOREM ShimInvariant == ASSUME HostBuild = FALSE PROVE LSpec => [](LInv \/ LostInv)
BY LInitInv, LNextInv, LostStays, PTL DEF LSpec

\* Where no request is within 15 bytes of 2^64, the write loops of
\* libc_shim.c:38 and :51 stay inside their blocks, and the shim calls arena_alloc
\* and arena_free as they have to be called: one at a time, and free only with a
\* payload that is live.  Everything proved of the allocator holds under its calls.
THEOREM ShimObeysAllocator ==
  ASSUME HostBuild = FALSE, \A n \in Requests : n + Align - 1 < WordMod
  PROVE  LSpec => Spec
<1>1. LInit => Init
  BY DEF LInit
<1>2. LInv => ~RunsOver
  <2> SUFFICES ASSUME LInv, Overruns PROVE FALSE
    BY DEF RunsOver
  <2>1. live[ret] \in Requests \cup {0} /\ live[ret] + Align - 1 >= WordMod
    BY OverrunWraps DEF LInv, IInv, TypeOK
  <2>2. live[ret] \in Requests
    BY <2>1, ArenaAssumption DEF Align, Hdr
  <2>3. \A n \in Requests : n \in Nat
    BY ArenaAssumption
  <2>4. live[ret] \in Nat /\ live[ret] + Align - 1 < WordMod
    BY <2>2, <2>3
  <2>5. QED
    BY <2>1, <2>4, ArenaAssumption DEF Align
<1>3. QED
  BY <1>1, <1>2, LInitInv, LNextInv, LNextIsNext, PTL DEF LSpec, Spec

\* Whatever sizes are asked for, the blocks tile the arena under malloc, calloc,
\* realloc and free (libc_shim.c:30-54) until a size that wrapped has been written.
THEOREM ShimListTiles == ASSUME HostBuild = FALSE PROVE LSpec => []ListTiles
<1>1. LInv \/ LostInv => ListTiles
  BY DEF LInv, IInv, LostInv, ListTiles
<1>2. QED
  BY <1>1, ShimInvariant, PTL

\* Until then the blocks marked allocated are those that a caller or a running
\* call of libc_shim.c:30-54 holds.
THEOREM ShimListOwned == ASSUME HostBuild = FALSE PROVE LSpec => []ListOwned
<1>1. LInv \/ LostInv => ListOwned
  BY DEF LInv, IInv, LostInv, ListOwned
<1>2. QED
  BY <1>1, ShimInvariant, PTL

\* Until then free, and realloc's free of the old block, leave no two free
\* neighbours (allocator.cpp:111-121).
THEOREM ShimListCoalesced == ASSUME HostBuild = FALSE PROVE LSpec => []ListCoalesced
<1>1. LInv \/ LostInv => ListCoalesced
  BY DEF LInv, IInv, LostInv, ListCoalesced
<1>2. QED
  BY <1>1, ShimInvariant, PTL

\* The shim implements the heap of disjoint payloads (module Heap) until a size
\* that wrapped has been written over the headers (libc_shim.c:38, :51).
THEOREM ShimImplementsHeap == ASSUME HostBuild = FALSE PROVE LSpec => HeapUntilLost
<1>1. LInit => H!Init
  BY DEF LInit, Init, H!Init, grants
<1>2. LInv /\ [LNext]_lvars => [fn' = "lost" \/ H!Next]_grants
  BY LNextIsNext, NextIsHeapNext DEF LInv, RunsOver
<1>3. LostInv /\ [LNext]_lvars => UNCHANGED grants
  BY LostStays DEF lvars, vars, grants
<1>4. QED
  BY <1>1, <1>2, <1>3, ShimInvariant, PTL DEF LSpec, HeapUntilLost

\* The pointers of the callers stay backed, whatever was moved, shrunk or freed.
THEOREM PointersBacked == ASSUME HostBuild = FALSE PROVE LSpec => []HeldIsBacked
<1>1. LInv => HeldIsBacked
  <2> SUFFICES ASSUME LInv, fn = "none", NEW p \in DOMAIN held
               PROVE  /\ p \in DOMAIN live
                      /\ held[p] + Align - 1 < WordMod => held[p] <= size[p - Hdr]
    BY DEF HeldIsBacked
  <2>1. p \in DOMAIN live /\ live[p] = held[p] % WordMod /\ held[p] \in Nat
    BY DEF LInv, FnInv, HeldInv
  <2>2. ASSUME held[p] + Align - 1 < WordMod PROVE live[p] = held[p]
    BY <2>1, <2>2, ModSmall, ArenaAssumption DEF Align
  <2>3. QED
    BY <2>1, <2>2 DEF LInv, IInv, GrantCoversRequest
<1>2. LostInv => HeldIsBacked
  BY DEF LostInv, OverrunByWrap, HeldIsBacked
<1>3. QED
  BY <1>1, <1>2, ShimInvariant, PTL

\* Between libc calls every allocated block is some caller's.
THEOREM NoBlockForgotten == ASSUME HostBuild = FALSE PROVE LSpec => []NothingUnreachable
<1>1. LInv \/ LostInv => NothingUnreachable
  BY DEF LInv, FnInv, NothingUnreachable, LostInv, OverrunByWrap
<1>2. QED
  BY <1>1, ShimInvariant, PTL

\* While realloc copies, it owns both blocks.
THEOREM CopyOwned == ASSUME HostBuild = FALSE PROVE LSpec => []CopyBetweenOwnedBlocks
<1>1. LInv \/ LostInv => CopyBetweenOwnedBlocks
  BY DEF LInv, FnInv, Allocating, Granted, CopyBetweenOwnedBlocks, LostInv, OverrunByWrap
<1>2. QED
  BY <1>1, ShimInvariant, PTL

-----------------------------------------------------------------------------
\* How far the cursor and the end of its block are from the arena's end, together:
\* a turn of either loop moves the one or the other on.
Running == pc \in {"search", "coalesce"}
Ahead == IF curr = Null THEN 0 ELSE (ArenaSize - curr) + (ArenaSize - End(curr))

LEMMA AheadRange ==
  ASSUME IInv
  PROVE  /\ Ahead \in Nat /\ Ahead <= 2 * ArenaSize - Hdr
         /\ curr # Null => Ahead > 0 /\ curr < End(curr)
<1>1. CASE curr = Null
  BY <1>1, ArenaAssumption DEF Ahead, Hdr
<1>2. CASE curr # Null
  <2>1. curr \in Blocks
    BY <1>2 DEF IInv, TypeOK
  <2>2. curr \in Nat /\ size[curr] \in Nat /\ End(curr) = curr + 24 + size[curr]
    BY <2>1, BlockFacts DEF IInv
  <2>3. End(curr) <= ArenaSize
    BY <2>1 DEF IInv, Tiled
  <2> QED
    BY <1>2, <2>2, <2>3, ArenaAssumption DEF Ahead, Hdr
<1> QED
  BY <1>1, <1>2

\* A turn of first fit, or of the pass of arena_free, to the next block.
LEMMA MoveOnNears ==
  ASSUME IInv, IInv', curr # Null, curr' = next[curr], size' = size
  PROVE  Ahead' < Ahead
<1>1. curr \in Blocks
  BY DEF IInv, TypeOK
<1>2. /\ curr \in Nat /\ size[curr] \in Nat /\ End(curr) = curr + 24 + size[curr]
      /\ End(curr) <= ArenaSize
      /\ next[curr] = IF End(curr) = ArenaSize THEN Null ELSE End(curr)
  BY <1>1, BlockFacts DEF IInv, Tiled
<1>3. CASE curr' = Null
  BY <1>3, AheadRange DEF Ahead
<1>4. CASE curr' # Null
  <2>1. curr' = End(curr) /\ curr' \in Blocks
    BY <1>1, <1>2, <1>4 DEF IInv, TypeOK
  <2>2. /\ size[curr'] \in Nat /\ End(curr)' = curr' + 24 + size[curr']
        /\ curr' + 24 + size[curr'] <= ArenaSize
    BY <2>1, BlockFacts DEF IInv, Tiled, End, Hdr
  <2> QED
    BY <1>2, <1>4, <2>1, <2>2, ArenaAssumption DEF Ahead
<1> QED
  BY <1>3, <1>4

\* A turn that absorbs the next block.
LEMMA MergeNears ==
  ASSUME IInv, IInv', Merge
  PROVE  Ahead' < Ahead
<1>1. curr \in Blocks /\ curr' = curr /\ curr # Null /\ next[curr] # Null
  BY DEF IInv, TypeOK, Merge, CanMerge
<1>2. next[curr] \in Blocks /\ next[curr] # curr
  <2>1. next[curr] \in Blocks /\ next[curr] = End(curr)
    BY <1>1 DEF IInv, TypeOK, Tiled
  <2> QED
    BY <1>1, <2>1, BlockFacts DEF IInv
<1>3. size'[curr] = size[curr] + Hdr + size[next[curr]]
  BY <1>1, <1>2 DEF Merge
<1>4. /\ size[next[curr]] \in Nat /\ curr \in Nat /\ size[curr] \in Nat
      /\ End(curr) = curr + 24 + size[curr] /\ End(curr)' = curr + 24 + size'[curr]
  BY <1>1, <1>2, BlockFacts DEF IInv, End, Hdr
<1> QED
  BY <1>1, <1>3, <1>4, ArenaAssumption DEF Ahead, Hdr

LEMMA TurnNears ==
  ASSUME IInv, [Next]_vars, IInv', Running, Running'
  PROVE  Ahead' <= Ahead /\ (Step => Ahead' # Ahead)
<1>1. Ahead \in Nat /\ Ahead' \in Nat
  <2>1. IInv' => (Ahead \in Nat)'
    BY AheadRange, PTL
  <2> QED
    BY <2>1, AheadRange
<1>2. CASE Skip \/ Advance
  <2>1. curr # Null /\ curr' = next[curr] /\ size' = size
    BY <1>2 DEF Skip, Advance
  <2> QED
    BY <1>1, <2>1, MoveOnNears
<1>3. CASE Merge
  BY <1>1, <1>3, MergeNears
<1>4. CASE Take \/ OutOfMemory \/ FreeDone
  BY <1>4 DEF Take, OutOfMemory, FreeDone, Running
<1>5. CASE UNCHANGED vars /\ ~Step
  BY <1>1, <1>5 DEF vars, Ahead, End
<1>6. CASE (\E n \in Requests : Alloc(n)) \/ \E p \in DOMAIN live : Free(p)
  BY <1>6 DEF Alloc, Free, Running
<1> QED
  BY <1>2, <1>3, <1>4, <1>5, <1>6 DEF Next, Step

-----------------------------------------------------------------------------
\* The temporal prover knows no induction over numbers.  It is given the way ahead
\* in two halves, digit by digit: above some digit nothing changes any more, so
\* that the digit can only fall, and then does not change either.
High == Ahead \div 1024
Low  == Ahead % 1024
Digits == {1, 2, 4, 8, 16, 32, 64, 128, 256, 512, 1024}
Digit(n, k)  == (n \div k) % 2 = 1
HighStays(k) == High' \div k = High \div k
LowStays(k)  == High' = High /\ Low' \div k = Low \div k

LEMMA DigitFalls ==
  ASSUME NEW q \in Nat, NEW p \in Nat, p \div 2 = q \div 2
  PROVE  /\ p <= q /\ p % 2 = 1 => q % 2 = 1
         /\ p = q <=> (p % 2 = 1 <=> q % 2 = 1)
  OBVIOUS

LEMMA Halves ==
  ASSUME NEW r \in Nat, NEW k \in Digits
  PROVE  r \div k \in Nat /\ r \div (2 * k) = (r \div k) \div 2
  BY DEF Digits

LEMMA Monotone ==
  ASSUME NEW r \in Nat, NEW s \in Nat, s <= r, NEW k \in Digits
  PROVE  s \div k <= r \div k
  BY DEF Digits

LEMMA DigitsFall ==
  ASSUME NEW r \in Nat, NEW s \in Nat, s <= r,
         NEW k \in Digits, s \div (2 * k) = r \div (2 * k)
  PROVE  /\ (s \div k) % 2 = 1 => (r \div k) % 2 = 1
         /\ s \div k = r \div k <=> ((s \div k) % 2 = 1 <=> (r \div k) % 2 = 1)
<1>1. /\ r \div k \in Nat /\ r \div (2 * k) = (r \div k) \div 2
      /\ s \div k \in Nat /\ s \div (2 * k) = (s \div k) \div 2
  BY Halves
<1>2. s \div k <= r \div k
  BY Monotone
<1> QED
  BY <1>1, <1>2, DigitFalls

LEMMA Ends ==
  /\ \A r \in 0 .. 2047 : r \div 2048 = 0 /\ r \div 1 = r
  /\ \A r \in 0 .. 1023 : r \div 1024 = 0 /\ r \div 1 = r
<1>1. ASSUME NEW r \in 0 .. 2047 PROVE r \div 2048 = 0 /\ r \div 1 = r
  OBVIOUS
<1>2. ASSUME NEW r \in 0 .. 1023 PROVE r \div 1024 = 0 /\ r \div 1 = r
  OBVIOUS
<1> QED
  BY <1>1, <1>2

LEMMA Parts ==
  ASSUME NEW r \in Nat, NEW s \in Nat, s <= r, r < 2 * 1024 * 1024
  PROVE  /\ r \div 1024 \in 0 .. 2047 /\ r % 1024 \in 0 .. 1023
         /\ s \div 1024 \in 0 .. 2047 /\ s % 1024 \in 0 .. 1023
         /\ s \div 1024 <= r \div 1024
         /\ s \div 1024 = r \div 1024 => s % 1024 <= r % 1024
         /\ s \div 1024 = r \div 1024 /\ s % 1024 = r % 1024 => s = r
  BY SMT

\* What a running call does from one turn to the next.
Runs == IInv /\ Running

LEMMA TurnLowers ==
  ASSUME ArenaSize <= 1024 * 1024, Runs, [Next]_vars, Runs'
  PROVE  /\ High \in 0 .. 2047 /\ High' \in 0 .. 2047 /\ High' <= High
         /\ Low \in 0 .. 1023 /\ Low' \in 0 .. 1023
         /\ High' = High => Low' <= Low
         /\ Step => High' # High \/ Low' # Low
<1>1. /\ Ahead \in Nat /\ Ahead <= 2 * ArenaSize - Hdr
      /\ Ahead' \in Nat /\ Ahead' <= 2 * ArenaSize - Hdr
  <2>1. IInv' => (Ahead \in Nat /\ Ahead <= 2 * ArenaSize - Hdr)'
    BY AheadRange, PTL
  <2> QED
    BY <2>1, AheadRange DEF Runs
<1>2. Ahead' <= Ahead /\ (Step => Ahead' # Ahead)
  BY TurnNears DEF Runs
<1> DEFINE r == Ahead  s == Ahead'
<1>3. r \in Nat /\ s \in Nat /\ s <= r /\ (Step => s # r) /\ r < 2 * 1024 * 1024
  BY <1>1, <1>2, ArenaAssumption, SMT DEF Hdr
<1>4. /\ High = r \div 1024 /\ High' = s \div 1024
      /\ Low = r % 1024 /\ Low' = s % 1024
  BY DEF High, Low
<1> HIDE DEF r, s
<1>5. /\ r \div 1024 \in 0 .. 2047 /\ s \div 1024 \in 0 .. 2047
      /\ r % 1024 \in 0 .. 1023 /\ s % 1024 \in 0 .. 1023
      /\ s \div 1024 <= r \div 1024
      /\ s \div 1024 = r \div 1024 => s % 1024 <= r % 1024
      /\ s \div 1024 = r \div 1024 /\ s % 1024 = r % 1024 => s = r
  BY <1>3, Parts
<1> QED
  BY <1>3, <1>4, <1>5

LEMMA DigitsStay ==
  ASSUME ArenaSize <= 1024 * 1024, Runs, [Next]_vars, Runs'
  PROVE  /\ HighStays(2048) /\ (HighStays(1) => LowStays(1024)) /\ ~(LowStays(1) /\ Step)
         /\ \A k \in Digits : HighStays(2 * k) =>
               /\ Digit(High, k)' => Digit(High, k)
               /\ HighStays(k) <=> (Digit(High, k)' <=> Digit(High, k))
         /\ \A k \in Digits : LowStays(2 * k) =>
               /\ Digit(Low, k)' => Digit(Low, k)
               /\ LowStays(k) <=> (Digit(Low, k)' <=> Digit(Low, k))
<1>1. /\ High \in 0 .. 2047 /\ High' \in 0 .. 2047 /\ High' <= High
      /\ Low \in 0 .. 1023 /\ Low' \in 0 .. 1023
      /\ High' = High => Low' <= Low
      /\ Step => High' # High \/ Low' # Low
  BY TurnLowers
<1>2. High \in Nat /\ High' \in Nat /\ Low \in Nat /\ Low' \in Nat
  BY <1>1
<1>3. HighStays(2048) /\ (HighStays(1) <=> High' = High)
  <2> DEFINE r == High  s == High'
  <2>1. r \in 0 .. 2047 /\ s \in 0 .. 2047
    BY <1>1
  <2> HIDE DEF r, s
  <2>2. s \div 2048 = r \div 2048 /\ s \div 1 = s /\ r \div 1 = r
    BY <2>1, Ends
  <2> QED
    BY <2>2 DEF HighStays, r, s
<1>6. (HighStays(1) => LowStays(1024)) /\ ~(LowStays(1) /\ Step)
  <2> DEFINE r == Low  s == Low'
  <2>1. r \in 0 .. 1023 /\ s \in 0 .. 1023
    BY <1>1
  <2>2. High' = High => ~Step \/ r # s
    BY <1>1
  <2> HIDE DEF r, s
  <2>3. s \div 1024 = r \div 1024 /\ s \div 1 = s /\ r \div 1 = r
    BY <2>1, Ends
  <2> QED
    BY <1>3, <2>2, <2>3 DEF LowStays, r, s
<1>4. ASSUME NEW k \in Digits, HighStays(2 * k)
      PROVE  /\ Digit(High, k)' => Digit(High, k)
             /\ HighStays(k) <=> (Digit(High, k)' <=> Digit(High, k))
  <2> DEFINE r == High  s == High'
  <2>1. r \in Nat /\ s \in Nat /\ s <= r /\ s \div (2 * k) = r \div (2 * k)
    BY <1>1, <1>2, <1>4 DEF HighStays
  <2> HIDE DEF r, s
  <2>2. /\ (s \div k) % 2 = 1 => (r \div k) % 2 = 1
        /\ s \div k = r \div k <=> ((s \div k) % 2 = 1 <=> (r \div k) % 2 = 1)
    BY <2>1, DigitsFall
  <2> QED
    BY <2>2 DEF HighStays, Digit, r, s
<1>5. ASSUME NEW k \in Digits, LowStays(2 * k)
      PROVE  /\ Digit(Low, k)' => Digit(Low, k)
             /\ LowStays(k) <=> (Digit(Low, k)' <=> Digit(Low, k))
  <2> DEFINE r == Low  s == Low'
  <2>1. /\ r \in Nat /\ s \in Nat /\ s <= r /\ s \div (2 * k) = r \div (2 * k)
        /\ High' = High
    BY <1>1, <1>2, <1>5 DEF LowStays
  <2> HIDE DEF r, s
  <2>2. /\ (s \div k) % 2 = 1 => (r \div k) % 2 = 1
        /\ s \div k = r \div k <=> ((s \div k) % 2 = 1 <=> (r \div k) % 2 = 1)
    BY <2>1, DigitsFall
  <2> QED
    BY <2>1, <2>2 DEF LowStays, Digit, r, s
<1> QED
  BY <1>3, <1>4, <1>5, <1>6

LEMMA NothingMoves ==
  UNCHANGED vars => Ahead' = Ahead /\ \A k : HighStays(k) /\ LowStays(k)
BY DEF vars, Ahead, End, HighStays, LowStays, High, Low

\* A call that has been entered keeps running: the weak fairness of Step, with its
\* guard written out.
CallsRun == []<>~Running \/ []<><<Step>>_vars

\* Every call ends, in an arena of any size up to the code's 1 MB and after any
\* history of calls: first fit runs off the list, and the pass of arena_free
\* absorbs finitely many blocks (allocator.cpp:72, :113).
THEOREM EveryCallEnds ==
  ASSUME ArenaSize <= 1024 * 1024
  PROVE  Spec /\ CallsRun => CallsEnd
<1>1. /\ Runs /\ [Next]_vars /\ Runs' => HighStays(2048) /\ ~(LowStays(1) /\ Step)
      /\ UNCHANGED vars => HighStays(2048) /\ LowStays(1)
  BY DigitsStay, NothingMoves
<1>2. [][Next]_vars /\ []Runs => <>[][HighStays(1024)]_vars
  <2>1. /\ Runs /\ [Next]_vars /\ Runs' /\ HighStays(2048) =>
              /\ Digit(High, 1024)' => Digit(High, 1024)
              /\ HighStays(1024) <=> (Digit(High, 1024)' <=> Digit(High, 1024))
        /\ UNCHANGED vars => HighStays(2048)
    BY DigitsStay, NothingMoves DEF Digits
  <2> QED
    BY <1>1, <2>1, PTL
<1>3. [][Next]_vars /\ []Runs => <>[][HighStays(512)]_vars
  <2>1. /\ Runs /\ [Next]_vars /\ Runs' /\ HighStays(1024) =>
              /\ Digit(High, 512)' => Digit(High, 512)
              /\ HighStays(512) <=> (Digit(High, 512)' <=> Digit(High, 512))
        /\ UNCHANGED vars => HighStays(1024)
    BY DigitsStay, NothingMoves DEF Digits
  <2> QED
    BY <1>2, <2>1, PTL
<1>4. [][Next]_vars /\ []Runs => <>[][HighStays(256)]_vars
  <2>1. /\ Runs /\ [Next]_vars /\ Runs' /\ HighStays(512) =>
              /\ Digit(High, 256)' => Digit(High, 256)
              /\ HighStays(256) <=> (Digit(High, 256)' <=> Digit(High, 256))
        /\ UNCHANGED vars => HighStays(512)
    BY DigitsStay, NothingMoves DEF Digits
  <2> QED
    BY <1>3, <2>1, PTL
<1>5. [][Next]_vars /\ []Runs => <>[][HighStays(128)]_vars
  <2>1. /\ Runs /\ [Next]_vars /\ Runs' /\ HighStays(256) =>
              /\ Digit(High, 128)' => Digit(High, 128)
              /\ HighStays(128) <=> (Digit(High, 128)' <=> Digit(High, 128))
        /\ UNCHANGED vars => HighStays(256)
    BY DigitsStay, NothingMoves DEF Digits
  <2> QED
    BY <1>4, <2>1, PTL
<1>6. [][Next]_vars /\ []Runs => <>[][HighStays(64)]_vars
  <2>1. /\ Runs /\ [Next]_vars /\ Runs' /\ HighStays(128) =>
              /\ Digit(High, 64)' => Digit(High, 64)
              /\ HighStays(64) <=> (Digit(High, 64)' <=> Digit(High, 64))
        /\ UNCHANGED vars => HighStays(128)
    BY DigitsStay, NothingMoves DEF Digits
  <2> QED
    BY <1>5, <2>1, PTL
<1>7. [][Next]_vars /\ []Runs => <>[][HighStays(32)]_vars
  <2>1. /\ Runs /\ [Next]_vars /\ Runs' /\ HighStays(64) =>
              /\ Digit(High, 32)' => Digit(High, 32)
              /\ HighStays(32) <=> (Digit(High, 32)' <=> Digit(High, 32))
        /\ UNCHANGED vars => HighStays(64)
    BY DigitsStay, NothingMoves DEF Digits
  <2> QED
    BY <1>6, <2>1, PTL
<1>8. [][Next]_vars /\ []Runs => <>[][HighStays(16)]_vars
  <2>1. /\ Runs /\ [Next]_vars /\ Runs' /\ HighStays(32) =>
              /\ Digit(High, 16)' => Digit(High, 16)
              /\ HighStays(16) <=> (Digit(High, 16)' <=> Digit(High, 16))
        /\ UNCHANGED vars => HighStays(32)
    BY DigitsStay, NothingMoves DEF Digits
  <2> QED
    BY <1>7, <2>1, PTL
<1>9. [][Next]_vars /\ []Runs => <>[][HighStays(8)]_vars
  <2>1. /\ Runs /\ [Next]_vars /\ Runs' /\ HighStays(16) =>
              /\ Digit(High, 8)' => Digit(High, 8)
              /\ HighStays(8) <=> (Digit(High, 8)' <=> Digit(High, 8))
        /\ UNCHANGED vars => HighStays(16)
    BY DigitsStay, NothingMoves DEF Digits
  <2> QED
    BY <1>8, <2>1, PTL
<1>10. [][Next]_vars /\ []Runs => <>[][HighStays(4)]_vars
  <2>1. /\ Runs /\ [Next]_vars /\ Runs' /\ HighStays(8) =>
              /\ Digit(High, 4)' => Digit(High, 4)
              /\ HighStays(4) <=> (Digit(High, 4)' <=> Digit(High, 4))
        /\ UNCHANGED vars => HighStays(8)
    BY DigitsStay, NothingMoves DEF Digits
  <2> QED
    BY <1>9, <2>1, PTL
<1>11. [][Next]_vars /\ []Runs => <>[][HighStays(2)]_vars
  <2>1. /\ Runs /\ [Next]_vars /\ Runs' /\ HighStays(4) =>
              /\ Digit(High, 2)' => Digit(High, 2)
              /\ HighStays(2) <=> (Digit(High, 2)' <=> Digit(High, 2))
        /\ UNCHANGED vars => HighStays(4)
    BY DigitsStay, NothingMoves DEF Digits
  <2> QED
    BY <1>10, <2>1, PTL
<1>12. [][Next]_vars /\ []Runs => <>[][HighStays(1)]_vars
  <2>1. /\ Runs /\ [Next]_vars /\ Runs' /\ HighStays(2) =>
              /\ Digit(High, 1)' => Digit(High, 1)
              /\ HighStays(1) <=> (Digit(High, 1)' <=> Digit(High, 1))
        /\ UNCHANGED vars => HighStays(2)
    BY DigitsStay, NothingMoves DEF Digits
  <2> QED
    BY <1>11, <2>1, PTL
<1>13. [][Next]_vars /\ []Runs => <>[][LowStays(1024)]_vars
  <2>1. /\ Runs /\ [Next]_vars /\ Runs' /\ HighStays(1) => LowStays(1024)
        /\ UNCHANGED vars => HighStays(1)
    BY DigitsStay, NothingMoves
  <2> QED
    BY <1>12, <2>1, PTL
<1>14. [][Next]_vars /\ []Runs => <>[][LowStays(512)]_vars
  <2>1. /\ Runs /\ [Next]_vars /\ Runs' /\ LowStays(1024) =>
              /\ Digit(Low, 512)' => Digit(Low, 512)
              /\ LowStays(512) <=> (Digit(Low, 512)' <=> Digit(Low, 512))
        /\ UNCHANGED vars => LowStays(1024)
    BY DigitsStay, NothingMoves DEF Digits
  <2> QED
    BY <1>13, <2>1, PTL
<1>15. [][Next]_vars /\ []Runs => <>[][LowStays(256)]_vars
  <2>1. /\ Runs /\ [Next]_vars /\ Runs' /\ LowStays(512) =>
              /\ Digit(Low, 256)' => Digit(Low, 256)
              /\ LowStays(256) <=> (Digit(Low, 256)' <=> Digit(Low, 256))
        /\ UNCHANGED vars => LowStays(512)
    BY DigitsStay, NothingMoves DEF Digits
  <2> QED
    BY <1>14, <2>1, PTL
<1>16. [][Next]_vars /\ []Runs => <>[][LowStays(128)]_vars
  <2>1. /\ Runs /\ [Next]_vars /\ Runs' /\ LowStays(256) =>
              /\ Digit(Low, 128)' => Digit(Low, 128)
              /\ LowStays(128) <=> (Digit(Low, 128)' <=> Digit(Low, 128))
        /\ UNCHANGED vars => LowStays(256)
    BY DigitsStay, NothingMoves DEF Digits
  <2> QED
    BY <1>15, <2>1, PTL
<1>17. [][Next]_vars /\ []Runs => <>[][LowStays(64)]_vars
  <2>1. /\ Runs /\ [Next]_vars /\ Runs' /\ LowStays(128) =>
              /\ Digit(Low, 64)' => Digit(Low, 64)
              /\ LowStays(64) <=> (Digit(Low, 64)' <=> Digit(Low, 64))
        /\ UNCHANGED vars => LowStays(128)
    BY DigitsStay, NothingMoves DEF Digits
  <2> QED
    BY <1>16, <2>1, PTL
<1>18. [][Next]_vars /\ []Runs => <>[][LowStays(32)]_vars
  <2>1. /\ Runs /\ [Next]_vars /\ Runs' /\ LowStays(64) =>
              /\ Digit(Low, 32)' => Digit(Low, 32)
              /\ LowStays(32) <=> (Digit(Low, 32)' <=> Digit(Low, 32))
        /\ UNCHANGED vars => LowStays(64)
    BY DigitsStay, NothingMoves DEF Digits
  <2> QED
    BY <1>17, <2>1, PTL
<1>19. [][Next]_vars /\ []Runs => <>[][LowStays(16)]_vars
  <2>1. /\ Runs /\ [Next]_vars /\ Runs' /\ LowStays(32) =>
              /\ Digit(Low, 16)' => Digit(Low, 16)
              /\ LowStays(16) <=> (Digit(Low, 16)' <=> Digit(Low, 16))
        /\ UNCHANGED vars => LowStays(32)
    BY DigitsStay, NothingMoves DEF Digits
  <2> QED
    BY <1>18, <2>1, PTL
<1>20. [][Next]_vars /\ []Runs => <>[][LowStays(8)]_vars
  <2>1. /\ Runs /\ [Next]_vars /\ Runs' /\ LowStays(16) =>
              /\ Digit(Low, 8)' => Digit(Low, 8)
              /\ LowStays(8) <=> (Digit(Low, 8)' <=> Digit(Low, 8))
        /\ UNCHANGED vars => LowStays(16)
    BY DigitsStay, NothingMoves DEF Digits
  <2> QED
    BY <1>19, <2>1, PTL
<1>21. [][Next]_vars /\ []Runs => <>[][LowStays(4)]_vars
  <2>1. /\ Runs /\ [Next]_vars /\ Runs' /\ LowStays(8) =>
              /\ Digit(Low, 4)' => Digit(Low, 4)
              /\ LowStays(4) <=> (Digit(Low, 4)' <=> Digit(Low, 4))
        /\ UNCHANGED vars => LowStays(8)
    BY DigitsStay, NothingMoves DEF Digits
  <2> QED
    BY <1>20, <2>1, PTL
<1>22. [][Next]_vars /\ []Runs => <>[][LowStays(2)]_vars
  <2>1. /\ Runs /\ [Next]_vars /\ Runs' /\ LowStays(4) =>
              /\ Digit(Low, 2)' => Digit(Low, 2)
              /\ LowStays(2) <=> (Digit(Low, 2)' <=> Digit(Low, 2))
        /\ UNCHANGED vars => LowStays(4)
    BY DigitsStay, NothingMoves DEF Digits
  <2> QED
    BY <1>21, <2>1, PTL
<1>23. [][Next]_vars /\ []Runs => <>[][LowStays(1)]_vars
  <2>1. /\ Runs /\ [Next]_vars /\ Runs' /\ LowStays(2) =>
              /\ Digit(Low, 1)' => Digit(Low, 1)
              /\ LowStays(1) <=> (Digit(Low, 1)' <=> Digit(Low, 1))
        /\ UNCHANGED vars => LowStays(2)
    BY DigitsStay, NothingMoves DEF Digits
  <2> QED
    BY <1>22, <2>1, PTL
<1>24. [][Next]_vars /\ CallsRun => []<>~Runs
  <2>1. Runs => Running
    BY DEF Runs
  <2> QED
    BY <1>1, <1>23, <2>1, PTL DEF CallsRun
<1>25. IInv => (pc \in {"search", "coalesce"} => Runs) /\ (~Runs => pc \in {"idle", "trapped"})
  BY DEF Runs, Running, IInv, TypeOK
<1> QED
  BY <1>24, <1>25, Invariance, PTL DEF Spec, CallsEnd

\* A libc call keeps running: the weak fairness of HeapStep in LibcHeap's FairLSpec,
\* with its guard written out.
ShimRuns == []<>~Running \/ []<><<HeapStep>>_lvars

\* Behind the libc functions, too, every call of the allocator ends
\* (libc_shim.c:30-54).
THEOREM ShimCallsEnd ==
  ASSUME HostBuild = FALSE, ArenaSize <= 1024 * 1024
  PROVE  LSpec /\ ShimRuns => CallsEnd
<1>1. IInv /\ <<HeapStep>>_lvars => <<Step>>_vars \/ ~Running
  BY DEF HeapStep, lvars, vars
<1>2. LInv => IInv
  BY DEF LInv
<1>3. LInit => Init
  BY DEF LInit
<1>4. LostInv => pc \in {"idle", "trapped"}
  BY DEF LostInv
<1>5. LInv /\ RunsOver => LostInv'
  BY RunsOverLoses
<1>6. LSpec /\ ShimRuns /\ []~LostInv => Spec /\ CallsRun
  BY <1>5, <1>1, <1>2, <1>3, LInitInv, LNextInv, LNextIsNext, PTL DEF LSpec, Spec, ShimRuns, CallsRun
<1>7. LSpec /\ <>LostInv => CallsEnd
  BY <1>4, LostStays, PTL DEF LSpec, CallsEnd
<1> QED
  BY <1>6, <1>7, EveryCallEnds, PTL
=============================================================================
