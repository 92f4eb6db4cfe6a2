----------------------------- MODULE Allocator ------------------------------
(***************************************************************************)
(* The arena allocator of src/boot/allocator.cpp, behind operator new,     *)
(* malloc and every std::vector of the kernel.  Block headers live in the  *)
(* arena itself; `next' links ALL blocks, allocated ones included, in      *)
(* address order.  A header is named by its offset from the arena's start, *)
(* a payload by the offset of its first byte.                              *)
(*                                                                         *)
(* A call is a sequence of steps, one per turn of its loop: the cursor     *)
(* `curr' is the local variable of arena_alloc's first-fit loop and of     *)
(* arena_free's coalescing pass.  The allocator is not reentrant and the   *)
(* code calls it from one context only (boot.cpp: the tick handler does    *)
(* "no allocation"), so one call runs at a time.                           *)
(***************************************************************************)
EXTENDS Integers

CONSTANTS
  ArenaSize,    \* arena_size, 1 MB in the code
  WordMod,      \* 2^64: size_t arithmetic is modulo this
  Requests,     \* sizes the callers ask for
  HostBuild     \* RP4_HOST_BUILD: return nullptr instead of trapping

Hdr      == 24  \* block_hdr: two words and a bool, padded to the word
MinAlloc == 16
Align    == 16
Null     == -1

ASSUME ArenaAssumption ==
  /\ ArenaSize \in Nat /\ ArenaSize % 8 = 0 /\ ArenaSize > Hdr
  /\ WordMod \in Nat /\ WordMod % Align = 0 /\ WordMod > ArenaSize
  /\ Requests \subseteq 0 .. WordMod - 1
  /\ HostBuild \in BOOLEAN

VARIABLES
  size, next, free,  \* the block headers on the list, by offset
  pc,                \* which loop is running, if any
  curr,              \* its cursor
  request,           \* arena_alloc's argument
  ret,               \* what arena_alloc returned, until the next call
  live               \* payloads the callers hold -> what they asked for

vars == <<size, next, free, pc, curr, request, ret, live>>

Blocks == DOMAIN size
End(b) == b + Hdr + size[b]

\* Mutants are named Bug...: what a plausible slip in the definition that
\* follows would make of it.
BugAlignDown(n) == n - (n % Align)

\* (n + 15) & ~15 in size_t arithmetic: wraps to 0 for the 15 largest values.
AlignUp(n) == LET m == (n + Align - 1) % WordMod IN m - (m % Align)

Needed == AlignUp(IF request = 0 THEN MinAlloc ELSE request)

BugFitsAllocated(b) == size[b] >= Needed

Fits(b) == free[b] /\ size[b] >= Needed

-----------------------------------------------------------------------------
Init ==
  /\ size = [b \in {} |-> 0] /\ next = [b \in {} |-> Null]
  /\ free = [b \in {} |-> TRUE]
  /\ pc = "idle" /\ curr = Null /\ request = 0 /\ ret = Null
  /\ live = [p \in {} |-> 0]

\* arena_init, run by the first arena_alloc: one free block spans the arena.
ArenaInit ==
  IF Blocks = {}
  THEN /\ size' = [b \in {0} |-> ArenaSize - Hdr]
       /\ next' = [b \in {0} |-> Null]
       /\ free' = [b \in {0} |-> TRUE]
  ELSE UNCHANGED <<size, next, free>>

\* Entry of arena_alloc(n), up to the first test of its loop.
Alloc(n) ==
  /\ pc = "idle"
  /\ ArenaInit
  /\ pc' = "search" /\ curr' = 0 /\ request' = n /\ ret' = Null
  /\ UNCHANGED live

\* The rest of the block under the cursor can hold a block of its own.
Splits == size[curr] - Needed > Hdr + MinAlloc

BugSkipTight ==
  /\ pc = "search" /\ curr # Null /\ ~(Fits(curr) /\ Splits)
  /\ curr' = next[curr]
  /\ UNCHANGED <<size, next, free, pc, request, ret, live>>

\* The block under the cursor does not fit: try the next one.
Skip ==
  /\ pc = "search" /\ curr # Null /\ ~Fits(curr)
  /\ curr' = next[curr]
  /\ UNCHANGED <<size, next, free, pc, request, ret, live>>

SplitAt == curr + Hdr + Needed

\* Splitting the block under the cursor: the header of the rest is written
\* just past the bytes granted.
Split ==
  LET s == SplitAt
  IN  /\ size' = [b \in Blocks \cup {s} |->
                    CASE b = curr -> Needed
                      [] b = s    -> size[curr] - Needed - Hdr
                      [] OTHER    -> size[b]]
      /\ next' = [b \in Blocks \cup {s} |->
                    CASE b = curr -> s
                      [] b = s    -> next[curr]
                      [] OTHER    -> next[b]]
      /\ free' = [b \in Blocks \cup {s} |->
                    CASE b = curr -> FALSE
                      [] b = s    -> TRUE
                      [] OTHER    -> free[b]]

\* The block under the cursor fits: split it if the rest can hold a block,
\* mark it allocated and return its payload.
Take ==
  /\ pc = "search" /\ curr # Null /\ Fits(curr)
  /\ IF Splits
     THEN Split
     ELSE /\ free' = [free EXCEPT ![curr] = FALSE]
          /\ UNCHANGED <<size, next>>
  /\ ret' = curr + Hdr
  /\ live' = [p \in DOMAIN live \cup {curr + Hdr} |->
                IF p = curr + Hdr THEN request ELSE live[p]]
  /\ pc' = "idle" /\ curr' = Null /\ request' = 0

BugReturnsNull ==
  /\ pc = "search" /\ curr = Null
  /\ pc' = "idle" /\ request' = 0
  /\ UNCHANGED <<size, next, free, curr, ret, live>>

\* The loop ran off the list.  On the target `brk #0' traps; the exception
\* handler returns to the same instruction, so nothing runs any more.
OutOfMemory ==
  /\ pc = "search" /\ curr = Null
  /\ pc' = IF HostBuild THEN "idle" ELSE "trapped"
  /\ request' = 0
  /\ UNCHANGED <<size, next, free, curr, ret, live>>

\* The coalescing pass starts at free_list, the first block.
BugPassFromBlock(p) == p - Hdr

PassStart(p) == 0

\* Entry of arena_free(p): the header is marked before the list is walked.
Free(p) ==
  /\ pc = "idle"
  /\ p \in DOMAIN live
  /\ free' = [free EXCEPT ![p - Hdr] = TRUE]
  /\ live' = [q \in DOMAIN live \ {p} |-> live[q]]
  /\ pc' = "coalesce" /\ curr' = PassStart(p) /\ ret' = Null
  /\ UNCHANGED <<size, next, request>>

BugAbsorbsAllocated(b) == free[b] /\ next[b] # Null

CanMerge(b) == free[b] /\ next[b] # Null /\ free[next[b]]

\* Absorb the next block and look at the same block again.
Merge ==
  /\ pc = "coalesce" /\ curr # Null /\ CanMerge(curr)
  /\ LET n == next[curr]
         rest == Blocks \ {n}
     IN  /\ size' = [b \in rest |-> IF b = curr THEN size[b] + Hdr + size[n]
                                                ELSE size[b]]
         /\ next' = [b \in rest |-> IF b = curr THEN next[n] ELSE next[b]]
         /\ free' = [b \in rest |-> free[b]]
  /\ UNCHANGED <<pc, curr, request, ret, live>>

BugAdvanceRestarts ==
  /\ pc = "coalesce" /\ curr # Null /\ ~CanMerge(curr)
  /\ curr' = 0
  /\ UNCHANGED <<size, next, free, pc, request, ret, live>>

Advance ==
  /\ pc = "coalesce" /\ curr # Null /\ ~CanMerge(curr)
  /\ curr' = next[curr]
  /\ UNCHANGED <<size, next, free, pc, request, ret, live>>

FreeDone ==
  /\ pc = "coalesce" /\ curr = Null
  /\ pc' = "idle"
  /\ UNCHANGED <<size, next, free, curr, request, ret, live>>

\* The steps a running call takes by itself.
Step == Skip \/ Take \/ OutOfMemory \/ Merge \/ Advance \/ FreeDone

Next == \/ \E n \in Requests : Alloc(n)
        \/ \E p \in DOMAIN live : Free(p)
        \/ Step

Spec == Init /\ [][Next]_vars

-----------------------------------------------------------------------------
\* Every variable has its type, and the cursor is on the list or off its end.
TypeOK ==
  /\ Blocks \subseteq 0 .. ArenaSize /\ size \in [Blocks -> 0 .. ArenaSize]
  /\ next \in [Blocks -> Blocks \cup {Null}]
  /\ free \in [Blocks -> BOOLEAN]
  /\ pc \in {"idle", "search", "coalesce", "trapped"}
  /\ curr \in Blocks \cup {Null}
  /\ request \in Requests \cup {0}
  /\ ret \in Int
  /\ DOMAIN live \subseteq Nat /\ live \in [DOMAIN live -> Requests \cup {0}]
  /\ pc # "idle" => Blocks # {}

\* The list tiles the arena: it starts at offset 0, each block's `next' is the
\* block that starts where it ends, the last one ends with the arena, and no
\* block starts inside another.  Splits and merges keep this through any
\* history of calls; a header written one word off, or a size that forgets the
\* absorbed header, would let two owners share bytes.
Tiled ==
  Blocks # {} =>
    /\ 0 \in Blocks
    /\ \A b \in Blocks : /\ End(b) <= ArenaSize
                         /\ next[b] = IF End(b) = ArenaSize THEN Null ELSE End(b)
    /\ \A b, c \in Blocks : b < c => End(b) <= c

\* The blocks marked allocated are exactly those whose payload a caller holds:
\* nothing leaks, and nothing a caller holds can be granted again.
AllocatedAreLive == {b + Hdr : b \in {b \in Blocks : ~free[b]}} = DOMAIN live

\* Outside arena_free no two neighbouring blocks are free, so that freeing
\* everything gives back one block: the pass of arena_free merges whatever the
\* freed block touches on either side.
Coalesced == pc # "coalesce" => \A b \in Blocks : ~CanMerge(b)

\* A payload is as long as what its caller asked for, unless the request was so
\* close to 2^64 that rounding it up wrapped.
GrantCoversRequest ==
  \A p \in DOMAIN live :
    live[p] + Align - 1 < WordMod => live[p] <= size[p - Hdr]

\* Headers hold 8-byte words and the target runs without an MMU, where a
\* misaligned access faults: every header starts on a word boundary.
HeadersAligned == \A b \in Blocks : b % 8 = 0

\* Strengthenings the proofs rest on.  Behind the cursor of arena_alloc nothing
\* fits, behind the cursor of arena_free nothing can merge, and sizes are whole
\* words, so that the header a split or a merge exposes is aligned too.
SearchedDoNotFit ==
  pc = "search" => /\ ret = Null
                   /\ \A b \in Blocks : curr = Null \/ b < curr => ~Fits(b)

MergedBehind ==
  pc = "coalesce" => \A b \in Blocks : curr = Null \/ b < curr => ~CanMerge(b)

SizesAligned == \A b \in Blocks : size[b] % 8 = 0

IInv == /\ TypeOK /\ Tiled /\ AllocatedAreLive /\ Coalesced /\ GrantCoversRequest
        /\ HeadersAligned /\ SizesAligned /\ SearchedDoNotFit /\ MergedBehind

\* arena_alloc returns the lowest block that fits, and fails only when no free
\* block does ("First-fit search", "deterministic failure").
FirstFitStep ==
  pc = "search" /\ pc' # "search" =>
    \/ /\ ret' = Null
       /\ \A b \in Blocks : ~Fits(b)
    \/ /\ ret' - Hdr \in Blocks /\ Fits(ret' - Hdr)
       /\ \A b \in Blocks : b < ret' - Hdr => ~Fits(b)

FirstFit == [][FirstFitStep]_vars

\* Every call ends: it returns, or the machine has trapped for good.
CallsEnd == pc \in {"search", "coalesce"} ~> pc \in {"idle", "trapped"}

-----------------------------------------------------------------------------
\* The abstract heap this module implements: each live payload with the size
\* of the block that holds it.
grants == [p \in DOMAIN live |-> size[p - Hdr]]

H == INSTANCE Heap WITH HeapSize <- ArenaSize, grants <- grants
HeapSpec == H!Spec
=============================================================================
