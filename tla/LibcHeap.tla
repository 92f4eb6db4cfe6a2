------------------------------ MODULE LibcHeap ------------------------------
(***************************************************************************)
(* malloc, calloc, realloc, aligned_alloc and free of                      *)
(* src/shim/libc_shim.c on top of the arena allocator.  A libc call is one *)
(* or two allocator calls, so the states in between matter: realloc holds  *)
(* the old and the new block at once and copies between the two calls.     *)
(*                                                                         *)
(* `held' is the callers' view: the pointers they may still use, with the  *)
(* number of bytes they believe each one has.  realloc(NULL, n) is         *)
(* malloc(n); free(NULL) changes nothing.                                  *)
(*                                                                         *)
(* calloc and realloc write as many bytes as they asked the allocator for. *)
(* When rounding that number up has wrapped, the block is shorter, and the *)
(* loop runs over the headers behind it: RunsOver.                         *)
(***************************************************************************)
EXTENDS Allocator

CONSTANTS
  Asked,    \* the sizes callers ask for; Requests is what reaches arena_alloc
  Counts    \* calloc's first argument

ASSUME LibcAssumption ==
  /\ Asked \subseteq Requests /\ Counts \subseteq Nat
  /\ \A count \in Counts, n \in Asked : (count * n) % WordMod \in Requests

VARIABLES
  fn,       \* the libc function in progress
  want,     \* the bytes its caller asked for
  old,      \* realloc's ptr, while it runs
  result,   \* realloc's new_ptr, while the old block is freed
  held      \* pointers the callers may use -> bytes they believe they have

lvars == <<vars, fn, want, old, result, held>>

\* The bytes that calloc's and realloc's loops write, a size_t.
Written == want % WordMod

\* The loop that is about to run writes past the end of its block.
Overruns ==
  /\ fn \in {"calloc", "realloc"} /\ pc = "idle" /\ ret # Null
  /\ Written > size[ret - Hdr]

\* The callers' view after p is returned as n bytes, or after p is given up.
Gained(p, n) == [q \in DOMAIN held \cup {p} |-> IF q = p THEN n ELSE held[q]]
Dropped(p)   == [q \in DOMAIN held \ {p} |-> held[q]]

LInit == Init /\ fn = "none" /\ want = 0 /\ old = Null /\ result = Null
         /\ held = [p \in {} |-> 0]

\* malloc and operator new; aligned_alloc drops its alignment and is the same.
Malloc(n) ==
  /\ fn = "none" /\ Alloc(n)
  /\ fn' = "malloc" /\ want' = n
  /\ UNCHANGED <<old, result, held>>

\* calloc(count, n): the product is a size_t.
Calloc(count, n) ==
  /\ fn = "none" /\ Alloc((count * n) % WordMod)
  /\ fn' = "calloc" /\ want' = count * n
  /\ UNCHANGED <<old, result, held>>

\* malloc returns, or calloc once it has zeroed its block.
ReturnMalloc ==
  /\ fn \in {"malloc", "calloc"} /\ pc = "idle" /\ ~Overruns
  /\ held' = IF ret = Null THEN held ELSE Gained(ret, want)
  /\ fn' = "none" /\ want' = 0
  /\ UNCHANGED <<vars, old, result>>

BugFreeInterrupts(p) ==
  /\ p \in DOMAIN held
  /\ Free(p)
  /\ held' = Dropped(p)
  /\ fn' = IF fn = "none" THEN "free" ELSE fn
  /\ UNCHANGED <<want, old, result>>

\* free(p), and realloc(p, 0), which returns NULL.
FreeCall(p) ==
  /\ fn = "none" /\ p \in DOMAIN held
  /\ Free(p)
  /\ held' = Dropped(p)
  /\ fn' = "free"
  /\ UNCHANGED <<want, old, result>>

ReturnFree ==
  /\ fn = "free" /\ pc = "idle"
  /\ fn' = "none"
  /\ UNCHANGED <<vars, want, old, result, held>>

\* realloc(p, n) with both arguments nonzero always moves: it allocates first.
Realloc(p, n) ==
  /\ fn = "none" /\ p \in DOMAIN held /\ n # 0
  /\ Alloc(n)
  /\ fn' = "realloc" /\ want' = n /\ old' = p
  /\ UNCHANGED <<result, held>>

BugKeepsOldBlock ==
  /\ fn = "realloc" /\ pc = "idle" /\ ~Overruns
  /\ result' = ret
  /\ fn' = "realloc_free"
  /\ UNCHANGED <<vars, want, old, held>>

\* Copy new_size bytes if the allocation succeeded, then free the old block
\* whether it did or not.
CopyThenFree ==
  /\ fn = "realloc" /\ pc = "idle" /\ ~Overruns
  /\ Free(old)
  /\ result' = ret
  /\ fn' = "realloc_free"
  /\ UNCHANGED <<want, old, held>>

\* A caller that gets NULL from realloc goes on using the old pointer, as the C
\* standard allows.
ReturnRealloc ==
  /\ fn = "realloc_free" /\ pc = "idle"
  /\ held' = IF result = Null THEN held
             ELSE [q \in (DOMAIN held \ {old}) \cup {result} |->
                     IF q = result THEN want ELSE held[q]]
  /\ fn' = "none" /\ want' = 0 /\ old' = Null /\ result' = Null
  /\ UNCHANGED vars

\* What a header behind the block can become: calloc writes zeros, realloc the
\* bytes that lie behind its old block, of which two samples are taken.
Zeros == [size |-> 0, next |-> Null, free |-> FALSE]
Overwritten ==
  IF fn = "calloc" THEN {Zeros}
  ELSE {Zeros, [size |-> ArenaSize, next |-> Null, free |-> TRUE]}

\* The loop that writes more than its block holds: 2^64 - 15 bytes or more, so it
\* goes on past the arena until an access faults, and the exception handler
\* returns to the same access.  No call returns any more.
RunsOver ==
  /\ Overruns
  /\ \E header \in [{b \in Blocks : b >= ret} -> Overwritten] :
       LET hit == DOMAIN header
       IN  /\ size' = [b \in Blocks |-> IF b \in hit THEN header[b].size ELSE size[b]]
           /\ next' = [b \in Blocks |-> IF b \in hit THEN header[b].next ELSE next[b]]
           /\ free' = [b \in Blocks |-> IF b \in hit THEN header[b].free ELSE free[b]]
  /\ fn' = "lost"
  /\ UNCHANGED <<pc, curr, request, ret, live, want, old, result, held>>

HeapStep == Step /\ UNCHANGED <<fn, want, old, result, held>>

LNext ==
  \/ \E n \in Asked : \/ Malloc(n)
                      \/ \E c \in Counts : Calloc(c, n)
                      \/ \E p \in DOMAIN held : Realloc(p, n)
  \/ \E p \in DOMAIN held : FreeCall(p)
  \/ ReturnMalloc \/ ReturnFree \/ CopyThenFree \/ ReturnRealloc
  \/ RunsOver
  \/ HeapStep

LSpec == LInit /\ [][LNext]_lvars

\* Fairness: a call that has been entered keeps running.  There is one core, and
\* what interrupts it returns to it.  Nothing makes a caller call again.
FairLSpec == LSpec /\ WF_lvars(HeapStep)

-----------------------------------------------------------------------------
\* The one way the list is lost: calloc or realloc was asked for so many bytes
\* that rounding them up wrapped (allocator.cpp:59), and wrote them all.
OverrunByWrap == fn = "lost" /\ Written + Align - 1 >= WordMod

\* The allocator's list under the calls of the shim, its write loops included:
\* blocks tile the arena, the allocated ones are those somebody holds, and no two
\* neighbours are free (allocator.cpp:64-121).  No loop of libc_shim.c:38 and :51
\* writes past its block unless the request wrapped.
ListTiles     == OverrunByWrap \/ Tiled
ListOwned     == OverrunByWrap \/ AllocatedAreLive
ListCoalesced == OverrunByWrap \/ Coalesced

\* The shim implements the abstract heap of disjoint payloads that do not move
\* (libc_shim.c:30-54 over allocator.cpp), up to the step that destroys it.
HeapUntilLost == H!Init /\ [][fn' = "lost" \/ H!Next]_grants

\* Between libc calls every pointer a caller may still use points to a block
\* that is allocated and as long as the caller believes: no dangling pointer
\* survives a realloc, moved or failed.  The length is left open where the size
\* asked for, or calloc's product, wraps.
HeldIsBacked ==
  fn = "none" =>
    \A p \in DOMAIN held :
      /\ p \in DOMAIN live
      /\ held[p] + Align - 1 < WordMod => held[p] <= size[p - Hdr]

\* Between libc calls no block is allocated that no caller can reach: realloc
\* gives its old block back.
NothingUnreachable == fn = "none" => DOMAIN live \subseteq DOMAIN held

\* While realloc copies, source and destination are two different blocks that
\* are both allocated.
CopyBetweenOwnedBlocks ==
  fn = "realloc" /\ pc = "idle" /\ ret # Null =>
    old \in DOMAIN live /\ ret \in DOMAIN live /\ old # ret

\* libc_shim.c:48 calls the copy of new_size bytes safe: it stays inside the old
\* block.
ReallocCopiesInBounds ==
  fn = "realloc" /\ pc = "idle" /\ ret # Null => want <= size[old - Hdr]
=============================================================================
