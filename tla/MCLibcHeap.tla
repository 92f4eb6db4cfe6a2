----------------------------- MODULE MCLibcHeap -----------------------------
(***************************************************************************)
(* Three sizes: one that needs a 16-byte block, one that needs 48 bytes,   *)
(* and the largest size_t, which align_up wraps to 0; and calloc of 13     *)
(* items, in an arena of 160 bytes, which holds five minimal blocks:       *)
(* reallocs grow, shrink, split holes and exhaust the arena.  Thirteen     *)
(* 40-byte items are 520 bytes, which the 512-value size_t wraps to 8;     *)
(* thirteen items of 511 bytes are 499, which align_up wraps to 0, as it   *)
(* does the 511 bytes of a realloc.                                        *)
(* The allocator's own properties are checked here as well, under the      *)
(* calls the shim really makes.                                            *)
(***************************************************************************)
EXTENDS LibcHeap

MCAsked == {16, 40, 511}
MCCounts == {13}
MCRequests == MCAsked \cup {(count * n) % WordMod : count \in MCCounts, n \in MCAsked}
=============================================================================
