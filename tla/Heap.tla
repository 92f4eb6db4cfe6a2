-------------------------------- MODULE Heap --------------------------------
(***************************************************************************)
(* What a heap promises its callers, with no trace of how it is built: the *)
(* payloads handed out and not yet given back are disjoint stretches of    *)
(* one fixed region, and a payload neither moves nor changes length while  *)
(* it is held.  A request may also fail, which leaves the grants alone.    *)
(* arena_alloc / arena_free (module Allocator) implement it.               *)
(***************************************************************************)
EXTENDS Naturals

CONSTANT HeapSize

VARIABLE grants     \* payload address -> payload length, for payloads held

Apart(p, n, q, m) == p + n <= q \/ q + m <= p

\* A new payload p is handed out, apart from every payload already held.
Grant ==
  \E p \in DOMAIN grants' \ DOMAIN grants :
    /\ p \in Nat /\ grants'[p] \in Nat
    /\ p + grants'[p] <= HeapSize
    /\ \A q \in DOMAIN grants : Apart(p, grants'[p], q, grants[q])
    /\ grants' = [q \in DOMAIN grants \cup {p} |->
                    IF q = p THEN grants'[p] ELSE grants[q]]

Release ==
  \E p \in DOMAIN grants :
    grants' = [q \in DOMAIN grants \ {p} |-> grants[q]]

Init == grants = [p \in {} |-> 0]

Next == Grant \/ Release

Spec == Init /\ [][Next]_grants
=============================================================================
