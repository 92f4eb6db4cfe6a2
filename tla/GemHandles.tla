----------------------------- MODULE GemHandles -----------------------------
(***************************************************************************)
(* What a user of the DRM manager relies on: a created handle is new and   *)
(* names a buffer of its own; it names the same buffer until it is closed. *)
(***************************************************************************)
EXTENDS Naturals

VARIABLE buffers  \* handle -> [addr, size]

Apart(b, c) == b.addr + b.size <= c.addr \/ c.addr + c.size <= b.addr

Init == buffers = [h \in {} |-> 0]

Create == \E h \in DOMAIN buffers' \ DOMAIN buffers :
              /\ DOMAIN buffers' = DOMAIN buffers \cup {h}
              /\ \A k \in DOMAIN buffers : /\ buffers'[k] = buffers[k]
                                           /\ Apart(buffers'[h], buffers[k])

Close == \E h \in DOMAIN buffers : buffers' = [k \in DOMAIN buffers \ {h} |-> buffers[k]]

Spec == Init /\ [][Create \/ Close]_buffers
=============================================================================
