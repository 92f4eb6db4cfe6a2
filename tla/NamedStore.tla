----------------------------- MODULE NamedStore -----------------------------
(***************************************************************************)
(* What a client expects of the memory file system: a map from names to    *)
(* buffers, which a request changes at its own name only.                  *)
(***************************************************************************)
VARIABLES table,   \* name -> capability
          request  \* the request being served: a name and a capability

Init == table = [name \in {} |-> 0]

Put == /\ request.name \notin DOMAIN table
       /\ table' = [n \in DOMAIN table \cup {request.name} |->
                       IF n = request.name THEN request.cap ELSE table[n]]

Delete == /\ request.name \in DOMAIN table
          /\ table' = [n \in DOMAIN table \ {request.name} |-> table[n]]

Spec == Init /\ [][Put \/ Delete]_table
=============================================================================
