------------------------------ MODULE ConfigMap ------------------------------
(***************************************************************************)
(* What configsrv promises: a table of settings.  A request takes effect   *)
(* in one step between being asked and being answered, or is refused and   *)
(* changes nothing; a list is the table of one moment.  The body of an     *)
(* answer is the part of the table that it shows.                          *)
(***************************************************************************)
CONSTANTS Workers, Keys, Values, Requests, None

VARIABLES table,  \* key -> value
          asked,  \* the request a worker has accepted
          given   \* the answer it is about to send

vars == <<table, asked, given>>

Shows(status, keys, t) == [status |-> status, body |-> [k \in keys |-> t[k]]]
Open(w) == asked[w] # None /\ given[w] = None
Give(w, answer) == given' = [given EXCEPT ![w] = answer] /\ asked' = asked

Init == /\ table \in [Keys -> Values]
        /\ asked = [w \in Workers |-> None]
        /\ given = [w \in Workers |-> None]

Ask(w) == /\ asked[w] = None
          /\ \E r \in Requests : asked' = [asked EXCEPT ![w] = r]
          /\ UNCHANGED <<table, given>>

Get(w) == /\ Open(w) /\ asked[w].method = "GET" /\ asked[w].target \in Keys
          /\ Give(w, Shows(200, {asked[w].target}, table))
          /\ UNCHANGED table

List(w) == /\ Open(w) /\ asked[w].method = "GET" /\ asked[w].target = "all"
           /\ Give(w, Shows(200, Keys, table))
           /\ UNCHANGED table

Put(w) == /\ Open(w) /\ asked[w].method = "PUT" /\ asked[w].target \in Keys
          /\ table' = [table EXCEPT ![asked[w].target] = asked[w].value]
          /\ Give(w, Shows(200, {asked[w].target}, table'))

\* Nothing is shown and nothing changes; a file and an empty list are no errors.
Refuse(w) == /\ Open(w)
             /\ \E status \in {200, 400, 404, 405, 500} :
                   /\ status = 200 => \/ asked[w].target = "file"
                                      \/ asked[w].target = "all" /\ asked[w].method = "GET"
                   /\ Give(w, Shows(status, {}, table))
             /\ UNCHANGED table

Reply(w) == /\ given[w] # None
            /\ asked' = [asked EXCEPT ![w] = None]
            /\ given' = [given EXCEPT ![w] = None]
            /\ UNCHANGED table

\* The server ends: what was asked stays unanswered.
End == /\ asked' = [w \in Workers |-> None]
       /\ given' = [w \in Workers |-> None]
       /\ UNCHANGED table

Next == End \/ \E w \in Workers : Ask(w) \/ Get(w) \/ List(w) \/ Put(w) \/ Refuse(w) \/ Reply(w)

Spec == Init /\ [][Next]_vars
=============================================================================
