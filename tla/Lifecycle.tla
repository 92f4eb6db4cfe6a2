----------------------------- MODULE Lifecycle ------------------------------
(***************************************************************************)
(* The life of a process as proc.cppm describes it: it runs, it ends once  *)
(* with an exit code that no longer changes, and it is reaped once.  Pids  *)
(* are never used twice.                                                   *)
(***************************************************************************)
EXTENDS Naturals

CONSTANT ExitCodes

VARIABLES
  stage,    \* pid -> "running", "zombie" or "dead"
  code      \* pid -> exit code, 0 until the process ends

Start ==
  \E p \in DOMAIN stage' \ DOMAIN stage :
    /\ \A q \in DOMAIN stage : q < p
    /\ stage' = [q \in DOMAIN stage \cup {p} |->
                   IF q = p THEN "running" ELSE stage[q]]
    /\ code' = [q \in DOMAIN stage \cup {p} |-> IF q = p THEN 0 ELSE code[q]]

End ==
  \E p \in DOMAIN stage, c \in ExitCodes \cup {0} :
    /\ stage[p] = "running"
    /\ stage' = [stage EXCEPT ![p] = "zombie"]
    /\ code' = [code EXCEPT ![p] = c]

Reap ==
  \E p \in DOMAIN stage :
    /\ stage[p] = "zombie"
    /\ stage' = [stage EXCEPT ![p] = "dead"]
    /\ UNCHANGED code

Init == stage = [p \in {} |-> "running"] /\ code = [p \in {} |-> 0]

Next == Start \/ End \/ Reap

Spec == Init /\ [][Next]_<<stage, code>>
=============================================================================
