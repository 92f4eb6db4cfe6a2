-------------------------- MODULE MCProcessManager --------------------------
(***************************************************************************)
(* Two spawns, two thread ids and two of capabilities, so that ids are     *)
(* reused after a kill, one capability is derived from the other, both     *)
(* rows track the same one, and a process has a child of its own.          *)
(***************************************************************************)
EXTENDS ProcessManager, TLC

CONSTANTS t1, t2, cap1, cap2
Threads2 == {t1, t2}
Caps2 == {cap1, cap2}
Symmetric == Permutations(Threads2) \cup Permutations(Caps2)
=============================================================================
