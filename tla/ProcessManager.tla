--------------------------- MODULE ProcessManager ---------------------------
(***************************************************************************)
(* The process table of src/proc/proc.cppm.  Rows are appended with        *)
(* ascending pids and never removed, so the vector `procs_' is a function  *)
(* from pids, whose table order is the order of the pids.  The vectors of  *)
(* a row are sets: their order and repetitions are never looked at.        *)
(*                                                                         *)
(* The kernel is external (lib/qnx-micro).  What proc.cppm uses of it is   *)
(* modelled by the scheduler's live threads and by the memory manager's    *)
(* live capabilities: mmap makes one, granting derives one from another,   *)
(* and revoking one takes all that were derived from it.  An id may be     *)
(* used again once it is gone.  The table does not ask the kernel whether  *)
(* a capability it tracks is live.  Names and priorities decide nothing    *)
(* here and are left out.                                                  *)
(***************************************************************************)
EXTENDS Integers

CONSTANTS
  MaxSpawns,      \* bound on the number of calls of spawn
  ThreadIds, CapabilityIds, ChannelIds, ConnectionIds,
  ExitCodes,
  MaxMem          \* bound on a process's mem_used

FirstPid == 100
Boot     == 0     \* the parent top.cpp names
Pids     == FirstPid .. FirstPid + MaxSpawns - 1

ASSUME ProcAssumption ==
  /\ MaxSpawns \in Nat /\ MaxMem \in Nat
  /\ ExitCodes \subseteq Int

VARIABLES
  procs,          \* procs_
  next_pid,       \* next_pid_
  sched,          \* external: the scheduler's live threads
  from,           \* external: live capability -> the one it was derived from
  legal           \* whether the callers of this run name running processes only

vars == <<procs, next_pid, sched, from, legal>>

Process ==
  [state        : {"running", "stopped", "zombie", "dead"},
   threads      : SUBSET ThreadIds,
   channels     : SUBSET ChannelIds,
   connections  : SUBSET ConnectionIds,
   capabilities : SUBSET CapabilityIds,
   mem_used     : 0 .. MaxMem,
   exit_code    : ExitCodes \cup {0},
   parent       : Pids \cup {Boot}]

Table == DOMAIN procs

Root == "root"    \* what a capability that mmap made is derived from
Live == DOMAIN from

\* capability_revoke cascades: it takes the live ones of caps and whatever was
\* derived from what it takes.
Revoked(caps) ==
  {c \in Live : \A gone \in SUBSET Live :
     /\ caps \cap Live \subseteq gone
     /\ \A d \in Live : from[d] \in gone => d \in gone
     => c \in gone}

Without(caps) == [c \in Live \ Revoked(caps) |-> from[c]]

-----------------------------------------------------------------------------
Init ==
  /\ procs = [p \in {} |-> Boot]
  /\ next_pid = FirstPid
  /\ sched = {} /\ from = [c \in {} |-> Root]
  /\ legal \in BOOLEAN

NewRow(parent, threads) ==
  [state |-> "running", threads |-> threads, channels |-> {}, connections |-> {},
   capabilities |-> {}, mem_used |-> 0, exit_code |-> 0, parent |-> parent]

\* spawn, when the scheduler creates the first thread t.
Spawn(parent, t) ==
  /\ next_pid \in Pids /\ t \notin sched
  /\ next_pid' = next_pid + 1
  /\ sched' = sched \cup {t}
  /\ procs' = [p \in Table \cup {next_pid} |->
                 IF p = next_pid THEN NewRow(parent, {t}) ELSE procs[p]]
  /\ UNCHANGED from

\* Mutants are named Bug...: what a plausible slip in the definition that
\* follows would make of it.
BugIgnoresError ==
  /\ next_pid \in Pids
  /\ next_pid' = next_pid + 1
  /\ procs' = [p \in Table \cup {next_pid} |->
                 IF p = next_pid THEN NewRow(Boot, {}) ELSE procs[p]]
  /\ UNCHANGED <<sched, from>>

\* spawn, when thread_create fails: the pid is used up and no row is added.
SpawnFails ==
  /\ next_pid \in Pids
  /\ next_pid' = next_pid + 1
  /\ UNCHANGED <<procs, sched, from>>

\* No operation below looks at the state of the process it is called for: which
\* processes callers name is up to them.
MayCall(p) == legal => procs[p].state = "running"

BugKillReaps(p) ==
  /\ MayCall(p)
  /\ sched' = sched \ procs[p].threads
  /\ from' = Without(procs[p].capabilities)
  /\ procs' = [procs EXCEPT ![p].state = "dead", ![p].threads = {},
                            ![p].channels = {}, ![p].connections = {},
                            ![p].capabilities = {}]
  /\ UNCHANGED next_pid

Kill(p) ==
  /\ MayCall(p)
  /\ sched' = sched \ procs[p].threads
  /\ from' = Without(procs[p].capabilities)
  /\ procs' = [procs EXCEPT ![p].state = "zombie", ![p].threads = {},
                            ![p].channels = {}, ![p].connections = {},
                            ![p].capabilities = {}]
  /\ UNCHANGED next_pid

BugKeepsThreads(p, c) ==
  /\ MayCall(p)
  /\ sched' = sched \ procs[p].threads
  /\ procs' = [procs EXCEPT ![p].state = "zombie", ![p].exit_code = c]
  /\ UNCHANGED <<next_pid, from>>

\* exit keeps the row's channels, connections and capabilities.
Exit(p, c) ==
  /\ MayCall(p)
  /\ sched' = sched \ procs[p].threads
  /\ procs' = [procs EXCEPT ![p].state = "zombie", ![p].exit_code = c,
                            ![p].threads = {}]
  /\ UNCHANGED <<next_pid, from>>

\* wait(parent) reaps the first zombie child of the table, here p.
Zombies(parent) == {p \in Table : procs[p].parent = parent /\ procs[p].state = "zombie"}

Wait(parent) ==
  \E p \in Zombies(parent) :
    /\ \A q \in Zombies(parent) : p <= q
    /\ procs' = [procs EXCEPT ![p].state = "dead"]
    /\ UNCHANGED <<next_pid, sched, from>>

ThreadAdd(p, t) ==
  /\ MayCall(p) /\ t \notin sched
  /\ sched' = sched \cup {t}
  /\ procs' = [procs EXCEPT ![p].threads = @ \cup {t}]
  /\ UNCHANGED <<next_pid, from>>

TrackChannel(p, ch) ==
  /\ MayCall(p)
  /\ procs' = [procs EXCEPT ![p].channels = @ \cup {ch}]
  /\ UNCHANGED <<next_pid, sched, from>>

TrackConnection(p, conn) ==
  /\ MayCall(p)
  /\ procs' = [procs EXCEPT ![p].connections = @ \cup {conn}]
  /\ UNCHANGED <<next_pid, sched, from>>

\* Whatever capability the caller names, live or not, and whoever tracks it too.
TrackCapability(p, cap) ==
  /\ MayCall(p)
  /\ procs' = [procs EXCEPT ![p].capabilities = @ \cup {cap}]
  /\ UNCHANGED <<next_pid, sched, from>>

TrackAlloc(p, bytes) ==
  /\ MayCall(p) /\ procs[p].mem_used + bytes <= MaxMem
  /\ procs' = [procs EXCEPT ![p].mem_used = @ + bytes]
  /\ UNCHANGED <<next_pid, sched, from>>

Operation ==
  \/ \E q \in Table \cup {Boot} : \/ \E t \in ThreadIds : Spawn(q, t)
                                  \/ Wait(q)
  \/ SpawnFails
  \/ \E p \in Table : \/ Kill(p)
                      \/ \E c \in ExitCodes : Exit(p, c)
                      \/ \E t \in ThreadIds : ThreadAdd(p, t)
                      \/ \E ch \in ChannelIds : TrackChannel(p, ch)
                      \/ \E conn \in ConnectionIds : TrackConnection(p, conn)
                      \/ \E cap \in CapabilityIds : TrackCapability(p, cap)
                      \/ TrackAlloc(p, 1)

\* The kernel's memory manager, as test_audiomgr.cpp:46-93 uses it.
Grant(parent, cap) ==
  /\ cap \notin Live
  /\ from' = [c \in Live \cup {cap} |-> IF c = cap THEN parent ELSE from[c]]

Mmap(cap) == Grant(Root, cap)

Munmap(cap) == from' = Without({cap})

Memory ==
  /\ \/ \E cap \in CapabilityIds : \/ Mmap(cap)
                                   \/ \E parent \in Live : Grant(parent, cap)
     \/ \E cap \in Live : Munmap(cap)
  /\ UNCHANGED <<procs, next_pid, sched>>

Next == (Operation \/ Memory) /\ UNCHANGED legal

Spec == Init /\ [][Next]_vars

-----------------------------------------------------------------------------
\* Rows have their types, and pids are handed out in order.
TypeOK ==
  /\ Table \subseteq Pids /\ procs \in [Table -> Process]
  /\ next_pid \in FirstPid .. FirstPid + MaxSpawns
  /\ \A p \in Table : p < next_pid
  /\ sched \subseteq ThreadIds
  /\ Live \subseteq CapabilityIds /\ from \in [Live -> CapabilityIds \cup {Root}]
  /\ legal \in BOOLEAN

\* Every live thread belongs to exactly one process, and every thread a row
\* names is alive, whatever sequence of calls led here: no orphan threads
\* (spec/verify_proc.fsx A4), and no kill that destroys the thread of another
\* process through an id left behind in a row.
ThreadsOwnedOnce ==
  /\ \A t \in sched : \E p \in Table : t \in procs[p].threads
  /\ \A p \in Table : procs[p].threads \subseteq sched
  /\ \A p, q \in Table : p # q => procs[p].threads \cap procs[q].threads = {}

\* A running process has a thread (verify_proc.fsx F5): nothing takes the last
\* one away and leaves the state alone.
RunningHasThread ==
  \A p \in Table : procs[p].state = "running" => procs[p].threads # {}

\* A process that has ended has no thread (verify_proc.fsx F6, F10), as long as
\* nobody calls thread_add for a process that has ended.
EndedHasNoThread ==
  legal => \A p \in Table :
             procs[p].state \in {"zombie", "dead"} => procs[p].threads = {}

\* Each process runs, ends once and is reaped once, with a fixed exit code.
\* kill and exit of a process that has ended bring it back, so that nothing is
\* claimed for callers that do that.
Followed == IF legal THEN Table ELSE {}
stage == [p \in Followed |-> procs[p].state]
code  == [p \in Followed |-> procs[p].exit_code]
L == INSTANCE Lifecycle
LifecycleSpec == L!Spec
=============================================================================
