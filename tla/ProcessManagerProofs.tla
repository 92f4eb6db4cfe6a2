----------------------- MODULE ProcessManagerProofs -------------------------
(***************************************************************************)
(* Proofs about the process table, for any number of spawns and any sets   *)
(* of thread and capability ids.  Ownership and "running has a thread"     *)
(* hold whatever callers do; that an ended process has no thread, and the  *)
(* refinement of Lifecycle, need callers that only name running processes. *)
(***************************************************************************)
EXTENDS ProcessManager, TLAPS

IInv == TypeOK /\ ThreadsOwnedOnce /\ RunningHasThread /\ EndedHasNoThread

\* The kernel's capabilities keep their type.
MemoryTyped == Live \subseteq CapabilityIds /\ from \in [Live -> CapabilityIds \cup {Root}]

LEMMA WithoutTyped ==
  ASSUME IInv, NEW caps, from' = Without(caps) PROVE MemoryTyped'
BY DEF IInv, TypeOK, Without, Live, MemoryTyped

LEMMA MemoryStays == ASSUME IInv, from' = from PROVE MemoryTyped'
BY DEF IInv, TypeOK, Live, MemoryTyped

\* The empty table satisfies the invariant.
LEMMA InitIInv == Init => IInv
BY ProcAssumption
   DEF Init, IInv, TypeOK, ThreadsOwnedOnce, RunningHasThread,
       EndedHasNoThread, Table, FirstPid, Live

\* The new row is the only one that names the new thread.
LEMMA SpawnIInv ==
  ASSUME IInv, NEW q \in Table \cup {Boot}, NEW t \in ThreadIds, Spawn(q, t),
         UNCHANGED legal
  PROVE  IInv'
<1> USE DEF Table
<1> DEFINE n == next_pid
           row == [state |-> "running", threads |-> {t}, channels |-> {},
                   connections |-> {}, capabilities |-> {}, mem_used |-> 0,
                   exit_code |-> 0, parent |-> q]
<1>1. /\ procs' = [p \in Table \cup {n} |-> IF p = n THEN row ELSE procs[p]]
      /\ n \in Pids /\ n \notin Table /\ n \in Nat /\ next_pid' = n + 1
      /\ sched' = sched \cup {t} /\ t \notin sched /\ from' = from
  BY ProcAssumption DEF Spawn, NewRow, IInv, TypeOK, Pids, FirstPid
<1>2. row \in Process
  BY ProcAssumption DEF Process, IInv, TypeOK
<1>3. /\ row.state = "running" /\ row.threads = {t}
  OBVIOUS
<1> HIDE DEF row, n
<1>4. TypeOK'
  <2>1. next_pid' \in FirstPid .. FirstPid + MaxSpawns /\ \A p \in Table' : p < next_pid'
    BY <1>1, ProcAssumption DEF n, IInv, TypeOK, Pids, FirstPid
  <2>2. QED
    BY <1>1, <1>2, <2>1 DEF IInv, TypeOK, Live
<1>5. ThreadsOwnedOnce'
  BY <1>1, <1>3 DEF IInv, ThreadsOwnedOnce
<1>6. RunningHasThread'
  BY <1>1, <1>3 DEF IInv, RunningHasThread
<1>7. EndedHasNoThread'
  BY <1>1, <1>3 DEF IInv, EndedHasNoThread
<1>8. QED
  BY <1>4, <1>5, <1>6, <1>7 DEF IInv

\* What every operation on one row does to the invariant: the row changes, and
\* its threads are exchanged together with the scheduler's.
LEMMA RowIInv ==
  ASSUME IInv, NEW p \in Table, NEW row \in Process,
         procs' = [procs EXCEPT ![p] = row], next_pid' = next_pid,
         sched' = (sched \ procs[p].threads) \cup row.threads,
         MemoryTyped',
         row.threads \cap (sched \ procs[p].threads) = {},
         row.state = "running" => row.threads # {},
         legal /\ row.state \in {"zombie", "dead"} => row.threads = {},
         UNCHANGED legal
  PROVE  IInv'
<1> USE DEF Table
<1>1. /\ Table' = Table /\ procs'[p] = row
      /\ \A q \in Table \ {p} : procs'[q] = procs[q]
  BY DEF IInv, TypeOK
<1>2. TypeOK'
  BY <1>1 DEF IInv, TypeOK, Process, MemoryTyped
<1>3. ThreadsOwnedOnce'
  BY <1>1 DEF IInv, ThreadsOwnedOnce
<1>4. RunningHasThread' /\ EndedHasNoThread'
  BY <1>1 DEF IInv, RunningHasThread, EndedHasNoThread
<1>5. QED
  BY <1>2, <1>3, <1>4 DEF IInv

\* A row of the table is a process, and the threads it names are live.
LEMMA RowFacts ==
  ASSUME IInv, NEW p \in Table
  PROVE  /\ procs[p] \in Process
         /\ procs[p].threads \subseteq sched
BY DEF IInv, TypeOK, ThreadsOwnedOnce

\* kill keeps the invariant: the threads leave with the row.
LEMMA KillIInv == ASSUME IInv, NEW p \in Table, Kill(p), UNCHANGED legal PROVE IInv'
<1> DEFINE row == [procs[p] EXCEPT !.state = "zombie", !.threads = {}, !.channels = {},
                                   !.connections = {}, !.capabilities = {}]
<1>1. procs' = [procs EXCEPT ![p] = row] /\ row \in Process
  BY RowFacts DEF Kill, Process
<1>2. row.state = "zombie" /\ row.threads = {}
  BY RowFacts DEF Process
<1> HIDE DEF row
<1>3. /\ sched' = (sched \ procs[p].threads) \cup row.threads
      /\ MemoryTyped' /\ next_pid' = next_pid
  BY <1>2, WithoutTyped DEF Kill
<1>4. /\ row.threads \cap (sched \ procs[p].threads) = {}
      /\ row.state # "running"
  BY <1>2
<1>5. QED
  BY <1>1, <1>2, <1>3, <1>4, RowIInv

\* exit ends the row and takes its threads.
LEMMA ExitRow ==
  ASSUME IInv, NEW p \in Table, NEW c \in ExitCodes, Exit(p, c)
  PROVE  \E row \in Process :
           /\ procs' = [procs EXCEPT ![p] = row]
           /\ row.state = "zombie" /\ row.threads = {}
<1> DEFINE row == [procs[p] EXCEPT !.state = "zombie", !.exit_code = c, !.threads = {}]
<1>1. procs' = [procs EXCEPT ![p] = row] /\ row \in Process
  BY RowFacts DEF Exit, Process
<1>2. /\ row.state = "zombie" /\ row.threads = {}
  BY RowFacts DEF Process
<1> HIDE DEF row
<1>3. QED
  BY <1>1, <1>2

\* exit keeps the invariant: it destroys the threads it forgets.
LEMMA ExitIInv ==
  ASSUME IInv, NEW p \in Table, NEW c \in ExitCodes, Exit(p, c), UNCHANGED legal
  PROVE  IInv'
<1>1. PICK row \in Process : /\ procs' = [procs EXCEPT ![p] = row]
                             /\ row.state = "zombie" /\ row.threads = {}
                    BY ExitRow
<1>2. /\ sched' = (sched \ procs[p].threads) \cup row.threads
      /\ MemoryTyped'
  BY <1>1, RowFacts, MemoryStays DEF Exit
<1>3. QED
  BY <1>1, <1>2, RowIInv DEF Exit

\* wait keeps the invariant: it only changes the state of a zombie.
LEMMA WaitIInv ==
  ASSUME IInv, NEW q \in Table \cup {Boot}, Wait(q), UNCHANGED legal PROVE IInv'
<1>1. PICK p \in Zombies(q) : /\ procs' = [procs EXCEPT ![p].state = "dead"]
                              /\ UNCHANGED <<next_pid, sched, from>>
  BY DEF Wait
<1>2. p \in Table /\ procs[p].state = "zombie"
  BY DEF Zombies
<1> DEFINE row == [procs[p] EXCEPT !.state = "dead"]
<1>3. procs' = [procs EXCEPT ![p] = row] /\ row \in Process
  BY <1>1, <1>2, RowFacts DEF Process
<1>4. /\ row.state = "dead" /\ row.threads = procs[p].threads
  BY <1>2, RowFacts DEF Process
<1>5. legal => row.threads = {}
  BY <1>2, <1>4 DEF IInv, EndedHasNoThread
<1>6. /\ sched' = (sched \ procs[p].threads) \cup row.threads
      /\ MemoryTyped'
  BY <1>1, <1>2, <1>4, RowFacts, MemoryStays
<1> HIDE DEF row
<1>7. QED
  BY <1>1, <1>2, <1>3, <1>4, <1>5, <1>6, RowIInv

\* A new thread on a row that has ended breaks EndedHasNoThread: this is where
\* callers that behave are needed.
LEMMA ThreadAddIInv ==
  ASSUME IInv, NEW p \in Table, NEW t \in ThreadIds, ThreadAdd(p, t), UNCHANGED legal
  PROVE  IInv'
<1> DEFINE row == [procs[p] EXCEPT !.threads = @ \cup {t}]
<1>1. procs' = [procs EXCEPT ![p] = row] /\ row \in Process
  BY RowFacts DEF ThreadAdd, Process
<1>2. /\ row.state = procs[p].state /\ row.threads = procs[p].threads \cup {t}
  BY RowFacts DEF Process
<1>3. /\ sched' = (sched \ procs[p].threads) \cup row.threads
      /\ MemoryTyped'
      /\ row.threads \cap (sched \ procs[p].threads) = {}
      /\ legal => row.state = "running"
  BY <1>2, RowFacts, MemoryStays DEF ThreadAdd, MayCall
<1> HIDE DEF row
<1>4. QED
  BY <1>1, <1>2, <1>3, RowIInv DEF ThreadAdd

\* Recording a capability changes no thread and no state.
LEMMA TrackCapabilityIInv ==
  ASSUME IInv, NEW p \in Table, NEW cap \in CapabilityIds, TrackCapability(p, cap),
         UNCHANGED legal
  PROVE  IInv'
<1> DEFINE row == [procs[p] EXCEPT !.capabilities = @ \cup {cap}]
<1>1. procs' = [procs EXCEPT ![p] = row] /\ row \in Process
  BY RowFacts DEF TrackCapability, Process
<1>2. /\ row.state = procs[p].state /\ row.threads = procs[p].threads
  BY RowFacts DEF Process
<1>3. /\ sched' = (sched \ procs[p].threads) \cup row.threads
      /\ MemoryTyped'
      /\ row.threads \cap (sched \ procs[p].threads) = {}
  BY <1>2, RowFacts, MemoryStays DEF TrackCapability
<1>4. /\ row.state = "running" => row.threads # {}
      /\ legal /\ row.state \in {"zombie", "dead"} => row.threads = {}
  BY <1>2 DEF IInv, RunningHasThread, EndedHasNoThread
<1> HIDE DEF row
<1>5. QED
  BY <1>1, <1>3, <1>4, RowIInv DEF TrackCapability

\* Channels, connections and byte counts have no part in the invariant.
LEMMA TrackOtherIInv ==
  ASSUME IInv, NEW p \in Table,
         \/ \E ch \in ChannelIds : TrackChannel(p, ch)
         \/ \E conn \in ConnectionIds : TrackConnection(p, conn)
         \/ TrackAlloc(p, 1),
         UNCHANGED legal
  PROVE  IInv'
<1>1. \E row \in Process :
        /\ procs' = [procs EXCEPT ![p] = row]
        /\ row.state = procs[p].state /\ row.threads = procs[p].threads
    <2>1. CASE \E ch \in ChannelIds : TrackChannel(p, ch)
    <3>1. PICK ch \in ChannelIds : TrackChannel(p, ch)
      BY <2>1
    <3>2. /\ procs' = [procs EXCEPT ![p] = [procs[p] EXCEPT !.channels = @ \cup {ch}]]
          /\ [procs[p] EXCEPT !.channels = @ \cup {ch}] \in Process
      BY <3>1, RowFacts DEF TrackChannel, Process
    <3>3. QED
      BY <3>2, RowFacts DEF Process
  <2>2. CASE \E conn \in ConnectionIds : TrackConnection(p, conn)
    <3>1. PICK conn \in ConnectionIds : TrackConnection(p, conn)
      BY <2>2
    <3>2. /\ procs' = [procs EXCEPT ![p] =
                         [procs[p] EXCEPT !.connections = @ \cup {conn}]]
          /\ [procs[p] EXCEPT !.connections = @ \cup {conn}] \in Process
      BY <3>1, RowFacts DEF TrackConnection, Process
    <3>3. QED
      BY <3>2, RowFacts DEF Process
  <2>3. CASE TrackAlloc(p, 1)
    <3>1. /\ procs' = [procs EXCEPT ![p] = [procs[p] EXCEPT !.mem_used = @ + 1]]
          /\ [procs[p] EXCEPT !.mem_used = @ + 1] \in Process
      BY <2>3, RowFacts, ProcAssumption DEF TrackAlloc, Process
    <3>2. QED
      BY <3>1, RowFacts DEF Process
  <2>4. QED
    BY <2>1, <2>2, <2>3
<1>2. UNCHANGED <<next_pid, sched, from>>
  BY DEF TrackChannel, TrackConnection, TrackAlloc
<1>3. /\ procs[p].state = "running" => procs[p].threads # {}
      /\ legal /\ procs[p].state \in {"zombie", "dead"} => procs[p].threads = {}
  BY DEF IInv, RunningHasThread, EndedHasNoThread
<1>4. PICK row \in Process :
        /\ procs' = [procs EXCEPT ![p] = row]
        /\ row.state = procs[p].state /\ row.threads = procs[p].threads
    BY <1>1
<1>5. QED
  BY <1>2, <1>3, <1>4, RowFacts, RowIInv, MemoryStays

\* A spawn that fails after taking a pid keeps the invariant.
LEMMA SpawnFailsIInv == ASSUME IInv, SpawnFails, UNCHANGED legal PROVE IInv'
BY ProcAssumption
   DEF SpawnFails, IInv, TypeOK, ThreadsOwnedOnce,
       RunningHasThread, EndedHasNoThread, Table, Pids, FirstPid, Live

\* The memory manager has no part in the table.
LEMMA MemoryIInv == ASSUME IInv, Memory, UNCHANGED legal PROVE IInv'
<1>1. CASE \E cap \in CapabilityIds : Mmap(cap) \/ \E parent \in Live : Grant(parent, cap)
  BY <1>1 DEF Memory, Mmap, Grant, IInv, TypeOK, Live, Table, ThreadsOwnedOnce,
              RunningHasThread, EndedHasNoThread
<1>2. CASE \E cap \in Live : Munmap(cap)
  <2>1. MemoryTyped'
    BY <1>2, WithoutTyped DEF Munmap
  <2>2. QED
    BY <2>1 DEF Memory, MemoryTyped, IInv, TypeOK, Table, ThreadsOwnedOnce,
                RunningHasThread, EndedHasNoThread
<1>3. QED
  BY <1>1, <1>2 DEF Memory

\* Every operation of the process manager keeps the invariant.
LEMMA NextIInv == IInv /\ [Next]_vars => IInv'
<1> SUFFICES ASSUME IInv, [Next]_vars PROVE IInv'
  OBVIOUS
<1>1. CASE UNCHANGED vars
  BY <1>1 DEF vars, IInv, TypeOK, ThreadsOwnedOnce,
              RunningHasThread, EndedHasNoThread, Table, Live
<1>2. CASE Operation /\ UNCHANGED legal
  <2>1. ASSUME NEW q \in Table \cup {Boot}, NEW t \in ThreadIds, Spawn(q, t) PROVE IInv'
    BY <1>2, <2>1, SpawnIInv
  <2>2. ASSUME NEW q \in Table \cup {Boot}, Wait(q) PROVE IInv'
    BY <1>2, <2>2, WaitIInv
  <2>3. CASE SpawnFails
    BY <1>2, <2>3, SpawnFailsIInv
  <2>4. ASSUME NEW p \in Table,
               \/ Kill(p)
               \/ \E c \in ExitCodes : Exit(p, c)
               \/ \E t \in ThreadIds : ThreadAdd(p, t)
               \/ \E cap \in CapabilityIds : TrackCapability(p, cap)
               \/ \E ch \in ChannelIds : TrackChannel(p, ch)
               \/ \E conn \in ConnectionIds : TrackConnection(p, conn)
               \/ TrackAlloc(p, 1)
        PROVE  IInv'
    BY <1>2, <2>4, KillIInv, ExitIInv, ThreadAddIInv, TrackCapabilityIInv, TrackOtherIInv
  <2>5. QED
    BY <1>2, <2>1, <2>2, <2>3, <2>4 DEF Operation
<1>3. CASE Memory /\ UNCHANGED legal
  BY <1>3, MemoryIInv
<1>4. QED
  BY <1>1, <1>2, <1>3 DEF Next

\* The inductive invariant holds in every state of every run.
THEOREM Invariance == Spec => []IInv
BY InitIInv, NextIInv, PTL DEF Spec

\* The table's type, and that pids in it lie below the next one to be given.
THEOREM TypeCorrect == Spec => []TypeOK
<1>1. IInv => TypeOK
  BY DEF IInv
<1>2. QED
  BY <1>1, Invariance, PTL

\* Whatever callers do, live threads and the table agree: each live thread is
\* in one row, and no row names a thread that is gone.
THEOREM NoOrphanThreads == Spec => []ThreadsOwnedOnce
<1>1. IInv => ThreadsOwnedOnce
  BY DEF IInv
<1>2. QED
  BY <1>1, Invariance, PTL

\* A running process has a thread until it ends, whatever else
\* is called for it or for other processes in the meantime.
THEOREM RunningProcessHasThread == Spec => []RunningHasThread
<1>1. IInv => RunningHasThread
  BY DEF IInv
<1>2. QED
  BY <1>1, Invariance, PTL

\* With callers that only name running processes, an ended process has no
\* thread.
THEOREM EndedProcessHasNoThread == Spec => []EndedHasNoThread
<1>1. IInv => EndedHasNoThread
  BY DEF IInv
<1>2. QED
  BY <1>1, Invariance, PTL

-----------------------------------------------------------------------------
\* spawn appends the largest pid, so a new row is a Start.
LEMMA SpawnStarts ==
  ASSUME IInv, NEW q \in Table \cup {Boot}, NEW t \in ThreadIds, Spawn(q, t),
         legal, UNCHANGED legal
  PROVE  L!Start
<1>1. next_pid \notin Table /\ \A p \in Table : p < next_pid
  BY ProcAssumption DEF IInv, TypeOK, Pids, FirstPid
<1>2. /\ Table' = Table \cup {next_pid}
      /\ \A p \in Table : procs'[p] = procs[p]
      /\ procs'[next_pid].state = "running" /\ procs'[next_pid].exit_code = 0
  BY <1>1 DEF Spawn, NewRow, Table
<1> DEFINE n == next_pid
<1> HIDE DEF n
<1>3. /\ n \notin Table /\ \A p \in Table : p < n
      /\ Table' = Table \cup {n}
      /\ procs'[n].state = "running" /\ procs'[n].exit_code = 0
  BY <1>1, <1>2 DEF n
<1>4. /\ stage' = [p \in Table \cup {n} |-> IF p = n THEN "running" ELSE stage[p]]
      /\ code' = [p \in Table \cup {n} |-> IF p = n THEN 0 ELSE code[p]]
  BY <1>2, <1>3 DEF stage, code, Followed
<1>5. DOMAIN stage = Table /\ DOMAIN stage' = Table \cup {n} /\ n \in DOMAIN stage' \ DOMAIN stage
  BY <1>3, <1>4 DEF stage, Followed
<1>6. QED
  BY <1>3, <1>4, <1>5 DEF L!Start

\* The abstract view of a change to one row.
LEMMA RowMaps ==
  ASSUME NEW p \in Table, NEW row, procs' = [procs EXCEPT ![p] = row],
         legal, UNCHANGED legal
  PROVE  /\ stage' = [stage EXCEPT ![p] = row.state]
         /\ code' = [code EXCEPT ![p] = row.exit_code]
BY DEF stage, code, Table, Followed

\* kill and exit of a running process end it.
LEMMA EndsRunning ==
  ASSUME IInv, legal, UNCHANGED legal, NEW p \in Table,
         Kill(p) \/ \E c \in ExitCodes : Exit(p, c)
  PROVE  L!End
<1>1. procs[p].state = "running" /\ p \in DOMAIN stage /\ stage[p] = "running"
  BY DEF Kill, Exit, MayCall, stage, Followed
<1>2. PICK row \in Process : procs' = [procs EXCEPT ![p] = row] /\ row.state = "zombie"
  <2>1. CASE Kill(p)
    <3> DEFINE row == [procs[p] EXCEPT !.state = "zombie", !.threads = {}, !.channels = {},
                                       !.connections = {}, !.capabilities = {}]
    <3>1. procs' = [procs EXCEPT ![p] = row] /\ row \in Process /\ row.state = "zombie"
      BY <2>1, RowFacts DEF Kill, Process
    <3> HIDE DEF row
    <3>2. QED
      BY <3>1
  <2>2. ASSUME NEW c \in ExitCodes, Exit(p, c)
        PROVE  \E row \in Process : procs' = [procs EXCEPT ![p] = row] /\ row.state = "zombie"
    BY <2>2, ExitRow
  <2>3. QED
    BY <2>1, <2>2
<1>3. row.exit_code \in ExitCodes \cup {0}
  BY DEF Process
<1>4. stage' = [stage EXCEPT ![p] = "zombie"] /\ code' = [code EXCEPT ![p] = row.exit_code]
  BY <1>2, RowMaps
<1>5. QED
  BY <1>1, <1>3, <1>4 DEF L!End

\* wait reaps one zombie.
LEMMA WaitReaps ==
  ASSUME IInv, NEW q \in Table \cup {Boot}, Wait(q),
         legal, UNCHANGED legal
  PROVE  L!Reap
<1>1. PICK p \in Zombies(q) : procs' = [procs EXCEPT ![p].state = "dead"]
  BY DEF Wait
<1>2. p \in Table /\ procs[p].state = "zombie" /\ procs[p] \in Process
  BY RowFacts DEF Zombies
<1> DEFINE row == [procs[p] EXCEPT !.state = "dead"]
<1>3. /\ procs' = [procs EXCEPT ![p] = row]
      /\ row.state = "dead" /\ row.exit_code = procs[p].exit_code
  BY <1>1, <1>2 DEF Process
<1> HIDE DEF row
<1>4. stage' = [stage EXCEPT ![p] = "dead"] /\ code' = [code EXCEPT ![p] = code[p]]
  <2>1. row.exit_code = code[p]
    BY <1>2, <1>3 DEF code, Followed
  <2>2. /\ stage' = [stage EXCEPT ![p] = row.state]
        /\ code' = [code EXCEPT ![p] = row.exit_code]
    BY <1>2, <1>3, RowMaps
  <2>3. QED
    BY <1>3, <2>1, <2>2
<1>5. code' = code /\ p \in DOMAIN stage /\ stage[p] = "zombie"
  BY <1>2, <1>4 DEF code, stage, Followed
<1>6. QED
  BY <1>4, <1>5 DEF L!Reap

\* No other operation changes what a process's stage or exit code is.
LEMMA OthersStutter ==
  ASSUME IInv,
         UNCHANGED legal,
         \/ SpawnFails \/ Memory \/ UNCHANGED vars
         \/ \E p \in Table : \/ \E t \in ThreadIds : ThreadAdd(p, t)
                             \/ \E ch \in ChannelIds : TrackChannel(p, ch)
                             \/ \E conn \in ConnectionIds : TrackConnection(p, conn)
                             \/ \E cap \in CapabilityIds : TrackCapability(p, cap)
                             \/ TrackAlloc(p, 1)
  PROVE  UNCHANGED <<stage, code>>
<1>1. /\ Table' = Table
      /\ \A p \in Table : /\ procs'[p].state = procs[p].state
                          /\ procs'[p].exit_code = procs[p].exit_code
  BY DEF SpawnFails, Memory, vars, ThreadAdd, TrackChannel, TrackConnection,
         TrackCapability, TrackAlloc, Table, IInv, TypeOK, Process
<1>2. QED
  BY <1>1 DEF stage, code, Followed

\* Without such callers nothing is followed, and nothing changes.
LEMMA OtherCallers ==
  ASSUME IInv, ~legal, UNCHANGED legal PROVE UNCHANGED <<stage, code>>
BY DEF stage, code, Followed

\* With callers that only name running processes, the table implements the
\* documented life cycle.
THEOREM Refinement == Spec => LifecycleSpec
<1>1. Init => L!Init
  BY DEF Init, L!Init, stage, code, Table, Followed
<1>2. IInv /\ [Next]_vars => [L!Next]_<<stage, code>>
  <2> SUFFICES ASSUME IInv, [Next]_vars, legal
               PROVE  L!Next \/ UNCHANGED <<stage, code>>
    BY OtherCallers DEF Next, vars
  <2>1. UNCHANGED legal
    BY DEF Next, vars
  <2>2. ASSUME NEW q \in Table \cup {Boot}, NEW t \in ThreadIds, Spawn(q, t)
        PROVE  L!Next
    BY <2>1, <2>2, SpawnStarts DEF L!Next
  <2>3. ASSUME NEW q \in Table \cup {Boot}, Wait(q) PROVE L!Next
    BY <2>1, <2>3, WaitReaps DEF L!Next
  <2>4. ASSUME NEW p \in Table, Kill(p) \/ \E c \in ExitCodes : Exit(p, c)
        PROVE  L!Next
    BY <2>1, <2>4, EndsRunning DEF L!Next
  <2>5. QED
    BY <2>1, <2>2, <2>3, <2>4, OthersStutter DEF Next, Operation
<1>3. QED
  BY <1>1, <1>2, Invariance, PTL DEF Spec, LifecycleSpec, L!Spec
=============================================================================
