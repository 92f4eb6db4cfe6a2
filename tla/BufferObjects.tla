--------------------------- MODULE BufferObjects ---------------------------
(***************************************************************************)
(* drmmgr.cpp: the table of GPU buffer objects over a bump-allocated pool, *)
(* and the job queue of the V3D behind the submit calls.  The ioctl        *)
(* handlers run one after the other; inside a submit call the handler      *)
(* polls while the GPU works.                                              *)
(***************************************************************************)
EXTENDS Naturals, FiniteSets

CONSTANTS Slots,      \* max_bos
          Page,       \* 4096: the granularity of the pool
          Word,       \* 2^32: sizes and handles are 32 bits wide
          PoolBase,   \* bo_pool_base
          PoolSize,   \* bo_pool_size
          Sizes,      \* the sizes callers ask for
          MaxCreates  \* bound: how many objects are created

ASSUME BufferAssumption ==
    /\ Slots \in Nat /\ PoolBase \in Nat /\ PoolSize \in Nat /\ MaxCreates \in Nat
    /\ Page \in Nat \ {0} /\ Word \in Nat \ {0} /\ Sizes \subseteq 0 .. Word - 1
    /\ MaxCreates + 1 < Word

VARIABLES table,      \* g_bo_table: the slots in use -> their object
          nextHandle, \* g_next_handle
          poolNext,   \* g_bo_pool_next
          call,       \* where the submit handler stands
          gpu,        \* the engines of the GPU that run: "bin", "render", "tfu"
          drm         \* /pps/drm/status

bufferVars == <<table, nextHandle, poolNext>>
vars == <<bufferVars, call, gpu, drm>>

PoolEnd == PoolBase + PoolSize

\* (size + 0xFFF) & ~0xFFF in 32 bits: sizes in the last page wrap to 0.
PageUp(size) == LET s == (size + (Page - 1)) % Word IN s - (s % Page)

Object(handle, size, addr, wanted) ==
    [handle |-> handle, size |-> size, addr |-> addr,
     wanted |-> wanted]  \* the size asked for, which the code does not keep

Init == /\ table = [slot \in {} |-> Object(0, 0, 0, 0)]
        /\ nextHandle = 1
        /\ poolNext = PoolBase
        /\ call = "idle"
        /\ gpu = {}
        /\ drm = "none"

FreeSlots == {slot \in 1 .. Slots : slot \notin DOMAIN table}
IsFirstFree(slot) == slot \in FreeSlots /\ \A other \in FreeSlots : slot <= other

Available(size) == poolNext + PageUp(size) <= PoolEnd /\ FreeSlots # {}

-----------------------------------------------------------------------------
(* bo_alloc, through handle_create_bo.                                     *)

InSlot(slot, object) ==
    [s \in DOMAIN table \cup {slot} |-> IF s = slot THEN object ELSE table[s]]

\* Mutant: the pool pointer stays where it is.
BugNoBump(size) ==
    /\ call = "idle" /\ nextHandle <= MaxCreates /\ Available(size)
    /\ \E slot \in 1 .. Slots :
          /\ IsFirstFree(slot)
          /\ table' = InSlot(slot, Object(nextHandle, PageUp(size), poolNext, size))
    /\ nextHandle' = (nextHandle + 1) % Word
    /\ UNCHANGED <<poolNext, call, gpu, drm>>

CreateBo(size) ==
    /\ call = "idle" /\ nextHandle <= MaxCreates /\ Available(size)
    /\ \E slot \in 1 .. Slots :
          /\ IsFirstFree(slot)
          /\ table' = InSlot(slot, Object(nextHandle, PageUp(size), poolNext, size))
    /\ nextHandle' = (nextHandle + 1) % Word
    /\ poolNext' = poolNext + PageUp(size)
    /\ UNCHANGED <<call, gpu, drm>>

\* bo_find, through handle_mmap_bo and handle_get_bo_offset: they change
\* nothing and answer with the object of the handle.
Find(handle) == {slot \in DOMAIN table : table[slot].handle = handle}

\* bo_free: the slot is free again, the memory is lost.
FreeBo(handle) ==
    /\ call = "idle" /\ Find(handle) # {}
    /\ \E slot \in Find(handle) : table' = [s \in DOMAIN table \ {slot} |-> table[s]]
    /\ UNCHANGED <<nextHandle, poolNext, call, gpu, drm>>

-----------------------------------------------------------------------------
(* handle_submit_cl and handle_submit_tfu.  Writing an end address starts  *)
(* an engine; the handler polls until the engine has stopped.              *)

SubmitCl == /\ call = "idle"
            /\ call' = "binning" /\ gpu' = {"bin"}
            /\ UNCHANGED <<bufferVars, drm>>

\* Mutant: the render list is started without waiting for the bin list.
BugNoBinWait == /\ call = "binning"
                /\ call' = "rendering" /\ gpu' = gpu \cup {"render"}
                /\ UNCHANGED <<bufferVars, drm>>

BinPolled == /\ call = "binning" /\ "bin" \notin gpu
             /\ call' = "rendering" /\ gpu' = gpu \cup {"render"}
             /\ UNCHANGED <<bufferVars, drm>>

\* Mutant: the handler submits the job again instead of returning.
BugResubmits == /\ call = "rendering" /\ "render" \notin gpu
                /\ call' = "binning" /\ gpu' = {"bin"}
                /\ UNCHANGED <<bufferVars, drm>>

RenderPolled == /\ call = "rendering" /\ "render" \notin gpu
                /\ call' = "idle"
                /\ UNCHANGED <<bufferVars, gpu, drm>>

SubmitTfu == /\ call = "idle"
             /\ call' = "tfu" /\ gpu' = {"tfu"}
             /\ UNCHANGED <<bufferVars, drm>>

TfuPolled == /\ call = "tfu" /\ "tfu" \notin gpu
             /\ call' = "idle"
             /\ UNCHANGED <<bufferVars, gpu, drm>>

\* The GPU ends a job.
EngineStops == \E engine \in gpu :
                  /\ gpu' = gpu \ {engine}
                  /\ UNCHANGED <<bufferVars, call, drm>>

\* The callback of /pps/cmd/drm_init.
DrmInit == /\ call = "idle"
           /\ drm' \in {"no V3D", "ready"}
           /\ UNCHANGED <<bufferVars, call, gpu>>

Polls == BinPolled \/ RenderPolled \/ TfuPolled

Next == \/ \E size \in Sizes : CreateBo(size)
        \/ \E handle \in 1 .. MaxCreates : FreeBo(handle)
        \/ SubmitCl \/ SubmitTfu \/ Polls \/ EngineStops \/ DrmInit

Spec == Init /\ [][Next]_vars
\* The GPU ends every job it is given, and the handler keeps polling.
FairSpec == Spec /\ WF_vars(EngineStops) /\ WF_vars(Polls)

-----------------------------------------------------------------------------
Objects == {table[slot] : slot \in DOMAIN table}
Overlap(a, b, c, d) == a < d /\ c < b

TypeOK == /\ DOMAIN table \subseteq 1 .. Slots
          /\ \A slot \in DOMAIN table :
                table[slot] \in [handle : Nat, size : Nat, addr : Nat, wanted : Sizes]
          /\ nextHandle \in 1 .. MaxCreates + 1
          /\ poolNext \in PoolBase .. PoolEnd
          /\ call \in {"idle", "binning", "rendering", "tfu"}
          /\ gpu \in SUBSET {"bin", "render", "tfu"}
          /\ drm \in {"none", "no V3D", "ready"}

\* A handle names one object, and it was given out ("Unique handle returned to
\* userspace").
HandlesUnique ==
    /\ \A s, t \in DOMAIN table : table[s].handle = table[t].handle => s = t
    /\ \A slot \in DOMAIN table : table[slot].handle < nextHandle

\* The objects in use lie in the pool, below the pool pointer, and no two
\* share a byte, whatever was freed and in which order the slots were reused.
BuffersApart ==
    /\ \A s \in DOMAIN table : /\ PoolBase <= table[s].addr
                               /\ table[s].addr + table[s].size <= poolNext
    /\ \A s, t \in DOMAIN table :
          s # t => ~Overlap(table[s].addr, table[s].addr + table[s].size,
                            table[t].addr, table[t].addr + table[t].size)

\* An object is as long as asked, unless rounding it up wraps (drmmgr.cpp:141).
CoversUnlessWrapped == \A slot \in DOMAIN table :
    table[slot].wanted + (Page - 1) < Word => table[slot].size >= table[slot].wanted

\* The render engine never starts on a bin list that is not finished, and when
\* a call has returned the GPU is idle ("Synchronous submit means BO is idle
\* when submit returns").
SubmitSynchronous == /\ call = "idle" => gpu = {}
                     /\ ~({"bin", "render"} \subseteq gpu)

\* Only the engine the handler polls for may run.
JobOfCall == gpu \subseteq CASE call = "idle" -> {}
                            [] call = "binning" -> {"bin"}
                            [] call = "rendering" -> {"render"}
                            [] call = "tfu" -> {"tfu"}

\* The inductive invariant: what the proofs need, whole pages left out.
IInv == TypeOK /\ HandlesUnique /\ BuffersApart /\ JobOfCall

\* Every submit call returns, if the GPU ends its jobs.
SubmitReturns == call # "idle" ~> call = "idle"

\* What Mesa sees: handles that keep their buffer until they are closed.
Handles == {table[slot].handle : slot \in DOMAIN table}
Buffer(h) == LET slot == CHOOSE slot \in DOMAIN table : table[slot].handle = h
             IN  [addr |-> table[slot].addr, size |-> table[slot].size]
bound == [h \in Handles |-> Buffer(h)]

Gem == INSTANCE GemHandles WITH buffers <- bound
GemSpec == Gem!Spec
=============================================================================
