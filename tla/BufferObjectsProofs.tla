------------------------ MODULE BufferObjectsProofs ------------------------
(***************************************************************************)
(* Proofs about the buffer objects, for every table, pool, page and word   *)
(* size: IInv is inductive, and whatever a step does to the table is a     *)
(* creation, a closing or a stutter of GemHandles.                         *)
(***************************************************************************)
EXTENDS BufferObjects, TLAPS

\* The rounded size is a natural: rounding down after the wrap cannot go below
\* zero.
LEMMA PageUpNat == ASSUME NEW size \in Sizes PROVE PageUp(size) \in Nat
<1> DEFINE s == (size + (Page - 1)) % Word
<1>1. size \in Nat /\ Page \in Nat \ {0} /\ Word \in Nat \ {0}
  BY BufferAssumption
<1>2. s \in Nat
  BY <1>1
<1>3. PageUp(size) = s - (s % Page)
  BY DEF PageUp
<1> HIDE DEF s
<1>4. s % Page \in Nat /\ s % Page <= s
  BY <1>1, <1>2
<1>5. QED
  BY <1>2, <1>3, <1>4

\* The bound on creations keeps the handles below the word, so none wraps.
LEMMA HandleBelowWord ==
  ASSUME NEW n \in 1 .. MaxCreates PROVE (n + 1) % Word = n + 1
<1>1. n + 1 \in Nat /\ Word \in Nat \ {0} /\ n + 1 < Word
  BY BufferAssumption
<1>2. QED
  BY <1>1

\* The numbers of a state.
LEMMA Counters ==
  ASSUME TypeOK
  PROVE  /\ nextHandle \in Nat /\ 1 <= nextHandle /\ nextHandle <= MaxCreates + 1
         /\ poolNext \in Nat /\ PoolBase <= poolNext /\ poolNext <= PoolEnd
         /\ MaxCreates \in Nat /\ PoolBase \in Nat /\ PoolEnd \in Nat
<1>1. nextHandle \in 1 .. MaxCreates + 1 /\ poolNext \in PoolBase .. PoolEnd
  BY DEF TypeOK
<1>2. MaxCreates \in Nat /\ PoolBase \in Nat /\ PoolEnd \in Nat
  BY BufferAssumption DEF PoolEnd
<1>3. QED
  BY <1>1, <1>2

\* The numbers of an object in use.
LEMMA ObjectFields ==
  ASSUME TypeOK, NEW slot \in DOMAIN table
  PROVE  /\ table[slot].handle \in Nat /\ table[slot].addr \in Nat
         /\ table[slot].size \in Nat
<1>1. table[slot] \in [handle : Nat, size : Nat, addr : Nat, wanted : Sizes]
  BY DEF TypeOK
<1>2. QED
  BY <1>1

\* What creating an object does to the table: one free slot gets the object, the
\* others keep theirs.
LEMMA CreateFacts ==
  ASSUME IInv, NEW size \in Sizes, CreateBo(size)
  PROVE  \E slot \in 1 .. Slots :
            /\ slot \notin DOMAIN table
            /\ DOMAIN table' = DOMAIN table \cup {slot}
            /\ table'[slot] = [handle |-> nextHandle, size |-> PageUp(size),
                               addr |-> poolNext, wanted |-> size]
            /\ \A s \in DOMAIN table : table'[s] = table[s]
<1>1. PICK slot \in 1 .. Slots :
         /\ IsFirstFree(slot)
         /\ table' = InSlot(slot, Object(nextHandle, PageUp(size), poolNext, size))
  BY DEF CreateBo
<1>2. slot \notin DOMAIN table
  BY <1>1 DEF IsFirstFree, FreeSlots
<1>3. QED
  BY <1>1, <1>2 DEF InSlot, Object

\* What freeing does to it: one slot is emptied.
LEMMA FreeFacts ==
  ASSUME NEW handle, FreeBo(handle)
  PROVE  \E slot \in DOMAIN table :
            /\ table[slot].handle = handle
            /\ DOMAIN table' = DOMAIN table \ {slot}
            /\ \A s \in DOMAIN table' : table'[s] = table[s]
BY DEF FreeBo, Find

-----------------------------------------------------------------------------
LEMMA InitIInv == Init => IInv
<1> SUFFICES ASSUME Init PROVE IInv
  OBVIOUS
<1>1. DOMAIN table = {}
  BY DEF Init
<1>2. PoolBase \in PoolBase .. PoolEnd /\ 1 \in 1 .. MaxCreates + 1
  BY BufferAssumption DEF PoolEnd
<1>3. TypeOK
  BY <1>1, <1>2 DEF Init, TypeOK
<1>4. HandlesUnique /\ BuffersApart
  BY <1>1 DEF HandlesUnique, BuffersApart
<1>5. JobOfCall
  BY DEF Init, JobOfCall
<1>6. QED
  BY <1>3, <1>4, <1>5 DEF IInv

\* The new object takes the next handle and the memory from the pool pointer on,
\* above everything in use.
LEMMA CreateIInv == ASSUME IInv, NEW size \in Sizes, CreateBo(size) PROVE IInv'
<1>1. PICK slot \in 1 .. Slots :
         /\ slot \notin DOMAIN table
         /\ DOMAIN table' = DOMAIN table \cup {slot}
         /\ table'[slot] = [handle |-> nextHandle, size |-> PageUp(size),
                            addr |-> poolNext, wanted |-> size]
         /\ \A s \in DOMAIN table : table'[s] = table[s]
  BY CreateFacts
<1>2. PageUp(size) \in Nat
  BY PageUpNat
<1>3. /\ nextHandle \in Nat /\ 1 <= nextHandle /\ nextHandle <= MaxCreates
      /\ poolNext \in Nat /\ PoolBase <= poolNext
      /\ MaxCreates \in Nat /\ PoolBase \in Nat /\ PoolEnd \in Nat
  BY Counters DEF CreateBo, IInv
<1>4. /\ nextHandle' = nextHandle + 1
      /\ poolNext' = poolNext + PageUp(size) /\ poolNext + PageUp(size) <= PoolEnd
      /\ UNCHANGED <<call, gpu, drm>>
  <2>1. nextHandle \in 1 .. MaxCreates
    BY <1>3
  <2>2. (nextHandle + 1) % Word = nextHandle + 1
    BY <2>1, HandleBelowWord
  <2>3. QED
    BY <2>2 DEF CreateBo, Available
<1>5. TypeOK'
  <2>1. table'[slot] \in [handle : Nat, size : Nat, addr : Nat, wanted : Sizes]
    BY <1>1, <1>2, <1>3
  <2>2. DOMAIN table' \subseteq 1 .. Slots
        /\ \A s \in DOMAIN table' :
              table'[s] \in [handle : Nat, size : Nat, addr : Nat, wanted : Sizes]
    BY <2>1, <1>1 DEF IInv, TypeOK
  <2>3. nextHandle' \in 1 .. MaxCreates + 1 /\ poolNext' \in PoolBase .. PoolEnd
    BY <1>2, <1>3, <1>4
  <2>4. PoolEnd' = PoolEnd
    BY DEF PoolEnd
  <2>5. QED
    BY <2>2, <2>3, <2>4, <1>4 DEF IInv, TypeOK
<1>6. HandlesUnique'
  <2>1. \A s \in DOMAIN table : table[s].handle \in Nat /\ table[s].handle < nextHandle
    BY ObjectFields DEF IInv, HandlesUnique
  <2>2. \A s \in DOMAIN table' : table'[s].handle < nextHandle'
    BY <2>1, <1>1, <1>3, <1>4
  <2>3. \A s, t \in DOMAIN table' : table'[s].handle = table'[t].handle => s = t
    BY <2>1, <1>1, <1>3 DEF IInv, HandlesUnique
  <2>4. QED
    BY <2>2, <2>3 DEF HandlesUnique
<1>7. BuffersApart'
  <2>1. \A s \in DOMAIN table : /\ table[s].addr \in Nat /\ table[s].size \in Nat
                                /\ PoolBase <= table[s].addr
                                /\ table[s].addr + table[s].size <= poolNext
    BY ObjectFields DEF IInv, BuffersApart
  <2>2. \A s \in DOMAIN table' : /\ PoolBase <= table'[s].addr
                                 /\ table'[s].addr + table'[s].size <= poolNext'
    <3>1. ASSUME NEW s \in DOMAIN table
          PROVE  /\ PoolBase <= table'[s].addr
                 /\ table'[s].addr + table'[s].size <= poolNext'
      BY <2>1, <1>1, <1>2, <1>3, <1>4
    <3>2. /\ PoolBase <= table'[slot].addr
          /\ table'[slot].addr + table'[slot].size <= poolNext'
      BY <1>1, <1>2, <1>3, <1>4
    <3>3. QED
      BY <3>1, <3>2, <1>1
  <2>3. ASSUME NEW s \in DOMAIN table', NEW t \in DOMAIN table', s # t
        PROVE  ~Overlap(table'[s].addr, table'[s].addr + table'[s].size,
                        table'[t].addr, table'[t].addr + table'[t].size)
    <3>1. CASE s \in DOMAIN table /\ t \in DOMAIN table
      BY <3>1, <2>3, <1>1 DEF IInv, BuffersApart
    <3>2. CASE s = slot /\ t \in DOMAIN table
      BY <3>2, <2>1, <1>1, <1>2, <1>3 DEF Overlap
    <3>3. CASE t = slot /\ s \in DOMAIN table
      BY <3>3, <2>1, <1>1, <1>2, <1>3 DEF Overlap
    <3>4. QED
      BY <3>1, <3>2, <3>3, <2>3, <1>1
  <2>4. QED
    BY <2>2, <2>3 DEF BuffersApart
<1>8. JobOfCall'
  BY <1>4 DEF IInv, JobOfCall
<1>9. QED
  BY <1>5, <1>6, <1>7, <1>8 DEF IInv

\* A table with one object less, and the same pool pointer.
LEMMA FreeIInv == ASSUME IInv, NEW handle, FreeBo(handle) PROVE IInv'
<1>1. PICK slot \in DOMAIN table :
         /\ table[slot].handle = handle
         /\ DOMAIN table' = DOMAIN table \ {slot}
         /\ \A s \in DOMAIN table' : table'[s] = table[s]
  BY FreeFacts
<1>2. UNCHANGED <<nextHandle, poolNext, call, gpu, drm>>
  BY DEF FreeBo
<1>3. TypeOK'
  BY <1>1, <1>2 DEF IInv, TypeOK, PoolEnd
<1>4. HandlesUnique' /\ BuffersApart'
  BY <1>1, <1>2 DEF IInv, HandlesUnique, BuffersApart
<1>5. JobOfCall'
  BY <1>2 DEF IInv, JobOfCall
<1>6. QED
  BY <1>3, <1>4, <1>5 DEF IInv

\* Submitting, polling and the GPU leave the table alone, and run one engine at
\* a time.
LEMMA SubmitIInv ==
  ASSUME IInv,
         \/ SubmitCl \/ SubmitTfu \/ Polls \/ EngineStops \/ DrmInit
         \/ UNCHANGED vars
  PROVE  IInv'
<1>1. UNCHANGED bufferVars
  BY DEF SubmitCl, SubmitTfu, Polls, BinPolled, RenderPolled, TfuPolled, EngineStops,
         DrmInit, vars
<1>2. HandlesUnique' /\ BuffersApart'
  BY <1>1 DEF IInv, HandlesUnique, BuffersApart, bufferVars
<1>3. /\ call' \in {"idle", "binning", "rendering", "tfu"}
      /\ gpu' \in SUBSET {"bin", "render", "tfu"}
      /\ drm' \in {"none", "no V3D", "ready"}
      /\ JobOfCall'
  <2> USE DEF IInv, TypeOK, JobOfCall
  <2>1. CASE SubmitCl
    BY <2>1 DEF SubmitCl
  <2>2. CASE SubmitTfu
    BY <2>2 DEF SubmitTfu
  <2>3. CASE BinPolled
    BY <2>3 DEF BinPolled
  <2>4. CASE RenderPolled
    BY <2>4 DEF RenderPolled
  <2>5. CASE TfuPolled
    BY <2>5 DEF TfuPolled
  <2>6. CASE EngineStops
    BY <2>6 DEF EngineStops
  <2>7. CASE DrmInit
    BY <2>7 DEF DrmInit
  <2>8. CASE UNCHANGED vars
    BY <2>8 DEF vars
  <2>9. QED
    BY <2>1, <2>2, <2>3, <2>4, <2>5, <2>6, <2>7, <2>8 DEF Polls
<1>4. TypeOK'
  BY <1>1, <1>3 DEF IInv, TypeOK, bufferVars, PoolEnd
<1>5. QED
  BY <1>2, <1>3, <1>4 DEF IInv

\* No call of the DRM manager and no step of the GPU leaves IInv.
THEOREM Invariance == Spec => []IInv
<1>1. IInv /\ [Next]_vars => IInv'
  BY CreateIInv, FreeIInv, SubmitIInv DEF Next
<1>2. QED
  BY InitIInv, <1>1, PTL DEF Spec

\* The table, the counters and the pool pointer stay in range: in particular
\* the pool pointer never passes the end of the pool.
THEOREM TypeCorrect == Spec => []TypeOK
<1>1. IInv => TypeOK
  BY DEF IInv
<1>2. QED
  BY <1>1, Invariance, PTL

\* bo_find's first match is the only one.
THEOREM HandlesAreUnique == Spec => []HandlesUnique
<1>1. IInv => HandlesUnique
  BY DEF IInv
<1>2. QED
  BY <1>1, Invariance, PTL

\* Slots are reused, memory is not: no two objects in use share a byte.
THEOREM BuffersDisjoint == Spec => []BuffersApart
<1>1. IInv => BuffersApart
  BY DEF IInv
<1>2. QED
  BY <1>1, Invariance, PTL

\* Rendering starts after binning, and a call that has returned leaves an idle
\* GPU, which is what lets wait_bo do nothing.
THEOREM Synchronous == Spec => []SubmitSynchronous
<1>1. IInv => SubmitSynchronous
  BY DEF IInv, TypeOK, JobOfCall, SubmitSynchronous
<1>2. QED
  BY <1>1, Invariance, PTL

\* Rounding up to whole pages takes away less than the page it has added.
LEMMA PageUpCovers ==
  ASSUME NEW size \in Sizes, size + (Page - 1) < Word PROVE size <= PageUp(size)
<1> DEFINE s == size + (Page - 1)
<1>1. size \in Nat /\ Page \in Nat \ {0} /\ Word \in Nat \ {0}
  BY BufferAssumption
<1>2. s \in Nat /\ s % Word = s /\ size = s - (Page - 1)
  BY <1>1
<1>3. PageUp(size) = s - (s % Page)
  BY <1>2 DEF PageUp
<1> HIDE DEF s
<1>4. s % Page \in 0 .. Page - 1
  BY <1>1, <1>2
<1>5. QED
  BY <1>1, <1>2, <1>3, <1>4

\* Whoever maps an object may use as many bytes as were asked for, unless the
\* size was in the last page of the 32-bit word (drmmgr.cpp:141).
THEOREM ObjectsCover == Spec => []CoversUnlessWrapped
<1>1. Init => CoversUnlessWrapped
  BY DEF Init, CoversUnlessWrapped
<1>2. ASSUME CoversUnlessWrapped, IInv, [Next]_vars PROVE CoversUnlessWrapped'
  <2>1. CASE \E size \in Sizes : CreateBo(size)
    <3>1. PICK size \in Sizes : CreateBo(size)
      BY <2>1
    <3>2. PICK slot \in 1 .. Slots :
             /\ DOMAIN table' = DOMAIN table \cup {slot}
             /\ table'[slot] = [handle |-> nextHandle, size |-> PageUp(size),
                                addr |-> poolNext, wanted |-> size]
             /\ \A s \in DOMAIN table : s # slot => table'[s] = table[s]
      BY <1>2, <3>1, CreateFacts
    <3>3. size \in Nat /\ PageUp(size) \in Nat
      BY BufferAssumption, PageUpNat
    <3>4. QED
      BY <1>2, <3>2, <3>3, PageUpCovers DEF CoversUnlessWrapped
  <2>2. CASE \E handle : FreeBo(handle)
    BY <1>2, <2>2, FreeFacts DEF CoversUnlessWrapped
  <2>3. CASE UNCHANGED bufferVars
    BY <1>2, <2>3 DEF CoversUnlessWrapped, bufferVars
  <2>4. QED
    BY <1>2, <2>1, <2>2, <2>3
       DEF Next, SubmitCl, SubmitTfu, Polls, BinPolled, RenderPolled, TfuPolled, EngineStops,
           DrmInit, vars
<1>3. QED
  BY <1>1, <1>2, Invariance, PTL DEF Spec

-----------------------------------------------------------------------------
\* With unique handles, a handle is bound to the object of its slot.
LEMMA BoundOfSlot ==
  ASSUME HandlesUnique, NEW slot \in DOMAIN table
  PROVE  /\ table[slot].handle \in DOMAIN bound
         /\ bound[table[slot].handle] = [addr |-> table[slot].addr,
                                         size |-> table[slot].size]
<1> DEFINE h == table[slot].handle
<1>1. h \in Handles
  BY DEF Handles
<1>2. (CHOOSE s \in DOMAIN table : table[s].handle = h) = slot
  BY DEF HandlesUnique
<1>3. QED
  BY <1>1, <1>2 DEF bound, Buffer

\* The same after a step.
LEMMA BoundOfSlotNext ==
  ASSUME HandlesUnique', NEW slot \in DOMAIN table'
  PROVE  /\ table'[slot].handle \in DOMAIN bound'
         /\ bound'[table'[slot].handle] = [addr |-> table'[slot].addr,
                                           size |-> table'[slot].size]
<1> DEFINE h == table'[slot].handle
<1>1. h \in Handles'
  BY DEF Handles
<1>2. (CHOOSE s \in DOMAIN table' : table'[s].handle = h) = slot
  BY DEF HandlesUnique
<1>3. QED
  BY <1>1, <1>2 DEF bound, Buffer

\* Every bound handle is some slot's.
LEMMA SlotOfBound ==
  /\ \A h \in DOMAIN bound : \E slot \in DOMAIN table : table[slot].handle = h
  /\ \A h \in DOMAIN bound' : \E slot \in DOMAIN table' : table'[slot].handle = h
BY DEF bound, Handles

\* bo_alloc binds a new handle to memory of its own.
LEMMA CreateRefines ==
  ASSUME IInv, IInv', NEW size \in Sizes, CreateBo(size) PROVE Gem!Create
<1>1. PICK slot \in 1 .. Slots :
         /\ slot \notin DOMAIN table
         /\ DOMAIN table' = DOMAIN table \cup {slot}
         /\ table'[slot] = [handle |-> nextHandle, size |-> PageUp(size),
                            addr |-> poolNext, wanted |-> size]
         /\ \A s \in DOMAIN table : table'[s] = table[s]
  BY CreateFacts
<1>2. HandlesUnique /\ HandlesUnique' /\ nextHandle \in Nat
  BY Counters DEF IInv
<1>3. nextHandle \in DOMAIN bound'
      /\ bound'[nextHandle] = [addr |-> poolNext, size |-> PageUp(size)]
  BY <1>1, <1>2, BoundOfSlotNext
<1>4. nextHandle \notin DOMAIN bound
  <2>1. \A s \in DOMAIN table : table[s].handle \in Nat /\ table[s].handle < nextHandle
    BY ObjectFields DEF IInv, HandlesUnique
  <2>2. QED
    BY <2>1, <1>2, SlotOfBound
<1>5. ASSUME NEW k \in DOMAIN bound
      PROVE  /\ k \in DOMAIN bound' /\ bound'[k] = bound[k]
             /\ Gem!Apart(bound'[nextHandle], bound[k])
  <2>1. PICK s \in DOMAIN table : table[s].handle = k
    BY SlotOfBound
  <2>2. bound[k] = [addr |-> table[s].addr, size |-> table[s].size]
    BY <2>1, <1>2, BoundOfSlot
  <2>3. k \in DOMAIN bound' /\ bound'[k] = bound[k]
    BY <2>1, <2>2, <1>1, <1>2, BoundOfSlotNext
  <2>4. table[s].addr + table[s].size <= poolNext
    BY DEF IInv, BuffersApart
  <2>5. QED
    BY <2>2, <2>3, <2>4, <1>3 DEF Gem!Apart
<1>6. DOMAIN bound' = DOMAIN bound \cup {nextHandle}
  <2>1. ASSUME NEW k \in DOMAIN bound' PROVE k \in DOMAIN bound \cup {nextHandle}
    <3>1. PICK s \in DOMAIN table' : table'[s].handle = k
      BY SlotOfBound
    <3>2. CASE s = slot
      BY <3>1, <3>2, <1>1
    <3>3. CASE s \in DOMAIN table
      BY <3>1, <3>3, <1>1, <1>2, BoundOfSlot
    <3>4. QED
      BY <3>2, <3>3, <1>1
  <2>2. QED
    BY <2>1, <1>3, <1>5
<1>7. QED
  BY <1>3, <1>4, <1>5, <1>6 DEF Gem!Create

\* bo_free unbinds one handle.
LEMMA FreeRefines ==
  ASSUME IInv, IInv', NEW handle, FreeBo(handle) PROVE Gem!Close
<1>1. PICK slot \in DOMAIN table :
         /\ table[slot].handle = handle
         /\ DOMAIN table' = DOMAIN table \ {slot}
         /\ \A s \in DOMAIN table' : table'[s] = table[s]
  BY FreeFacts
<1>2. HandlesUnique /\ HandlesUnique'
  BY DEF IInv
<1>3. handle \in DOMAIN bound
  BY <1>1, <1>2, BoundOfSlot
<1>4. ASSUME NEW k \in DOMAIN bound'
      PROVE  k \in DOMAIN bound \ {handle} /\ bound'[k] = bound[k]
  <2>1. PICK s \in DOMAIN table' : table'[s].handle = k
    BY SlotOfBound
  <2>2. s \in DOMAIN table /\ table[s].handle = k /\ s # slot
    BY <2>1, <1>1
  <2>3. k # handle
    BY <2>2, <1>1, <1>2 DEF HandlesUnique
  <2>4. k \in DOMAIN bound /\ bound[k] = [addr |-> table[s].addr, size |-> table[s].size]
    BY <2>2, <1>2, BoundOfSlot
  <2>5. bound'[k] = [addr |-> table'[s].addr, size |-> table'[s].size]
    BY <2>1, <1>2, BoundOfSlotNext
  <2>6. QED
    BY <2>1, <2>3, <2>4, <2>5, <1>1
<1>5. ASSUME NEW k \in DOMAIN bound \ {handle} PROVE k \in DOMAIN bound'
  <2>1. PICK s \in DOMAIN table : table[s].handle = k
    BY SlotOfBound
  <2>2. s \in DOMAIN table' /\ table'[s].handle = k
    BY <2>1, <1>1, <1>5
  <2>3. QED
    BY <2>2, <1>2, BoundOfSlotNext
<1>6. DOMAIN bound' = DOMAIN bound \ {handle}
  BY <1>4, <1>5
<1>7. bound' = [k \in DOMAIN bound \ {handle} |-> bound[k]]
  <2>1. bound' = [k \in DOMAIN bound' |-> bound'[k]]
    BY DEF bound
  <2>2. QED
    BY <2>1, <1>4, <1>6
<1>8. QED
  BY <1>3, <1>7 DEF Gem!Close

\* Every step of the DRM manager is a creation, a closing or a stutter of what
\* its user is promised.
THEOREM Refinement == Spec => GemSpec
<1>1. Init => Gem!Init
  BY DEF Init, Gem!Init, bound, Handles
<1>2. IInv /\ IInv' /\ [Next]_vars => [Gem!Create \/ Gem!Close]_bound
  <2> SUFFICES ASSUME IInv, IInv', [Next]_vars
               PROVE  Gem!Create \/ Gem!Close \/ UNCHANGED bound
    OBVIOUS
  <2>1. CASE \E size \in Sizes : CreateBo(size)
    BY <2>1, CreateRefines
  <2>2. CASE \E handle \in 1 .. MaxCreates : FreeBo(handle)
    BY <2>2, FreeRefines
  <2>3. CASE SubmitCl \/ SubmitTfu \/ Polls \/ EngineStops \/ DrmInit \/ UNCHANGED vars
    <3>1. UNCHANGED table
      BY <2>3 DEF SubmitCl, SubmitTfu, Polls, BinPolled, RenderPolled, TfuPolled,
                  EngineStops, DrmInit, vars, bufferVars
    <3>2. QED
      BY <3>1 DEF bound, Handles, Buffer
  <2>4. QED
    BY <2>1, <2>2, <2>3 DEF Next
<1>3. QED
  BY Invariance, <1>1, <1>2, PTL DEF Spec, GemSpec, Gem!Spec

-----------------------------------------------------------------------------
\* Engines that run stop one after the other, and a handler that may go on
\* does: weak fairness with the guards of the actions written out.
EnginesStop == []<>(gpu = {}) \/ []<><<EngineStops>>_vars
MayPoll == \/ call = "binning" /\ "bin" \notin gpu
           \/ call = "rendering" /\ "render" \notin gpu
           \/ call = "tfu" /\ "tfu" \notin gpu
HandlerPolls == []<>~MayPoll \/ []<><<Polls>>_vars

\* In a call whose engine runs, and in one whose engine has stopped.
Busy(c) == JobOfCall /\ call = c /\ gpu # {}
Done(c) == JobOfCall /\ call = c /\ gpu = {}

LEMMA EngineStep == ASSUME NEW c \in {"binning", "rendering", "tfu"}, Busy(c), [Next]_vars
                    PROVE  /\ Busy(c)' \/ Done(c)'
                           /\ <<EngineStops>>_vars => Done(c)'
<1>1. gpu = {"bin"} \/ gpu = {"render"} \/ gpu = {"tfu"}
  BY DEF Busy, JobOfCall
<1>2. CASE EngineStops
  <2>1. gpu' = {} /\ call' = call
    BY <1>1, <1>2 DEF EngineStops
  <2> QED
    BY <2>1 DEF Busy, Done, JobOfCall
<1>3. ASSUME ~EngineStops PROVE gpu' = gpu /\ call' = call
  BY <1>1, <1>3 DEF Busy, JobOfCall, Next, vars, bufferVars, CreateBo, FreeBo, SubmitCl,
                    SubmitTfu, Polls, BinPolled, RenderPolled, TfuPolled, DrmInit
<1>4. CASE ~EngineStops
  BY <1>3, <1>4 DEF Busy, Done, JobOfCall
<1> QED
  BY <1>2, <1>4

LEMMA PollStep == ASSUME NEW c \in {"binning", "rendering", "tfu"}, Done(c), [Next]_vars
                  PROVE  /\ Done(c)' \/ (c = "binning" /\ Busy("rendering")') \/ call' = "idle"
                         /\ Polls => ~Done(c)'
<1>1. CASE BinPolled
  <2>1. c = "binning" /\ call' = "rendering" /\ gpu' = {"render"}
    BY <1>1 DEF Done, BinPolled
  <2> QED
    BY <2>1 DEF Busy, Done, JobOfCall
<1>2. CASE RenderPolled \/ TfuPolled
  BY <1>2 DEF Done, RenderPolled, TfuPolled
<1>3. CASE ~Polls
  <2>1. gpu' = gpu /\ call' = call
    BY <1>3 DEF Done, Next, vars, bufferVars, CreateBo, FreeBo, SubmitCl, SubmitTfu, EngineStops,
                DrmInit
  <2> QED
    BY <1>3, <2>1 DEF Done, JobOfCall
<1> QED
  BY <1>1, <1>2, <1>3 DEF Polls

\* Every submit call returns, whatever the tables hold and the sizes are, if the
\* GPU ends its jobs and the handler goes on polling (drmmgr.cpp:248).
THEOREM CallsReturn == Spec /\ EnginesStop /\ HandlerPolls => SubmitReturns
<1>1. /\ Busy("binning") /\ [Next]_vars => Busy("binning")' \/ Done("binning")'
      /\ Busy("rendering") /\ [Next]_vars => Busy("rendering")' \/ Done("rendering")'
      /\ Busy("tfu") /\ [Next]_vars => Busy("tfu")' \/ Done("tfu")'
  BY EngineStep
<1>2. /\ Busy("binning") /\ [Next]_vars /\ <<EngineStops>>_vars => Done("binning")'
      /\ Busy("rendering") /\ [Next]_vars /\ <<EngineStops>>_vars => Done("rendering")'
      /\ Busy("tfu") /\ [Next]_vars /\ <<EngineStops>>_vars => Done("tfu")'
  BY EngineStep
<1>3. /\ Done("binning") /\ [Next]_vars => Done("binning")' \/ Busy("rendering")' \/ (call = "idle")'
      /\ Done("rendering") /\ [Next]_vars => Done("rendering")' \/ (call = "idle")'
      /\ Done("tfu") /\ [Next]_vars => Done("tfu")' \/ (call = "idle")'
  BY PollStep
<1>4. /\ Done("binning") /\ [Next]_vars /\ <<Polls>>_vars => ~Done("binning")'
      /\ Done("rendering") /\ [Next]_vars /\ <<Polls>>_vars => ~Done("rendering")'
      /\ Done("tfu") /\ [Next]_vars /\ <<Polls>>_vars => ~Done("tfu")'
  BY PollStep
<1>5. /\ Busy("binning") \/ Busy("rendering") \/ Busy("tfu") => ~(gpu = {})
      /\ Done("binning") \/ Done("rendering") \/ Done("tfu") => MayPoll
  BY DEF Busy, Done, MayPoll
<1>6. IInv => \/ call = "idle"
              \/ Busy("binning") \/ Done("binning") \/ Busy("rendering") \/ Done("rendering")
              \/ Busy("tfu") \/ Done("tfu")
  BY DEF Busy, Done, IInv, TypeOK
<1> QED
  BY <1>1, <1>2, <1>3, <1>4, <1>5, <1>6, Invariance, PTL
     DEF Spec, SubmitReturns, EnginesStop, HandlerPolls
=============================================================================
