------------------------------- MODULE MemFs -------------------------------
(***************************************************************************)
(* memfsmgr.cpp: a table of named buffers.  A stored name is the request's *)
(* text up to its first space, at most 63 characters of it: Cut says what  *)
(* is left of each name.  The text of a command is a record of what the    *)
(* handlers may find in it.                                                *)
(***************************************************************************)
EXTENDS Pps, SequencesExt

CONSTANTS Names,     \* the names requests carry
          Cut,       \* what the table keeps of each
          MaxFiles   \* max_files

ASSUME MemFsAssumption == Cut \in [Names -> Names] /\ MaxFiles \in Nat

VARIABLE files  \* the table: entries with a name, a capability and a size

MemFsInit == files = <<>>

TotalBytes(fs) == FoldSeq(LAMBDA f, sum : f.bytes + sum, 0, fs)

MemFsStatus(fs) == <<Pub("memfs/status", "count", Len(fs)),
                     Pub("memfs/status", "bytes", TotalBytes(fs))>>

MemFsMain == MemFsStatus(<<>>) \o <<Subscribe("memfs")>>

\* find_file and memrm stop at the first entry of the name; 0 when it has none.
FindFile(name) == SelectInSeq(files, LAMBDA f : f.name = name)

\* A full table and a request without a space are ignored; a name that is
\* stored already gets a second entry.
Store(request) ==
    IF Len(files) >= MaxFiles \/ ~request.spaced THEN <<>>
    ELSE <<[do |-> "append", file |-> [name |-> Cut[request.name], cap |-> request.cap,
                                       bytes |-> request.bytes]]>>

Load(name) ==
    IF FindFile(name) = 0 THEN <<Pub("memfs/loaded", "error", "not found")>>
    ELSE <<Pub("memfs/loaded", "cap", files[FindFile(name)].cap),
           Pub("memfs/loaded", "name", name)>>

MemLs == <<Pub("memfs/listing", "files",
               [i \in DOMAIN files |-> [name |-> files[i].name, bytes |-> files[i].bytes]])>>

MemRm(name) ==
    IF FindFile(name) = 0 THEN <<>>
    ELSE <<[do |-> "remove", name |-> name, index |-> FindFile(name)]>>

MemFsPaths == {"cmd/store", "cmd/load", "cmd/memls", "cmd/memrm"}

MemFsHandles(n) ==
    CASE n.path = "cmd/store" -> Store(n.value)
      [] n.path = "cmd/load"  -> Load(n.value.name)
      [] n.path = "cmd/memls" -> MemLs
      [] n.path = "cmd/memrm" -> MemRm(n.value.name)

-----------------------------------------------------------------------------
\* Both changes of the table publish the new count and total.
AppendFile == /\ Runs("append")
              /\ files' = Append(files, Now.file)
              /\ Continue(MemFsStatus(files'))
              /\ UNCHANGED <<objects, subs>>

\* Mutant: the count goes down but the entries are not shifted.
BugNoShift == /\ Runs("remove")
              /\ files' = SubSeq(files, 1, Len(files) - 1)
              /\ Continue(MemFsStatus(files'))
              /\ UNCHANGED <<objects, subs>>

RemoveFile == /\ Runs("remove")
              /\ files' = RemoveAt(files, Now.index)
              /\ Continue(MemFsStatus(files'))
              /\ UNCHANGED <<objects, subs>>

MemFsNext == AppendFile \/ RemoveFile
=============================================================================
