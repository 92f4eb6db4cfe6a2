-------------------------- MODULE ImageLayoutProofs --------------------------
(***************************************************************************)
(* The layout of an image, for every number of files, paths and sizes.     *)
(* The invariant ties the second pass to the first: what the directory     *)
(* measured is the last of a series of sums, and the position in the image *)
(* runs through the same series; every place is where the file before it   *)
(* ends, padded, and data never runs ahead of its place.                   *)
(***************************************************************************)
EXTENDS ImageLayout, TLAPS

Files == Len(Packed)
DataStart == HeaderSize + dirSize

\* The sums of the sizes of the first n entries.
IsSum(f, n) == /\ f \in [0..n -> Nat] /\ f[0] = 0
               /\ \A k \in 1..n : f[k] = f[k - 1] + EntryBytes(Packed[k])

\* Where the file behind the k-th goes.
After(k) == IF k = 0 THEN DataStart ELSE Padded(offsets[k] + Packed[k].size)

Types == /\ phase \in {"collect", "measure", "place", "directory", "data", "built"}
         /\ script \in Seq(File) /\ files \in Seq(File) /\ done \in 0..Files
         /\ dirSize \in Nat /\ offsets \in Seq(Nat) /\ fileOffset \in Nat
         /\ position \in Nat /\ solid \in Nat
         /\ directory \in Seq([offset : Nat, size : Nat]) /\ contents \in Seq(Nat)

Collecting == phase = "collect" => done = 0
Unwritten == /\ phase \in {"collect", "measure"} => offsets = <<>>
             /\ phase = "collect" => dirSize = 0
             /\ phase \in {"collect", "measure", "place"} => directory = <<>> /\ position = 0
             /\ phase \in {"collect", "measure", "place", "directory"} => contents = <<>>

Measuring == /\ phase = "measure" => \E f : IsSum(f, done) /\ dirSize = f[done]
             /\ phase \in {"place", "directory"} => \E f : IsSum(f, Files) /\ dirSize = f[Files] + 2

Placing == phase \in {"place", "directory", "data", "built"} =>
              /\ Len(offsets) = IF phase = "place" THEN done ELSE Files
              /\ \A k \in 1..Len(offsets) : offsets[k] = After(k - 1)
              /\ \A k \in 0..Len(offsets) : DataStart <= After(k)
              /\ fileOffset = After(Len(offsets))

Heading == phase \in {"directory", "data", "built"} =>
              header = [imageSize |-> fileOffset + 4, hdrDirSize |-> DataStart]

Entering == phase \in {"directory", "data", "built"} =>
               /\ Len(directory) = IF phase = "directory" THEN done ELSE Files
               /\ \A k \in 1..Len(directory) :
                     directory[k] = [offset |-> offsets[k], size |-> Packed[k].size]

InDirectory == phase = "directory" =>
                  /\ \E f : /\ IsSum(f, Files) /\ dirSize = f[Files] + 2
                            /\ position = HeaderSize + f[done]
                  /\ solid = position

InData == phase = "data" =>
             /\ position = IF done = 0 THEN DataStart ELSE offsets[done] + Packed[done].size
             /\ solid <= position
             /\ Files = 0 => solid = HeaderSize /\ dirSize = 2

Filled == phase \in {"data", "built"} =>
             /\ Len(contents) = IF phase = "data" THEN done ELSE Files
             /\ \A k \in 1..Len(contents) : contents[k] = offsets[k]

Finished == phase = "built" =>
               /\ position = fileOffset + 4
               /\ solid <= fileOffset
               /\ Files = 0 => solid = HeaderSize /\ dirSize = 2

Passes == Measuring /\ Placing /\ Heading /\ Entering
Writes == InDirectory /\ InData /\ Filled /\ Finished
LayoutInv == Types /\ Collecting /\ Unwritten /\ Passes /\ Writes /\ ChecksumValidates

-----------------------------------------------------------------------------
LEMMA PaddedFacts ==
  ASSUME NEW n \in Nat
  PROVE  /\ Padding(n) \in 0..3 /\ Padded(n) \in Nat
         /\ n <= Padded(n) /\ Padded(n) % 4 = 0
  BY DEF Padding, Padded

LEMMA HeaderFacts == HeaderSize \in Nat /\ HeaderSize % 4 = 0
  <1>1. MountPoint \in Nat /\ Fixed \in Nat /\ Fixed % 4 = 0
    BY ImageAssumption
  <1>2. Padded(MountPoint) \in Nat /\ Padded(MountPoint) % 4 = 0
    BY <1>1, PaddedFacts
  <1> QED
    BY <1>1, <1>2 DEF HeaderSize

LEMMA EntryFacts ==
  ASSUME NEW file \in File
  PROVE  EntryBytes(file) \in Nat /\ file.size \in Nat
  <1>1. file.path \in Nat /\ file.size \in Nat /\ Fields \in Nat /\ Counted \in Nat
    BY ImageAssumption DEF File
  <1>2. Padding(Counted + file.path) \in Nat
    BY <1>1, PaddedFacts
  <1> QED
    BY <1>1, <1>2 DEF EntryBytes

LEMMA PackedFacts ==
  ASSUME script \in Seq(File), files \in Seq(File)
  PROVE  /\ Packed \in Seq(File) /\ Files \in Nat
         /\ \A k \in 1..Files : /\ Packed[k] \in File
                                /\ Packed[k].size \in Nat
                                /\ EntryBytes(Packed[k]) \in Nat
  <1>1. Packed \in Seq(File)
    BY DEF Packed
  <1>2. \A k \in 1..Files : Packed[k] \in File
    BY <1>1 DEF Files
  <1> QED
    BY <1>1, <1>2, EntryFacts DEF Files

\* A series of sums is longer by one entry.
LEMMA SumGrows ==
  ASSUME NEW n \in Nat, NEW f, IsSum(f, n), EntryBytes(Packed[n + 1]) \in Nat
  PROVE  \E g : IsSum(g, n + 1) /\ g[n + 1] = f[n] + EntryBytes(Packed[n + 1])
  <1> DEFINE g == [k \in 0..(n + 1) |-> IF k = n + 1 THEN f[n] + EntryBytes(Packed[n + 1]) ELSE f[k]]
  <1>1. f \in [0..n -> Nat] /\ f[0] = 0 /\ \A k \in 1..n : f[k] = f[k - 1] + EntryBytes(Packed[k])
    BY DEF IsSum
  <1>2. g \in [0..(n + 1) -> Nat] /\ g[0] = 0 /\ g[n + 1] = f[n] + EntryBytes(Packed[n + 1])
    BY <1>1
  <1>3. ASSUME NEW k \in 1..(n + 1) PROVE g[k] = g[k - 1] + EntryBytes(Packed[k])
    <2>1. CASE k = n + 1
      BY <2>1
    <2>2. CASE k # n + 1
      BY <2>2, <1>1
    <2> QED
      BY <2>1, <2>2
  <1>4. IsSum(g, n + 1)
    <2> HIDE DEF g
    <2> QED
      BY <1>2, <1>3 DEF IsSum
  <1> QED
    BY <1>2, <1>4

-----------------------------------------------------------------------------
THEOREM LayoutInit == Init => LayoutInv
  <1> SUFFICES ASSUME Init PROVE LayoutInv
    OBVIOUS
  <1> USE DEF Init
  <1>1. Types
    BY DEF Types, Files, Packed
  <1>2. Collecting /\ Unwritten
    BY DEF Collecting, Unwritten
  <1>3. Passes
    BY DEF Passes, Measuring, Placing, Heading, Entering
  <1>4. Writes /\ ChecksumValidates
    BY DEF Writes, InDirectory, InData, Filled, Finished, ChecksumValidates
  <1> QED
    BY <1>1, <1>2, <1>3, <1>4 DEF LayoutInv

\* Collecting touches the input only, of which nothing is said before the end.
LEMMA CollectKeeps ==
  ASSUME LayoutInv, CollectFile \/ CollectScript PROVE LayoutInv'
  <1>1. Types /\ phase = "collect" /\ phase' = "collect" /\ done = 0 /\ done' = 0
    BY DEF LayoutInv, Collecting, CollectFile, CollectScript
  <1>2. script' \in Seq(File) /\ files' \in Seq(File)
    <2>1. CASE CollectFile
      <3>1. PICK path \in Paths, size \in Sizes : files' = Append(files, [path |-> path, size |-> size])
        BY <2>1 DEF CollectFile
      <3>2. [path |-> path, size |-> size] \in File
        BY DEF File
      <3> QED
        BY <1>1, <2>1, <3>1, <3>2 DEF Types, CollectFile
    <2>2. CASE CollectScript
      <3>1. PICK size \in Sizes : script' = <<[path |-> ScriptPath, size |-> size]>>
        BY <2>2 DEF CollectScript
      <3>2. [path |-> ScriptPath, size |-> size] \in File
        BY DEF File
      <3> QED
        BY <1>1, <2>2, <3>1, <3>2 DEF Types, CollectScript
    <2> QED
      BY <2>1, <2>2
  <1>3. Files' \in Nat
    BY <1>2 DEF Files, Packed
  <1>4. UNCHANGED <<dirSize, offsets, fileOffset, directory, contents, position, solid, verdict>>
    BY DEF CollectFile, CollectScript, planVars, imageVars, dumpVars
  <1>5. Types'
    BY <1>1, <1>2, <1>3, <1>4 DEF Types
  <1>6. Collecting' /\ Unwritten'
    BY <1>1, <1>4 DEF Collecting, Unwritten, LayoutInv
  <1>7. Passes' /\ Writes'
    BY <1>1 DEF Passes, Measuring, Placing, Heading, Entering, Writes, InDirectory, InData, Filled, Finished
  <1>8. ChecksumValidates'
    BY <1>4 DEF ChecksumValidates, LayoutInv
  <1> QED
    BY <1>5, <1>6, <1>7, <1>8 DEF LayoutInv

LEMMA StartMeasuringKeeps ==
  ASSUME LayoutInv, StartMeasuring PROVE LayoutInv'
  <1>1. phase = "collect" /\ phase' = "measure" /\ done' = 0 /\ Packed' = Packed /\ Types
    BY DEF LayoutInv, StartMeasuring, Turn, inputVars, Packed
  <1>2. UNCHANGED <<script, files, dirSize, offsets, fileOffset, directory, contents, position, solid, verdict>>
    BY DEF StartMeasuring, inputVars, planVars, imageVars, dumpVars
  <1>3. Files \in Nat /\ Files' = Files
    BY <1>1, PackedFacts DEF Files, Types
  <1>4. Types' /\ Collecting' /\ Unwritten'
    BY <1>1, <1>2, <1>3 DEF Types, Collecting, Unwritten, LayoutInv
  <1>5. \E f : IsSum(f, 0) /\ f[0] = 0
    <2>1. IsSum([k \in 0..0 |-> 0], 0)
      BY DEF IsSum
    <2> QED
      BY <2>1
  <1>6. Measuring'
    <2>1. dirSize' = 0
      BY <1>1, <1>2 DEF LayoutInv, Unwritten
    <2> QED
      BY <1>1, <1>5, <2>1 DEF Measuring, IsSum
  <1>7. Placing' /\ Heading' /\ Entering' /\ Writes' /\ ChecksumValidates'
    BY <1>1, <1>2 DEF LayoutInv, Placing, Heading, Entering, Writes, InDirectory, InData, Filled, Finished,
                      ChecksumValidates
  <1> QED
    BY <1>4, <1>6, <1>7 DEF LayoutInv, Passes

LEMMA MeasureKeeps ==
  ASSUME LayoutInv, Measure PROVE LayoutInv'
  <1>1. phase = "measure" /\ phase' = "measure" /\ done' = done + 1 /\ done < Files /\ Packed' = Packed /\ Types
    BY DEF LayoutInv, Measure, Each, inputVars, Packed, Files
  <1>2. UNCHANGED <<script, files, offsets, fileOffset, directory, contents, position, solid, verdict>>
    BY DEF Measure, inputVars, imageVars, dumpVars
  <1>3. Files \in Nat /\ Files' = Files /\ done \in Nat /\ done + 1 \in 1..Files
    BY <1>1, PackedFacts DEF Files, Types
  <1>4. EntryBytes(Packed[done + 1]) \in Nat
    BY <1>1, <1>3, PackedFacts DEF Types
  <1>5. dirSize' = dirSize + EntryBytes(Packed[done + 1])
    BY DEF Measure, Measured, Current
  <1>6. Types' /\ Collecting' /\ Unwritten'
    BY <1>1, <1>2, <1>3, <1>4, <1>5 DEF Types, Collecting, Unwritten, LayoutInv
  <1>7. PICK f : IsSum(f, done) /\ dirSize = f[done]
    BY <1>1 DEF LayoutInv, Passes, Measuring
  <1>8. PICK g : IsSum(g, done + 1) /\ g[done + 1] = f[done] + EntryBytes(Packed[done + 1])
    BY <1>3, <1>4, <1>7, SumGrows
  <1>9. Measuring'
    BY <1>1, <1>5, <1>7, <1>8 DEF Measuring, IsSum
  <1>10. Placing' /\ Heading' /\ Entering' /\ Writes' /\ ChecksumValidates'
    BY <1>1, <1>2 DEF LayoutInv, Placing, Heading, Entering, Writes, InDirectory, InData, Filled, Finished,
                      ChecksumValidates
  <1> QED
    BY <1>6, <1>9, <1>10 DEF LayoutInv, Passes

LEMMA StartPlacingKeeps ==
  ASSUME LayoutInv, StartPlacing PROVE LayoutInv'
  <1>1. phase = "measure" /\ phase' = "place" /\ done' = 0 /\ done = Files /\ Packed' = Packed /\ Types
    BY DEF LayoutInv, StartPlacing, Turn, inputVars, Packed, Files
  <1>2. UNCHANGED <<script, files, offsets, directory, contents, position, solid, verdict>>
    BY DEF StartPlacing, inputVars, imageVars, dumpVars
  <1>3. Files \in Nat /\ Files' = Files /\ dirSize' = dirSize + 2 /\ fileOffset' = HeaderSize + dirSize'
    BY <1>1, PackedFacts DEF Files, Types, StartPlacing
  <1>4. Types' /\ Collecting' /\ Unwritten'
    BY <1>1, <1>2, <1>3, HeaderFacts DEF Types, Collecting, Unwritten, LayoutInv
  <1>5. PICK f : IsSum(f, Files) /\ dirSize = f[Files]
    BY <1>1 DEF LayoutInv, Passes, Measuring
  <1>6. Measuring'
    BY <1>1, <1>3, <1>5 DEF Measuring, IsSum
  <1>7. Placing'
    <2>1. offsets' = <<>> /\ Len(offsets') = 0
      BY <1>1, <1>2 DEF LayoutInv, Unwritten
    <2>2. After(0)' = DataStart' /\ fileOffset' = DataStart' /\ DataStart' \in Nat
      BY <1>3, <1>4, HeaderFacts DEF After, DataStart, Types
    <2> QED
      BY <1>1, <2>1, <2>2 DEF Placing
  <1>8. Heading' /\ Entering' /\ Writes' /\ ChecksumValidates'
    BY <1>1, <1>2 DEF LayoutInv, Heading, Entering, Writes, InDirectory, InData, Filled, Finished, ChecksumValidates
  <1> QED
    BY <1>4, <1>6, <1>7, <1>8 DEF LayoutInv, Passes

LEMMA PlaceKeeps ==
  ASSUME LayoutInv, Place PROVE LayoutInv'
  <1>1. phase = "place" /\ phase' = "place" /\ done' = done + 1 /\ done < Files /\ Packed' = Packed /\ Types
    BY DEF LayoutInv, Place, Each, inputVars, Packed, Files
  <1>2. UNCHANGED <<script, files, dirSize, directory, contents, position, solid, verdict>>
    BY DEF Place, inputVars, imageVars, dumpVars
  <1>3. Files \in Nat /\ Files' = Files /\ done \in Nat /\ done + 1 \in 1..Files
    BY <1>1, PackedFacts DEF Files, Types
  <1>4. Packed[done + 1].size \in Nat /\ fileOffset \in Nat /\ offsets \in Seq(Nat)
    BY <1>1, <1>3, PackedFacts DEF Types
  <1>5. /\ offsets' = Append(offsets, fileOffset)
        /\ fileOffset' = Padded(fileOffset + Packed[done + 1].size)
    BY DEF Place, Current
  <1>6. Len(offsets) = done /\ fileOffset = After(done)
        /\ (\A k \in 1..done : offsets[k] = After(k - 1)) /\ (\A k \in 0..done : DataStart <= After(k))
    BY <1>1 DEF LayoutInv, Passes, Placing
  <1>7. /\ fileOffset' \in Nat /\ fileOffset + Packed[done + 1].size <= fileOffset'
        /\ fileOffset + Packed[done + 1].size \in Nat
    <2>1. fileOffset + Packed[done + 1].size \in Nat
      BY <1>4
    <2> QED
      BY <1>5, <2>1, PaddedFacts
  <1>8. Types' /\ Collecting' /\ Unwritten'
    BY <1>1, <1>2, <1>3, <1>4, <1>5, <1>7 DEF Types, Collecting, Unwritten, LayoutInv
  <1>9. Measuring'
    <2>1. PICK f : IsSum(f, Files) /\ dirSize = f[Files] + 2
      BY <1>1 DEF LayoutInv, Passes, Measuring
    <2> QED
      BY <1>1, <1>2, <1>3, <2>1 DEF Measuring, IsSum
  <1>. PICK n \in Nat : n = done
    BY <1>3
  <1>10. /\ Len(offsets') = n + 1 /\ offsets'[n + 1] = fileOffset
         /\ \A k \in 1..n : offsets'[k] = offsets[k]
    BY <1>3, <1>4, <1>5, <1>6
  <1>11. DataStart' = DataStart /\ DataStart \in Nat
    BY <1>1, <1>2, HeaderFacts DEF DataStart, Types
  <1>12. \A k \in 0..n : After(k)' = After(k)
    BY <1>1, <1>3, <1>10, <1>11 DEF After
  <1>13. After(n + 1)' = fileOffset'
    BY <1>1, <1>3, <1>5, <1>10 DEF After
  <1>14. \A k \in 1..(n + 1) : offsets'[k] = After(k - 1)'
    BY <1>3, <1>6, <1>10, <1>12
  <1>15. \A k \in 0..(n + 1) : DataStart' <= After(k)'
    <2>1. DataStart <= fileOffset
      BY <1>3, <1>6
    <2>2. DataStart <= fileOffset'
      BY <1>4, <1>7, <1>11, <2>1
    <2> QED
      BY <1>3, <1>6, <1>11, <1>12, <1>13, <2>2
  <1>16. Placing'
    BY <1>1, <1>10, <1>13, <1>14, <1>15 DEF Placing
  <1>17. Heading' /\ Entering' /\ Writes' /\ ChecksumValidates'
    BY <1>1, <1>2 DEF LayoutInv, Heading, Entering, Writes, InDirectory, InData, Filled, Finished, ChecksumValidates
  <1> QED
    BY <1>8, <1>9, <1>16, <1>17 DEF LayoutInv, Passes

-----------------------------------------------------------------------------
\* The plan stays what it is while it is written.
LEMMA PlanKept ==
  ASSUME LayoutInv, UNCHANGED <<inputVars, planVars>>,
         phase \in {"place", "directory", "data", "built"}, phase = "place" => done = Files,
         phase' \in {"directory", "data", "built"}
  PROVE  /\ Placing' /\ Collecting' /\ Packed' = Packed /\ Files' = Files /\ DataStart' = DataStart
         /\ Files \in Nat /\ DataStart \in Nat
         /\ Len(offsets) = Files /\ offsets \in Seq(Nat) /\ fileOffset \in Nat
  <1>1. Packed' = Packed /\ Files' = Files /\ DataStart' = DataStart
    BY DEF inputVars, planVars, Packed, Files, DataStart
  <1>2. \A k \in Nat : After(k)' = After(k)
    BY <1>1 DEF After, planVars
  <1>3. /\ Len(offsets) = Files /\ offsets' = offsets /\ fileOffset' = fileOffset
        /\ \A k \in 1..Len(offsets) : offsets[k] = After(k - 1)
        /\ \A k \in 0..Len(offsets) : DataStart <= After(k)
        /\ fileOffset = After(Len(offsets))
    BY DEF LayoutInv, Passes, Placing, planVars
  <1>4. Files \in Nat /\ DataStart \in Nat /\ offsets \in Seq(Nat) /\ fileOffset \in Nat
    BY PackedFacts, HeaderFacts DEF LayoutInv, Types, DataStart
  <1>. PICK n \in Nat : n = Files
    BY <1>4
  <1>5. /\ \A k \in 1..n : offsets'[k] = After(k - 1)'
        /\ \A k \in 0..n : DataStart' <= After(k)'
    BY <1>1, <1>2, <1>3, <1>4
  <1>6. fileOffset' = After(n)'
    BY <1>2, <1>3
  <1>7. Placing'
    BY <1>1, <1>3, <1>5, <1>6 DEF Placing
  <1> QED
    BY <1>1, <1>3, <1>4, <1>7 DEF Collecting

LEMMA WriteHeaderKeeps ==
  ASSUME LayoutInv, WriteHeader PROVE LayoutInv'
  <1>1. phase = "place" /\ phase' = "directory" /\ done' = 0 /\ done = Files /\ Types
    BY DEF LayoutInv, WriteHeader, Turn, Files
  <1>2. UNCHANGED <<inputVars, planVars, script, files, dirSize, offsets, fileOffset, directory, contents, verdict>>
    BY DEF WriteHeader, inputVars, planVars, dumpVars
  <1>3. /\ Placing' /\ Collecting' /\ Packed' = Packed /\ Files' = Files /\ DataStart' = DataStart
        /\ Files \in Nat
    BY <1>1, <1>2, PlanKept
  <1>4. position' = HeaderSize /\ solid' = HeaderSize /\ HeaderSize \in Nat
    <2>1. position = 0
      BY <1>1 DEF LayoutInv, Unwritten
    <2> QED
      BY <2>1, HeaderFacts DEF WriteHeader, Advance
  <1>5. Types' /\ Unwritten'
    BY <1>1, <1>2, <1>3, <1>4 DEF Types, Unwritten, LayoutInv
  <1>6. Heading'
    BY <1>1, <1>2, <1>3 DEF Heading, WriteHeader, DataStart
  <1>7. PICK f : IsSum(f, Files) /\ dirSize = f[Files] + 2
    BY <1>1 DEF LayoutInv, Passes, Measuring
  <1>8. Measuring' /\ InDirectory'
    <2>1. f[0] = 0 /\ position' = HeaderSize + f[0]
      BY <1>4, <1>7 DEF IsSum
    <2>2. IsSum(f, Files)' /\ dirSize' = f[Files'] + 2
      BY <1>2, <1>3, <1>7 DEF IsSum
    <2> QED
      BY <1>1, <1>3, <1>4, <2>1, <2>2 DEF Measuring, InDirectory
  <1>9. Entering'
    <2>1. directory' = <<>>
      BY <1>1, <1>2 DEF LayoutInv, Unwritten
    <2> QED
      BY <1>1, <2>1 DEF Entering
  <1>10. InData' /\ Filled' /\ Finished' /\ ChecksumValidates'
    BY <1>1, <1>2 DEF LayoutInv, InData, Filled, Finished, ChecksumValidates
  <1> QED
    BY <1>3, <1>5, <1>6, <1>8, <1>9, <1>10 DEF LayoutInv, Passes, Writes

LEMMA WriteEntryKeeps ==
  ASSUME LayoutInv, WriteEntry PROVE LayoutInv'
  <1>1. phase = "directory" /\ phase' = "directory" /\ done' = done + 1 /\ done < Files /\ Types
    BY DEF LayoutInv, WriteEntry, Each, Files
  <1>2. UNCHANGED <<inputVars, planVars, script, files, dirSize, offsets, fileOffset, header, contents, verdict>>
    BY DEF WriteEntry, inputVars, planVars, dumpVars
  <1>3. /\ Placing' /\ Collecting' /\ Packed' = Packed /\ Files' = Files /\ DataStart' = DataStart
        /\ Files \in Nat /\ Len(offsets) = Files /\ offsets \in Seq(Nat)
    BY <1>1, <1>2, PlanKept
  <1>. PICK n \in Nat : n = done
    BY <1>1, <1>3 DEF Types
  <1>4. n + 1 \in 1..Files /\ EntryBytes(Packed[n + 1]) \in Nat /\ Packed[n + 1].size \in Nat
    BY <1>1, <1>3, PackedFacts DEF Types
  <1>5. /\ directory' = Append(directory, [offset |-> offsets[n + 1], size |-> Packed[n + 1].size])
        /\ position' = position + EntryBytes(Packed[n + 1]) /\ solid' = position'
    BY DEF WriteEntry, Current, Advance
  <1>6. [offset |-> offsets[n + 1], size |-> Packed[n + 1].size] \in [offset : Nat, size : Nat]
    BY <1>3, <1>4
  <1>7. directory' \in Seq([offset : Nat, size : Nat]) /\ position' \in Nat /\ solid' \in Nat
    BY <1>1, <1>4, <1>5, <1>6 DEF Types
  <1>8. Types' /\ Unwritten'
    BY <1>1, <1>2, <1>3, <1>4, <1>7 DEF Types, Unwritten, LayoutInv
  <1>9. Heading' /\ Measuring'
    <2>1. PICK f : IsSum(f, Files) /\ dirSize = f[Files] + 2
      BY <1>1 DEF LayoutInv, Passes, Measuring
    <2>2. Measuring'
      BY <1>1, <1>2, <1>3, <2>1 DEF Measuring, IsSum
    <2>3. Heading'
      BY <1>1, <1>2, <1>3 DEF LayoutInv, Passes, Heading
    <2> QED
      BY <2>2, <2>3
  <1>10. InDirectory'
    <2>1. PICK f : IsSum(f, Files) /\ dirSize = f[Files] + 2 /\ position = HeaderSize + f[n]
      BY <1>1 DEF LayoutInv, Writes, InDirectory
    <2>2. f[n + 1] = f[n] + EntryBytes(Packed[n + 1]) /\ f[n] \in Nat
      <3>1. f[n + 1] = f[n + 1 - 1] + EntryBytes(Packed[n + 1]) /\ f \in [0..Files -> Nat]
        BY <1>4, <2>1 DEF IsSum
      <3>2. n + 1 - 1 = n /\ n \in 0..Files
        BY <1>3, <1>4
      <3> QED
        BY <3>1, <3>2
    <2>3. position' = HeaderSize + f[n + 1]
      <3>1. position' = HeaderSize + f[n] + EntryBytes(Packed[n + 1])
        BY <1>5, <2>1
      <3>2. HeaderSize \in Nat /\ f[n] \in Nat /\ EntryBytes(Packed[n + 1]) \in Nat
        BY <1>4, <2>2, HeaderFacts
      <3> QED
        BY <2>2, <3>1, <3>2
    <2>4. IsSum(f, Files)'
      BY <1>3, <2>1 DEF IsSum
    <2>5. dirSize' = f[Files'] + 2 /\ position' = HeaderSize + f[done'] /\ solid' = position'
      BY <1>1, <1>2, <1>3, <1>5, <2>1, <2>3
    <2> QED
      BY <2>4, <2>5 DEF InDirectory
  <1>11. Entering'
    <2>1. /\ Len(directory) = n
          /\ \A k \in 1..n : directory[k] = [offset |-> offsets[k], size |-> Packed[k].size]
      BY <1>1 DEF LayoutInv, Passes, Entering
    <2>2. directory \in Seq([offset : Nat, size : Nat])
      BY <1>1 DEF Types
    <2>3. /\ Len(directory') = n + 1
          /\ \A k \in 1..n : directory'[k] = directory[k]
          /\ directory'[n + 1] = [offset |-> offsets[n + 1], size |-> Packed[n + 1].size]
      BY <1>5, <1>6, <2>1, <2>2
    <2>4. \A k \in 1..(n + 1) : k \in 1..n \/ k = n + 1
      OBVIOUS
    <2>5. \A k \in 1..(n + 1) : directory'[k] = [offset |-> offsets[k], size |-> Packed[k].size]
      BY <2>1, <2>3, <2>4
    <2> QED
      BY <1>1, <1>2, <1>3, <2>3, <2>5 DEF Entering
  <1>12. InData' /\ Filled' /\ Finished' /\ ChecksumValidates'
    BY <1>1, <1>2 DEF LayoutInv, InData, Filled, Finished, ChecksumValidates
  <1> QED
    BY <1>3, <1>8, <1>9, <1>10, <1>11, <1>12 DEF LayoutInv, Passes, Writes

LEMMA WriteEndKeeps ==
  ASSUME LayoutInv, WriteEnd PROVE LayoutInv'
  <1>1. phase = "directory" /\ phase' = "data" /\ done' = 0 /\ done = Files /\ Types
    BY DEF LayoutInv, WriteEnd, Turn, Files
  <1>2. UNCHANGED <<inputVars, planVars, script, files, dirSize, offsets, fileOffset, header, directory,
                    contents, solid, verdict>>
    BY DEF WriteEnd, inputVars, planVars, dumpVars
  <1>3. /\ Placing' /\ Collecting' /\ Packed' = Packed /\ Files' = Files /\ DataStart' = DataStart
        /\ Files \in Nat
    BY <1>1, <1>2, PlanKept
  <1>4. position' = position + 2
    BY DEF WriteEnd
  <1>5. Types' /\ Unwritten' /\ Measuring' /\ Heading'
    BY <1>1, <1>2, <1>3, <1>4 DEF Types, Unwritten, LayoutInv, Measuring, Heading, Passes
  <1>6. Entering'
    BY <1>1, <1>2, <1>3 DEF Entering, LayoutInv, Passes
  <1>7. PICK f : IsSum(f, Files) /\ dirSize = f[Files] + 2 /\ position = HeaderSize + f[Files]
    BY <1>1 DEF LayoutInv, Writes, InDirectory
  <1>8. solid = position /\ position' = DataStart
    <2>1. f[Files] \in Nat
      BY <1>3, <1>7 DEF IsSum
    <2> QED
      BY <1>1, <1>4, <1>7, <2>1, HeaderFacts DEF LayoutInv, Writes, InDirectory, DataStart
  <1>9. Files = 0 => solid = HeaderSize /\ dirSize = 2
    <2>1. Files = 0 => f[Files] = 0
      BY <1>7 DEF IsSum
    <2> QED
      BY <1>7, <1>8, <2>1, HeaderFacts
  <1>10. InData'
    BY <1>1, <1>2, <1>3, <1>4, <1>8, <1>9 DEF InData, Types
  <1>11. Filled'
    <2>1. contents' = <<>>
      BY <1>1, <1>2 DEF LayoutInv, Unwritten
    <2> QED
      BY <1>1, <2>1 DEF Filled
  <1>12. InDirectory' /\ Finished' /\ ChecksumValidates'
    BY <1>1, <1>2 DEF LayoutInv, InDirectory, Finished, ChecksumValidates
  <1> QED
    BY <1>3, <1>5, <1>6, <1>10, <1>11, <1>12 DEF LayoutInv, Passes, Writes

\* Data of the files so far never reaches beyond the place of the next.
LEMMA NeverAhead ==
  ASSUME LayoutInv, phase = "data", done <= Files
  PROVE  /\ After(done) \in Nat /\ position \in Nat /\ position <= After(done)
         /\ done > 0 => After(done) % 4 = 0
         /\ done < Files => offsets[done + 1] = After(done)
         /\ done = Files => fileOffset = After(done)
         /\ DataStart <= After(done)
  <1>1. /\ Types /\ Files \in Nat /\ done \in 0..Files /\ offsets \in Seq(Nat) /\ dirSize \in Nat
        /\ Len(offsets) = Files /\ fileOffset = After(Files)
        /\ \A k \in 1..Files : offsets[k] = After(k - 1)
        /\ \A k \in 0..Files : DataStart <= After(k)
    BY PackedFacts DEF LayoutInv, Types, Passes, Placing
  <1>2. position = IF done = 0 THEN DataStart ELSE offsets[done] + Packed[done].size
    BY DEF LayoutInv, Writes, InData
  <1>3. /\ After(done) \in Nat /\ position \in Nat /\ position <= After(done)
        /\ done > 0 => After(done) % 4 = 0
    <2>1. CASE done = 0
      BY <1>1, <1>2, <2>1, HeaderFacts DEF After, DataStart
    <2>2. CASE done # 0
      <3>1. done \in 1..Files /\ offsets[done] \in Nat /\ Packed[done].size \in Nat
        BY <1>1, <2>2, PackedFacts DEF Types
      <3>2. offsets[done] + Packed[done].size \in Nat
        BY <3>1
      <3>3. /\ Padded(offsets[done] + Packed[done].size) \in Nat
            /\ offsets[done] + Packed[done].size <= Padded(offsets[done] + Packed[done].size)
            /\ Padded(offsets[done] + Packed[done].size) % 4 = 0
        BY <3>2, PaddedFacts
      <3> QED
        BY <1>2, <2>2, <3>2, <3>3 DEF After
    <2> QED
      BY <2>1, <2>2
  <1>4. done < Files => offsets[done + 1] = After(done)
    <2> SUFFICES ASSUME done < Files PROVE offsets[done + 1] = After(done)
      OBVIOUS
    <2>1. done + 1 \in 1..Files /\ done + 1 - 1 = done
      BY <1>1
    <2>2. offsets[done + 1] = After(done + 1 - 1)
      BY <1>1, <2>1
    <2> QED
      BY <2>1, <2>2
  <1> QED
    BY <1>1, <1>3, <1>4

LEMMA WriteDataKeeps ==
  ASSUME LayoutInv, WriteData PROVE LayoutInv'
  <1>1. phase = "data" /\ phase' = "data" /\ done' = done + 1 /\ done < Files /\ Types
    BY DEF LayoutInv, WriteData, Each, Files
  <1>2. UNCHANGED <<inputVars, planVars, script, files, dirSize, offsets, fileOffset, header, directory, verdict>>
    BY DEF WriteData, inputVars, planVars, dumpVars
  <1>3. /\ Placing' /\ Collecting' /\ Packed' = Packed /\ Files' = Files /\ DataStart' = DataStart
        /\ Files \in Nat /\ Len(offsets) = Files /\ offsets \in Seq(Nat)
    BY <1>1, <1>2, PlanKept
  <1>. PICK n \in Nat : n = done
    BY <1>1, <1>3 DEF Types
  <1>4. n + 1 \in 1..Files /\ Packed[n + 1].size \in Nat /\ offsets[n + 1] \in Nat
    BY <1>1, <1>3, PackedFacts DEF Types
  <1>5. UpTo(offsets[n + 1]) = offsets[n + 1]
    <2>1. position \in Nat /\ position <= offsets[n + 1]
      BY <1>1, <1>3, NeverAhead
    <2> QED
      BY <1>4, <2>1 DEF UpTo
  <1>6. /\ contents' = Append(contents, offsets[n + 1])
        /\ position' = offsets[n + 1] + Packed[n + 1].size
        /\ solid' = IF Packed[n + 1].size > 0 THEN position' ELSE solid
    BY <1>5 DEF WriteData, Current
  <1>7. position' \in Nat /\ solid' \in Nat /\ solid' <= position'
    <2>1. solid <= position /\ position <= offsets[n + 1] /\ solid \in Nat /\ position \in Nat
      BY <1>1, <1>3, NeverAhead DEF LayoutInv, Writes, InData, Types
    <2> QED
      BY <1>4, <1>6, <2>1
  <1>8. Types' /\ Unwritten'
    BY <1>1, <1>2, <1>3, <1>4, <1>6, <1>7 DEF Types, Unwritten, LayoutInv
  <1>9. Measuring' /\ Heading' /\ Entering'
    BY <1>1, <1>2, <1>3 DEF LayoutInv, Measuring, Heading, Entering, Passes
  <1>10. InData'
    BY <1>1, <1>2, <1>3, <1>4, <1>6, <1>7 DEF InData
  <1>11. Filled'
    <2>1. Len(contents) = n /\ \A k \in 1..n : contents[k] = offsets[k]
      BY <1>1 DEF LayoutInv, Writes, Filled
    <2>2. Len(contents') = n + 1 /\ \A k \in 1..(n + 1) : contents'[k] = offsets[k]
      BY <1>1, <1>6, <2>1 DEF Types
    <2> QED
      BY <1>1, <1>2, <2>2 DEF Filled
  <1>12. InDirectory' /\ Finished' /\ ChecksumValidates'
    BY <1>1, <1>2 DEF LayoutInv, InDirectory, Finished, ChecksumValidates
  <1> QED
    BY <1>3, <1>8, <1>9, <1>10, <1>11, <1>12 DEF LayoutInv, Passes, Writes

LEMMA WriteTrailerKeeps ==
  ASSUME LayoutInv, WriteTrailer PROVE LayoutInv'
  <1>1. phase = "data" /\ phase' = "built" /\ done' = 0 /\ done = Files /\ Types
    BY DEF LayoutInv, WriteTrailer, Turn, Files
  <1>2. UNCHANGED <<inputVars, planVars, script, files, dirSize, offsets, fileOffset, header, directory,
                    contents, solid, verdict>>
    BY DEF WriteTrailer, inputVars, planVars, dumpVars
  <1>3. /\ Placing' /\ Collecting' /\ Packed' = Packed /\ Files' = Files /\ DataStart' = DataStart
        /\ Files \in Nat /\ fileOffset \in Nat
    BY <1>1, <1>2, PlanKept
  <1>4. position \in Nat /\ position <= fileOffset
    BY <1>1, <1>3, NeverAhead
  <1>5. position' = fileOffset + 4 /\ solid <= fileOffset /\ (Files = 0 => solid = HeaderSize /\ dirSize = 2)
    BY <1>1, <1>3, <1>4 DEF WriteTrailer, UpTo, LayoutInv, Writes, InData, Types
  <1>6. Types' /\ Unwritten'
    BY <1>1, <1>2, <1>3, <1>5 DEF Types, Unwritten, LayoutInv
  <1>7. Measuring' /\ Heading' /\ Entering'
    BY <1>1, <1>2, <1>3 DEF LayoutInv, Measuring, Heading, Entering, Passes
  <1>8. Filled' /\ Finished'
    BY <1>1, <1>2, <1>3, <1>5 DEF LayoutInv, Writes, Filled, Finished
  <1>9. InDirectory' /\ InData' /\ ChecksumValidates'
    BY <1>1, <1>2 DEF LayoutInv, InDirectory, InData, ChecksumValidates
  <1> QED
    BY <1>3, <1>6, <1>7, <1>8, <1>9 DEF LayoutInv, Passes, Writes

\* dumpifs changes nothing of the image.
LEMMA DumpKeeps ==
  ASSUME LayoutInv, phase = "built", verdict' # "invalid",
         UNCHANGED <<phase, inputVars, done, planVars, imageVars>>
  PROVE  LayoutInv'
  <1>1. Types
    BY DEF LayoutInv
  <1>2. /\ UNCHANGED <<script, files, dirSize, offsets, fileOffset, header, directory, contents, position, solid>>
        /\ Packed' = Packed /\ Files' = Files
    BY DEF inputVars, planVars, imageVars, Packed, Files
  <1>3. Placing' /\ Collecting' /\ DataStart' = DataStart
    BY <1>1, <1>2, PlanKept
  <1>4. Types' /\ Unwritten' /\ Measuring' /\ Heading' /\ Entering'
    BY <1>1, <1>2, <1>3 DEF LayoutInv, Types, Unwritten, Measuring, Heading, Entering, Passes
  <1>5. Writes'
    BY <1>1, <1>2 DEF LayoutInv, Writes, InDirectory, InData, Filled, Finished
  <1> QED
    BY <1>3, <1>4, <1>5 DEF LayoutInv, Passes, ChecksumValidates

\* Whatever dumpifs reads for a directory, it says nothing of the sum.
LEMMA ReadEntryKeeps ==
  ASSUME LayoutInv, ReadEntry PROVE LayoutInv'
  <1>1. phase = "built" /\ UNCHANGED <<phase, inputVars, done, planVars, imageVars>>
    BY DEF ReadEntry
  <1>2. verdict = "none" /\ verdict' \in {verdict, "aborted"}
    BY DEF ReadEntry
  <1> QED
    BY <1>1, <1>2, DumpKeeps

\* What dumpifs leaves out is behind everything that is not zero.
LEMMA VerifyKeeps ==
  ASSUME LayoutInv, Verify PROVE LayoutInv'
  <1>1. phase = "built" /\ UNCHANGED <<phase, inputVars, done, planVars, imageVars>> /\ Types
    BY DEF LayoutInv, Verify
  <1>2. /\ header = [imageSize |-> fileOffset + 4, hdrDirSize |-> DataStart]
        /\ position = fileOffset + 4 /\ solid <= fileOffset /\ (Files = 0 => solid = HeaderSize /\ dirSize = 2)
        /\ fileOffset \in Nat /\ solid \in Nat /\ Len(offsets) = Files /\ fileOffset = After(Files)
        /\ offsets \in Seq(Nat) /\ Files \in Nat
    BY <1>1, PackedFacts DEF LayoutInv, Passes, Heading, Writes, Finished, Placing, Types
  <1>3. solid <= fileOffset - (fileOffset % 4)
    <2>1. CASE Files = 0
      <3>1. fileOffset = HeaderSize + 2 /\ solid = HeaderSize
        BY <1>2, <2>1 DEF After, DataStart
      <3> QED
        BY <3>1, HeaderFacts
    <2>2. CASE Files # 0
      <3>1. Files \in 1..Files /\ offsets[Files] \in Nat /\ Packed[Files].size \in Nat
        BY <1>1, <1>2, <2>2, PackedFacts DEF Types
      <3>2. offsets[Files] + Packed[Files].size \in Nat
        BY <3>1
      <3>3. fileOffset % 4 = 0
        BY <1>2, <2>2, <3>2, PaddedFacts DEF After
      <3> QED
        BY <1>2, <3>3
    <2> QED
      BY <2>1, <2>2
  <1>4. header.imageSize - 4 = fileOffset /\ position - 4 = fileOffset
    BY <1>2
  <1>5. verdict' = "valid"
    BY <1>3, <1>4 DEF Verify
  <1> QED
    BY <1>1, <1>5, DumpKeeps

LEMMA LayoutStutter ==
  ASSUME LayoutInv, UNCHANGED vars PROVE LayoutInv'
  <1>1. /\ UNCHANGED <<phase, script, files, done, dirSize, offsets, fileOffset, header, directory,
                       contents, position, solid, verdict>>
        /\ Packed' = Packed /\ Files' = Files /\ DataStart' = DataStart
    BY DEF vars, inputVars, planVars, imageVars, dumpVars, Packed, Files, DataStart
  <1>2. Types' /\ Collecting' /\ Unwritten' /\ Heading' /\ Entering' /\ ChecksumValidates'
    BY <1>1 DEF LayoutInv, Types, Collecting, Unwritten, Passes, Heading, Entering, ChecksumValidates
  <1>3. Measuring' /\ InDirectory'
    BY <1>1 DEF LayoutInv, Passes, Writes, Measuring, InDirectory, IsSum
  <1>4. Placing'
    <2>1. \A k \in Nat : After(k)' = After(k)
      BY <1>1 DEF After
    <2>2. /\ Placing /\ offsets \in Seq(Nat)
      BY DEF LayoutInv, Passes, Types
    <2>. PICK n \in Nat : n = Len(offsets)
      BY <2>2
    <2>3. After(Len(offsets))' = After(n)
      BY <1>1, <2>1
    <2> QED
      BY <1>1, <2>1, <2>2, <2>3 DEF Placing
  <1>5. InData' /\ Filled' /\ Finished'
    BY <1>1 DEF LayoutInv, Writes, InData, Filled, Finished
  <1> QED
    BY <1>2, <1>3, <1>4, <1>5 DEF LayoutInv, Passes, Writes

THEOREM LayoutInvariant == Spec => []LayoutInv
  <1>1. LayoutInv /\ [Next]_vars => LayoutInv'
    BY CollectKeeps, StartMeasuringKeeps, MeasureKeeps, StartPlacingKeeps, PlaceKeeps, WriteHeaderKeeps,
       WriteEntryKeeps, WriteEndKeeps, WriteDataKeeps, WriteTrailerKeeps, ReadEntryKeeps, VerifyKeeps,
       LayoutStutter DEF Next
  <1> QED
    BY LayoutInit, <1>1, PTL DEF Spec

-----------------------------------------------------------------------------
\* Data lies where its entry says: for every list of files, and every length
\* of paths and data, the first pass of mkifs.fsx plans what the second writes.
THEOREM LayoutAsPlanned == Spec => []DataWhereEntrySays
  <1>1. LayoutInv => DataWhereEntrySays
    <2> SUFFICES ASSUME LayoutInv, phase = "built"
                 PROVE  /\ header.imageSize = position
                        /\ Len(directory) = Files /\ Len(contents) = Files
                        /\ \A k \in 1..Files :
                              /\ directory[k] = [offset |-> contents[k], size |-> Packed[k].size]
                              /\ header.hdrDirSize <= contents[k]
                              /\ contents[k] + Packed[k].size
                                    <= IF k < Files THEN contents[k + 1] ELSE position - 4
      BY DEF DataWhereEntrySays, Files
    <2>1. /\ header = [imageSize |-> fileOffset + 4, hdrDirSize |-> DataStart]
          /\ position = fileOffset + 4 /\ fileOffset \in Nat /\ Files \in Nat /\ offsets \in Seq(Nat)
          /\ Len(offsets) = Files /\ fileOffset = After(Files) /\ DataStart \in Nat
          /\ \A k \in 1..Files : offsets[k] = After(k - 1)
          /\ \A k \in 0..Files : DataStart <= After(k)
      BY PackedFacts, HeaderFacts DEF LayoutInv, Passes, Heading, Writes, Finished, Placing, Types, DataStart
    <2>2. /\ Len(directory) = Files /\ Len(contents) = Files
          /\ \A k \in 1..Files : directory[k] = [offset |-> offsets[k], size |-> Packed[k].size]
          /\ \A k \in 1..Files : contents[k] = offsets[k]
      BY DEF LayoutInv, Passes, Entering, Writes, Filled
    <2>3. ASSUME NEW k \in 1..Files
          PROVE  /\ DataStart <= offsets[k] /\ offsets[k] + Packed[k].size <= After(k)
                 /\ k < Files => offsets[k + 1] = After(k)
      <3>1. k - 1 \in 0..Files /\ offsets[k] \in Nat /\ Packed[k].size \in Nat /\ k # 0
        <4>1. k - 1 \in 0..Files /\ k # 0 /\ offsets[k] \in Nat
          BY <2>1
        <4>2. Packed[k].size \in Nat
          BY PackedFacts DEF LayoutInv, Types
        <4> QED
          BY <4>1, <4>2
      <3>2. offsets[k] + Packed[k].size \in Nat
        BY <3>1
      <3>3. offsets[k] + Packed[k].size <= After(k)
        BY <3>1, <3>2, PaddedFacts DEF After
      <3>4. k < Files => offsets[k + 1] = After(k)
        <4> SUFFICES ASSUME k < Files PROVE offsets[k + 1] = After(k)
          OBVIOUS
        <4>1. k + 1 \in 1..Files /\ k + 1 - 1 = k
          BY <2>1
        <4>2. offsets[k + 1] = After(k + 1 - 1)
          BY <2>1, <4>1
        <4> QED
          BY <4>1, <4>2
      <3> QED
        BY <2>1, <3>1, <3>3, <3>4
    <2>4. ASSUME NEW k \in 1..Files
          PROVE  contents[k] + Packed[k].size <= IF k < Files THEN contents[k + 1] ELSE position - 4
      <3>1. CASE k < Files
        <4>1. k + 1 \in 1..Files
          BY <2>1, <3>1
        <4> QED
          BY <2>2, <2>3, <3>1, <4>1
      <3>2. CASE ~(k < Files)
        <4>1. k = Files
          BY <2>1, <3>2
        <4>2. position - 4 = After(k)
          BY <2>1, <4>1
        <4> QED
          BY <2>2, <2>3, <3>2, <4>2
      <3> QED
        BY <3>1, <3>2
    <2> QED
      BY <2>1, <2>2, <2>3, <2>4
  <1> QED
    BY LayoutInvariant, <1>1, PTL

\* If dumpifs gets through the directory of an image, which it misreads from the
\* second entry on (dumpifs.fsx:54-80), the sum it computes over fewer bytes is the
\* one that mkifs stored: for every list of files no image is called invalid.
THEOREM ChecksumAccepted == Spec => []ChecksumValidates
  <1>1. LayoutInv => ChecksumValidates
    BY DEF LayoutInv
  <1> QED
    BY LayoutInvariant, <1>1, PTL
=============================================================================
