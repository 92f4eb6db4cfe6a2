----------------------------- MODULE ImageLayout -----------------------------
(***************************************************************************)
(* mkifs.fsx: buildIfs measures the directory, places the files, and then  *)
(* writes header, directory, data and trailer in one go; dumpifs.fsx reads *)
(* the directory, if it can, and checks the sum.  Contents are lengths,    *)
(* which bytes are surely zero, and what may stand where dumpifs reads.    *)
(***************************************************************************)
EXTENDS Integers, Sequences

CONSTANTS Fixed,      \* bytes of the header in front of the mount point
          MountPoint, \* bytes of the mount point, its NUL included
          Fields,     \* bytes of an entry in front of its path
          Counted,    \* what the size field counts for them
          ScriptPath, \* bytes of ".script" and its NUL
          Paths,      \* lengths of the other paths, NUL included
          Sizes,      \* lengths of files and scripts
          Chars,      \* the bytes of a name
          Words,      \* what two bytes may hold where dumpifs has lost its place
          MaxFiles    \* bound of the model: lines of the build file

ASSUME ImageAssumption == /\ {Fixed, MountPoint, Fields, Counted, ScriptPath} \subseteq Nat \ {0}
                          /\ Paths \subseteq Nat \ {0} /\ Sizes \subseteq Nat /\ MaxFiles \in Nat
                          /\ Fixed % 4 = 0 /\ Fields = Counted + 4
                          /\ Chars \subseteq Nat \ {0} /\ Words \subseteq Nat

VARIABLES phase,     \* what buildIfs does
          script,    \* scriptData: at most one file
          files,     \* fileEntries: their paths and sizes
          done,      \* how many entries the loop of this phase has handled
          dirSize,   \* dirMs.Length
          offsets,   \* fileOffsets
          fileOffset,\* where the next file, or the trailer, goes
          header,    \* what the header says
          directory, \* what the entries say: [offset, size]
          contents,  \* where data was written
          position,  \* ms.Position
          solid,     \* the end of the bytes that may differ from zero
          cursor,    \* dumpifs: r.BaseStream.Position
          verdict    \* what dumpifs prints, unless it is thrown out before

inputVars == <<script, files>>
planVars  == <<dirSize, offsets, fileOffset>>
imageVars == <<header, directory, contents, position, solid>>
dumpVars  == <<cursor, verdict>>
vars == <<phase, inputVars, done, planVars, imageVars, dumpVars>>

Padding(n) == (4 - (n % 4)) % 4
Padded(n)  == n + Padding(n)

HeaderSize == Fixed + Padded(MountPoint)

\* writeFileDirent puts out all fields and pads as though it had put out Counted.
EntryBytes(file) == Fields + file.path + Padding(Counted + file.path)

\* Mutant: the directory is measured by what writeFileDirent returns.
BugMeasured(file) == Padded(Counted + file.path)

\* What an entry adds to the length of dirMs.
Measured(file) == EntryBytes(file)

File == [path : Paths \cup {ScriptPath}, size : Sizes]
Packed == script \o files

Init == /\ phase = "collect" /\ script = <<>> /\ files = <<>> /\ done = 0
        /\ dirSize = 0 /\ offsets = <<>> /\ fileOffset = 0
        /\ header = [imageSize |-> 0, hdrDirSize |-> 0]
        /\ directory = <<>> /\ contents = <<>> /\ position = 0 /\ solid = 0
        /\ cursor = HeaderSize /\ verdict = "none"

-----------------------------------------------------------------------------
\* A file that was found; the others are skipped with a warning.
CollectFile == /\ phase = "collect" /\ Len(files) < MaxFiles
               /\ \E path \in Paths, size \in Sizes :
                     files' = Append(files, [path |-> path, size |-> size])
               /\ UNCHANGED <<phase, script, done, planVars, imageVars, dumpVars>>

\* A later script takes the place of an earlier one; its text ends in a newline.
CollectScript == /\ phase = "collect"
                 /\ \E size \in Sizes \ {0} : script' = <<[path |-> ScriptPath, size |-> size]>>
                 /\ UNCHANGED <<phase, files, done, planVars, imageVars, dumpVars>>

\* One loop over the files ends and the next one starts.
Turn(from, to) == phase = from /\ phase' = to /\ done' = 0

\* What a loop does to its next file.
Each(loop) == phase = loop /\ done < Len(Packed) /\ done' = done + 1 /\ UNCHANGED phase
Current == Packed[done + 1]

StartMeasuring == /\ Turn("collect", "measure")
                  /\ UNCHANGED <<inputVars, planVars, imageVars, dumpVars>>

Measure == /\ Each("measure")
           /\ dirSize' = dirSize + Measured(Current)
           /\ UNCHANGED <<inputVars, offsets, fileOffset, imageVars, dumpVars>>

\* The sentinel has two bytes; data starts behind it.
StartPlacing == /\ done = Len(Packed) /\ Turn("measure", "place")
                /\ dirSize' = dirSize + 2
                /\ fileOffset' = HeaderSize + dirSize'
                /\ UNCHANGED <<inputVars, offsets, imageVars, dumpVars>>

\* Mutant: the last file is not padded.
BugPlace == /\ Each("place")
            /\ offsets' = Append(offsets, fileOffset)
            /\ fileOffset' = IF done + 1 = Len(Packed) THEN fileOffset + Current.size
                                                       ELSE Padded(fileOffset + Current.size)
            /\ UNCHANGED <<inputVars, dirSize, imageVars, dumpVars>>

Place == /\ Each("place")
         /\ offsets' = Append(offsets, fileOffset)
         /\ fileOffset' = Padded(fileOffset + Current.size)
         /\ UNCHANGED <<inputVars, dirSize, imageVars, dumpVars>>

-----------------------------------------------------------------------------
Advance(bytes) == position' = position + bytes /\ solid' = position + bytes

WriteHeader == /\ done = Len(Packed) /\ Turn("place", "directory")
               /\ header' = [imageSize |-> fileOffset + 4, hdrDirSize |-> HeaderSize + dirSize]
               /\ Advance(HeaderSize)
               /\ UNCHANGED <<inputVars, planVars, directory, contents, dumpVars>>

WriteEntry == /\ Each("directory")
              /\ directory' = Append(directory, [offset |-> offsets[done + 1], size |-> Current.size])
              /\ Advance(EntryBytes(Current))
              /\ UNCHANGED <<inputVars, planVars, header, contents, dumpVars>>

WriteEnd == /\ done = Len(Packed) /\ Turn("directory", "data")
            /\ position' = position + 2
            /\ UNCHANGED <<inputVars, planVars, header, directory, contents, solid, dumpVars>>

\* Zeros up to the place, if it is still ahead, and the data wherever that is.
UpTo(place) == IF position < place THEN place ELSE position

WriteData == /\ Each("data")
             /\ LET at == UpTo(offsets[done + 1]) IN
                   /\ contents' = Append(contents, at)
                   /\ position' = at + Current.size
                   /\ solid' = IF Current.size > 0 THEN at + Current.size ELSE solid
             /\ UNCHANGED <<inputVars, planVars, header, directory, dumpVars>>

\* Padding, the sum over all that is written, and the trailer.
WriteTrailer == /\ done = Len(Packed) /\ Turn("data", "built")
                /\ position' = UpTo(fileOffset) + 4
                /\ UNCHANGED <<inputVars, planVars, header, directory, contents, solid, dumpVars>>

-----------------------------------------------------------------------------
\* The last four bytes of the first path and its padding, read as a size: dumpifs
\* goes on by the size field, which is four bytes short of the entry.
Slipped(path) == CASE path % 4 = 1 -> {0}
                   [] path % 4 = 2 -> Chars
                   [] OTHER        -> {a + 256 * b : a, b \in Chars}

FirstSize == IF Packed = <<>> THEN 0 ELSE Padded(Counted + Packed[1].path)

SizesAt == CASE cursor = HeaderSize             -> {FirstSize}
             [] cursor = HeaderSize + FirstSize -> Slipped(Packed[1].path)
             [] OTHER                           -> Words

\* The fields reach past the end of the image, or leave the path a negative length.
\* A directory's entry is two fields shorter.
Throws(size, short) == cursor + Fields - short > position \/ size < Counted - short

\* One turn of the loop over the directory; a size of zero ends it.  Whether a
\* misread mode is a directory's is open.
ReadEntry ==
    /\ phase = "built" /\ verdict = "none" /\ cursor < header.hdrDirSize
    /\ \E size \in SizesAt, short \in IF cursor = HeaderSize THEN {0} ELSE {0, 8} :
          \/ size = 0 /\ cursor' = header.hdrDirSize /\ UNCHANGED verdict
          \/ size > 0 /\ Throws(size, short) /\ verdict' = "aborted" /\ UNCHANGED cursor
          \/ size > 0 /\ ~Throws(size, short) /\ cursor' = cursor + size /\ UNCHANGED verdict
    /\ UNCHANGED <<phase, inputVars, done, planVars, imageVars>>

\* dumpifs adds up whole words in front of where it looks for the trailer.
Verify == /\ phase = "built" /\ verdict = "none" /\ cursor >= header.hdrDirSize
          /\ LET trailer == header.imageSize - 4 IN
                verdict' = IF trailer = position - 4 /\ solid <= trailer - (trailer % 4)
                           THEN "valid" ELSE "invalid"
          /\ UNCHANGED <<phase, inputVars, done, planVars, imageVars, cursor>>

Next == \/ CollectFile \/ CollectScript \/ StartMeasuring \/ Measure \/ StartPlacing \/ Place
        \/ WriteHeader \/ WriteEntry \/ WriteEnd \/ WriteData \/ WriteTrailer
        \/ ReadEntry \/ Verify

Spec == Init /\ [][Next]_vars

-----------------------------------------------------------------------------
\* The plan made in the first pass is what the second one writes: data lies
\* where its entry says, behind the directory and in front of the trailer, one
\* file behind the other (mkifs.fsx:219-310).
DataWhereEntrySays ==
    phase = "built" =>
       /\ header.imageSize = position
       /\ Len(directory) = Len(Packed) /\ Len(contents) = Len(Packed)
       /\ \A k \in 1..Len(Packed) :
             /\ directory[k] = [offset |-> contents[k], size |-> Packed[k].size]
             /\ header.hdrDirSize <= contents[k]
             /\ contents[k] + Packed[k].size <= IF k < Len(Packed) THEN contents[k + 1] ELSE position - 4

\* When dumpifs gets to the sum of an image that mkifs has built, it finds the sum
\* valid, although it leaves out bytes behind the last whole word and whatever its
\* misread directory looked like (dumpifs.fsx:83-95).  It need not get there.
ChecksumValidates == verdict # "invalid"
=============================================================================
