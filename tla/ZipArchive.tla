------------------------------ MODULE ZipArchive ------------------------------
(***************************************************************************)
(* The archive format of src/protocol/zip.js: files are stored one after   *)
(* the other behind a local header each, and a central directory with an   *)
(* end record says where they are.  Standard tools read the directory;     *)
(* extractZipArchive does not, but scans for local headers.                *)
(*                                                                         *)
(* Bytes are scaled to cells.  The first cell of a header has its fields,  *)
(* the others stand for its length, and every segment of a path takes one; *)
(* a file may hold cells that look like headers.  Compression (none),      *)
(* dates and checksums (which extractZipArchive ignores) are left out.     *)
(***************************************************************************)
EXTENDS Naturals, Sequences, SequencesExt

CONSTANTS
  LocalLen, CentralLen, EndLen,  \* lengths of the headers without a path
  SizeLimit,                     \* sizes and offsets are fields of 32 bits,
  CountLimit,                    \* the number of files one of 16
  Split                          \* the segments of names with \ or spaces around them

ASSUME ZipAssumption ==
  /\ LocalLen \in Nat \ {0} /\ CentralLen \in Nat \ {0} /\ EndLen \in Nat \ {0}
  /\ SizeLimit \in Nat \ {0} /\ CountLimit \in Nat \ {0}

\* A cell of content, and the first cell of a header.  In the end record, size
\* is the number of files and at the place of the directory.
Cell(sig, size, path, at) == [sig |-> sig, size |-> size, path |-> path, at |-> at]
Filler == Cell("none", 0, <<>>, 0)
Record(cell, len) == <<cell>> \o [i \in 1 .. len - 1 + Len(cell.path) |-> Filler]

\* sanitizeZipPath: \ separates segments as / does, segments are trimmed, and
\* empty ones, "." and ".." are left out.
Sanitized(path) ==
  LET parts(name) == IF name \in DOMAIN Split THEN Split[name] ELSE <<name>>
      all == FlattenSeq([i \in DOMAIN path |-> parts(path[i])])
      safe == SelectSeq(all, LAMBDA part : part \notin {"", ".", ".."})
  IN IF safe = <<>> THEN <<"file">> ELSE safe

\* createZipArchive: the files with their local headers, the directory, the end.
Pack(files) ==
  LET header(sig, i, at) ==
        Cell(sig, Len(files[i].data) % SizeLimit, Sanitized(files[i].path), at % SizeLimit)
      local(i) == Record(header("local", i, 0), LocalLen) \o files[i].data
      stored(n) == FlattenSeq([i \in 1 .. n |-> local(i)])
      central(i) == Record(header("central", i, Len(stored(i - 1))), CentralLen)
      end == Cell("end", Len(files) % CountLimit, <<>>, Len(stored(Len(files))) % SizeLimit)
  IN stored(Len(files))
       \o FlattenSeq([i \in DOMAIN files |-> central(i)])
       \o Record(end, EndLen)

File(path, data) == [path |-> path, data |-> data]

\* Mutant: the scan goes on behind the header of a file, not behind the file.
ExtractIntoData(bytes) ==
  LET scan[offset \in 0 .. Len(bytes)] ==
        LET cell == bytes[offset + 1]
            start == offset + LocalLen + Len(cell.path)
            end == start + cell.size
        IN IF offset + LocalLen >= Len(bytes) \/ cell.sig \in {"central", "end"} THEN <<>>
           ELSE IF cell.sig = "none" THEN scan[offset + 1]
           ELSE IF end > Len(bytes) THEN <<>>
           ELSE <<File(Sanitized(cell.path), SubSeq(bytes, start + 1, end))>> \o scan[start]
  IN scan[0]

\* extractZipArchive: from a local header to the end of its data, cell by cell
\* where there is none, up to a record of the directory or a file that is cut off.
Extract(bytes) ==
  LET scan[offset \in 0 .. Len(bytes)] ==
        LET cell == bytes[offset + 1]
            start == offset + LocalLen + Len(cell.path)
            end == start + cell.size
        IN IF offset + LocalLen >= Len(bytes) \/ cell.sig \in {"central", "end"} THEN <<>>
           ELSE IF cell.sig = "none" THEN scan[offset + 1]
           ELSE IF end > Len(bytes) THEN <<>>
           ELSE <<File(Sanitized(cell.path), SubSeq(bytes, start + 1, end))>> \o scan[end]
  IN scan[0]

\* What a standard tool reads: the end record, the directory it points to, and
\* the files that this points to.
ByDirectory(bytes) ==
  LET end == bytes[Len(bytes) - EndLen + 1]
      entry[n \in 1 .. end.size] ==  \* the place of the n-th record
        IF n = 1 THEN end.at
        ELSE entry[n - 1] + CentralLen + Len(bytes[entry[n - 1] + 1].path)
      file(cell) ==
        LET start == cell.at + LocalLen + Len(cell.path)
        IN File(cell.path, SubSeq(bytes, start + 1, start + cell.size))
  IN [n \in 1 .. end.size |-> file(bytes[entry[n] + 1])]
===============================================================================
