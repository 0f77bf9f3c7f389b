-------------------------- MODULE MCArchiveTransfer --------------------------
(* Small instances of ArchiveTransfer for TLC. *)
EXTENDS ArchiveTransfer

BothModes == {TRUE, FALSE}

Folder(files) == [folder |-> TRUE, files |-> files]
Single(file) == [folder |-> FALSE, files |-> <<file>>]

TheSplit == " b.txt" :> <<"b.txt">> @@ "2024\\a.txt" :> <<"2024", "a.txt">>

Note == File(<<"note.txt">>, <<Filler>>)
Text == File(<<"docs", "2024\\a.txt">>, <<Filler, Filler>>)
Empty == File(<<"docs", " b.txt">>, <<>>)
Nested == File(<<"old.zip">>, Pack(<<Text, Empty>>))

\* An archive as tools that write to a stream make it: the local headers have
\* no size, which follows the data.
Streamed(bytes) == [i \in DOMAIN bytes |-> IF bytes[i].sig = "local" THEN [bytes[i] EXCEPT !.size = 0] ELSE bytes[i]]

TheZipNames == {"old.zip"}

\* A plain file, an archive sent on, folders with an archive inside, with empty
\* files last and alone, and one that is too long to be unzipped.
TheSelections ==
  {Single(Note), Single(Nested), Folder(<<Text>>), Folder(<<Empty>>),
   Folder(<<Empty, Nested, Empty>>), Folder(<<Text, Text, Nested, Nested>>)}

\* An archive that the page has not made.
ForeignSelections == {Single([Nested EXCEPT !.data = Streamed(Pack(<<Text>>))])}
==============================================================================
