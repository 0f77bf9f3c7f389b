--------------------------- MODULE ArchiveTransfer ---------------------------
(***************************************************************************)
(* A transfer together with what is in the file: the selection that the    *)
(* sender packs (ensureSelectedFileReady in public/js/app.js), and what    *)
(* the receiver makes of it when it has been verified                      *)
(* (finalizeReceiverTransfer): an archive that is not too long is unzipped *)
(* for the complete view, and if it held one file, that file is downloaded *)
(* instead of the archive.                                                 *)
(***************************************************************************)
EXTENDS TransferSession, ZipArchive

CONSTANTS
  Selections,   \* [folder: BOOLEAN, files: a sequence of paths and data]
  ZipNames,     \* the file names that end in .zip
  UnpackLimit   \* MAX_IN_MEMORY_ZIP_UNPACK_SIZE

ASSUME ArchiveAssumption ==
  /\ UnpackLimit \in Nat
  /\ \A sel \in Selections : sel.files # <<>> /\ (~sel.folder => Len(sel.files) = 1)

VARIABLES
  sending,      \* the sender's selection
  listed,       \* the files in the receiver's complete view (currentExtractedFiles)
  downloaded    \* the content of the file downloaded last

contentVars == <<sending, listed, downloaded>>
allVars == <<vars, contentVars>>

\* Several files or a folder are sent as an archive, a single file as it is.
SentBytes(sel) == IF sel.folder THEN Pack(sel.files) ELSE sel.files[1].data
IsZip(sel) == sel.folder \/ Last(sel.files[1].path) \in ZipNames

ArchiveInit == Init /\ sending \in Selections /\ listed = <<>> /\ downloaded = <<>>

\* What else happens when the verified file is saved.
Unzip ==
  LET bytes == SentBytes(sending)
      extracted == IF IsZip(sending) /\ Len(bytes) <= UnpackLimit THEN Extract(bytes) ELSE <<>>
  IN /\ listed' = extracted
     /\ downloaded' = IF Len(extracted) = 1 THEN extracted[1].data ELSE bytes

ArchiveNext ==
  /\ Next
  /\ IF saved' = saved THEN UNCHANGED <<listed, downloaded>> ELSE Unzip
  /\ UNCHANGED sending

ArchiveSpec ==
  /\ ArchiveInit /\ [][ArchiveNext]_allVars
  /\ WF_vars(Progress("S")) /\ WF_vars(Progress("R")) /\ WF_vars(Reconnect)
------------------------------------------------------------------------------
(* Properties. *)

\* The files a selection stands for.
Chosen(sel) ==
  IF sel.folder THEN [i \in DOMAIN sel.files |-> File(Sanitized(sel.files[i].path), sel.files[i].data)]
  ELSE IF IsZip(sel) THEN ByDirectory(SentBytes(sel))
  ELSE sel.files

\* When the file has been saved, the user has what was selected.  What is
\* downloaded is either the only file, or what was sent, which a standard tool
\* can open; and the view lists those files and no others, even when one of them
\* is an archive itself, is empty, or had to have its path cleaned.
SelectionArrives ==
  saved # "missing" =>
    /\ listed # <<>> => listed = Chosen(sending)
    /\ \/ /\ downloaded = SentBytes(sending)
          /\ sending.folder => ByDirectory(downloaded) = Chosen(sending)
       \/ Len(Chosen(sending)) = 1 /\ downloaded = Chosen(sending)[1].data
==============================================================================
