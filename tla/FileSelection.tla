---------------------------- MODULE FileSelection ----------------------------
(***************************************************************************)
(* What the sender has chosen to send (public/js/app.js): one file, sent   *)
(* as it is, or several files or a folder, packed into an archive when it  *)
(* is first needed.  Packing is asynchronous; whoever needs the file waits *)
(* for the zipPromise.  A selection is a value; selectedFile is modelled   *)
(* by the selection whose content it holds.                                *)
(*                                                                         *)
(* A continuation whose promise has settled is in resumed and runs before  *)
(* any other event of the page, as JavaScript's microtasks do.             *)
(***************************************************************************)
EXTENDS Naturals, FiniteSets, UIStates

CONSTANTS
  Selection,     \* what the user may choose
  Archives,      \* those of several files or a folder
  Jobs,          \* packing jobs that may run together
  Nothing

ASSUME SelectionAssumption ==
  /\ Archives \subseteq Selection
  /\ Nothing \notin Selection \cup Jobs

VARIABLES
  ui,                 \* the state of UIStateManager
  selectedFile,
  selectedFilesList,
  zipPromise,         \* the job everybody waits for, or Nothing
  packing,            \* the selection each job packs, or Nothing
  waiting,            \* the job each continuation waits for, or Nothing
  resumed,            \* the continuations that run next ...
  result              \* ... and what their promise was settled with

selectionVars == <<selectedFile, selectedFilesList, zipPromise, packing, waiting, resumed, result>>

\* After ensureSelectedFileReady: the pairing form goes on to connect, the scan
\* button opens the scanner, the handshake makes the chunker.
Continuation == {"pair", "scan", "chunk"}
Failure == "failure"

SelectionTypeOK ==
  /\ ui \in UIState
  /\ selectedFile \in Selection \cup {Nothing}
  /\ selectedFilesList \in Selection \cup {Nothing}
  /\ zipPromise \in Jobs \cup {Nothing}
  /\ packing \in [Jobs -> Selection \cup {Nothing}]
  /\ waiting \in [Continuation -> Jobs \cup {Nothing}]
  /\ resumed \subseteq Continuation
  /\ result \in Selection \cup {Nothing, Failure}

SelectionInit ==
  /\ ui = "IDLE"
  /\ selectedFile = Nothing /\ selectedFilesList = Nothing
  /\ zipPromise = Nothing /\ packing = [j \in Jobs |-> Nothing]
  /\ waiting = [c \in Continuation |-> Nothing]
  /\ resumed = {} /\ result = Nothing

Packing == \E j \in Jobs : packing[j] # Nothing
------------------------------------------------------------------------------
\* The page's own transitions while selecting and connecting: none of them is
\* to TRANSFERRING, so approval plays no part.
Transition(next) == ui' = IF CanTransition(ui, FALSE, next) THEN next ELSE ui

\* Mutant: a new selection does not replace the archive of an earlier one.
SelectKeepingArchive(sel) ==
  /\ selectedFile' = IF sel \in Archives THEN selectedFile ELSE sel
  /\ selectedFilesList' = sel
  /\ Transition("SELECTING_FILES")
  /\ UNCHANGED <<zipPromise, packing, waiting, resumed, result>>

\* handleFilesSelected and setMultiFilesSelected.  Their last step may throw.
SelectFiles(sel) ==
  /\ selectedFile' = IF sel \in Archives THEN Nothing ELSE sel
  /\ selectedFilesList' = sel
  /\ Transition("SELECTING_FILES")
  /\ UNCHANGED <<zipPromise, packing, waiting, resumed, result>>

\* clearSelectedFile, but for its transition to IDLE.
ClearSelection ==
  /\ selectedFile' = Nothing /\ selectedFilesList' = Nothing /\ zipPromise' = Nothing
  /\ UNCHANGED <<packing, waiting, resumed, result>>

\* ensureSelectedFileReady for continuation c, which is not waiting yet.
EnsureSelectedFileReady(c) ==
  LET settled(file) ==
        /\ resumed' = resumed \cup {c} /\ result' = file
        /\ UNCHANGED <<zipPromise, packing, waiting>>
      awaited(j) == waiting' = [waiting EXCEPT ![c] = j] /\ UNCHANGED <<resumed, result>>
  IN /\ waiting[c] = Nothing
     /\ \/ selectedFile # Nothing /\ settled(selectedFile) /\ UNCHANGED selectedFile
        \/ /\ selectedFile = Nothing /\ selectedFilesList \notin Archives
           /\ selectedFile' = selectedFilesList
           /\ settled(selectedFilesList)
        \/ /\ selectedFile = Nothing /\ selectedFilesList \in Archives
           /\ \/ zipPromise # Nothing /\ awaited(zipPromise) /\ UNCHANGED <<zipPromise, packing>>
              \/ /\ zipPromise = Nothing
                 /\ \E j \in {k \in Jobs : packing[k] = Nothing} :
                      /\ zipPromise' = j
                      /\ packing' = [packing EXCEPT ![j] = selectedFilesList]
                      /\ awaited(j)
           /\ UNCHANGED selectedFile
     /\ UNCHANGED selectedFilesList

\* createZipArchive returns, or throws because a file cannot be read any more.
\* The finally block forgets the promise, whichever it is by now.
ArchiveDone(j) ==
  LET waiters == {c \in Continuation : waiting[c] = j}
  IN /\ packing[j] # Nothing
     /\ \/ selectedFile' = packing[j] /\ result' = packing[j]
        \/ UNCHANGED selectedFile /\ result' = Failure
     /\ zipPromise' = Nothing
     /\ packing' = [packing EXCEPT ![j] = Nothing]
     /\ waiting' = [c \in Continuation |-> IF c \in waiters THEN Nothing ELSE waiting[c]]
     /\ resumed' = resumed \cup waiters
     /\ UNCHANGED <<selectedFilesList, ui>>

\* A continuation has run.
Resumed(c) ==
  /\ c \in resumed /\ resumed' = resumed \ {c}
  /\ result' = IF resumed' = {} THEN Nothing ELSE result
=============================================================================
