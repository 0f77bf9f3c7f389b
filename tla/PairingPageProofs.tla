-------------------------- MODULE PairingPageProofs --------------------------
(***************************************************************************)
(* The pairing page with any number of connections, sessions, selections,  *)
(* packing jobs and scans: the types of its state whatever the user does,  *)
(* and, for a user who waits for what was asked for last, one scan at a    *)
(* time, one connection at a time with the keys derived for it, the code   *)
(* that is joined, and the selection that is offered.                      *)
(***************************************************************************)
EXTENDS PairingPage, TLAPS

ShellOK ==
  /\ panel \in {"send", "receive"} /\ busy \in BOOLEAN /\ modal \in BOOLEAN /\ badge \in Badge
  /\ displayed \in Sessions \cup {Nothing} /\ currentSession \in Sessions \cup {Nothing}
  /\ fetching \in 0..MaxFetches /\ uploading \in BOOLEAN

CryptoKeys == [conn : Conns, role : {"sender", "receiver"}, key : Conns,
               pub : Conns \cup {Nothing}]

ConnOK ==
  /\ currentRole \in {"sender", "receiver"}
  /\ {transport, keyPair, pubKey} \subseteq Conns \cup {Nothing}
  /\ cryptoKeys = Nothing \/ cryptoKeys \in CryptoKeys
  /\ offered \in Selection \cup {Nothing} /\ timers \subseteq Conns
  /\ conn \in [Conns -> Connection]

LEMMA PageTypeParts ==
  /\ PageTypeOK => ScannerTypeOK /\ SelectionTypeOK /\ ShellOK /\ ConnOK
  /\ ScannerTypeOK' /\ SelectionTypeOK' /\ ShellOK' /\ ConnOK' => PageTypeOK'
BY DEF PageTypeOK, ShellOK, ConnOK, CryptoKeys
------------------------------------------------------------------------------
(* The parts of the page: the scanner. *)

Steps == [Starts -> Step]

LEMMA AfterStopTyped == ASSUME NEW steps \in Steps PROVE AfterStop(steps) \in Steps
BY DEF Steps, AfterStop, Step

LEMMA StopTyped ==
  ASSUME ScannerTypeOK, NEW steps \in Steps, Stop(steps) PROVE ScannerTypeOK'
BY AfterStopTyped DEF ScannerTypeOK, Stop, StopTracks, Steps

LEMMA StartScanTyped ==
  ASSUME ScannerTypeOK, NEW i \in Starts, StartScan(i) PROVE ScannerTypeOK'
<1>1. step \in Steps /\ AfterStop(step) \in Steps
  BY AfterStopTyped DEF ScannerTypeOK, Steps
<1>2. [step EXCEPT ![i] = "camera"] \in Steps /\ [AfterStop(step) EXCEPT ![i] = "camera"] \in Steps
  BY <1>1 DEF Steps, Step
<1>. QED
  BY <1>2 DEF ScannerTypeOK, StartScan, StopTracks, Steps

LEMMA ScannerStepTyped ==
  ASSUME ScannerTypeOK, NEW i \in Starts,
         \/ CameraGranted(i) \/ CameraDenied(i) \/ ShowVideo(i) \/ PlayRejected(i)
         \/ PlayStarted(i) \/ FrameFires(i) \/ NothingDetected(i) \/ CodeDetected(i)
  PROVE  ScannerTypeOK'
<1>1. step \in Steps
  BY DEF ScannerTypeOK, Steps
<1>2. [step EXCEPT ![i] = "none"] \in Steps
  BY <1>1 DEF Steps, Step
<1>3. CASE CameraDenied(i) \/ PlayRejected(i) \/ CodeDetected(i)
  BY <1>2, <1>3, StopTyped DEF CameraDenied, PlayRejected, CodeDetected, StartFails
<1>4. CASE CameraGranted(i) \/ ShowVideo(i)
  BY <1>1, <1>4 DEF ScannerTypeOK, CameraGranted, ShowVideo, StopTracks, Steps, Step
<1>5. CASE PlayStarted(i) \/ FrameFires(i) \/ NothingDetected(i)
  BY <1>1, <1>5 DEF ScannerTypeOK, PlayStarted, FrameFires, NothingDetected, ScanLoop, NextFrame,
                    EndLoop, Steps, Step
<1>. QED
  BY <1>3, <1>4, <1>5
------------------------------------------------------------------------------
(* The selection. *)

LEMMA TransitionTyped ==
  ASSUME ui \in UIState, NEW next \in UIState, Transition(next) PROVE ui' \in UIState
BY DEF Transition

LEMMA SelectTyped ==
  ASSUME SelectionTypeOK, NEW sel \in Selection, SelectFiles(sel) PROVE SelectionTypeOK'
<1>1. ui' \in UIState
  BY TransitionTyped DEF SelectionTypeOK, SelectFiles, UIState
<1>. QED
  BY <1>1 DEF SelectionTypeOK, SelectFiles

LEMMA ClearTyped ==
  ASSUME SelectionTypeOK, ui' \in UIState, ClearSelection PROVE SelectionTypeOK'
BY DEF SelectionTypeOK, ClearSelection

LEMMA EnsureTyped ==
  ASSUME SelectionTypeOK, ui' \in UIState, NEW c \in Continuation, EnsureSelectedFileReady(c)
  PROVE  SelectionTypeOK'
<1>1. CASE selectedFile # Nothing
  BY <1>1 DEF SelectionTypeOK, EnsureSelectedFileReady
<1>2. CASE selectedFile = Nothing /\ selectedFilesList \notin Archives
  BY <1>2 DEF SelectionTypeOK, EnsureSelectedFileReady
<1>3. CASE selectedFile = Nothing /\ selectedFilesList \in Archives
  BY <1>3, SelectionAssumption DEF SelectionTypeOK, EnsureSelectedFileReady
<1>. QED
  BY <1>1, <1>2, <1>3

LEMMA ArchiveTyped ==
  ASSUME SelectionTypeOK, NEW j \in Jobs, ArchiveDone(j) PROVE SelectionTypeOK'
BY DEF SelectionTypeOK, ArchiveDone, Failure, Continuation

LEMMA ResumedTyped ==
  ASSUME SelectionTypeOK, NEW c, Resumed(c), ui' \in UIState,
         UNCHANGED <<selectedFile, selectedFilesList, zipPromise, packing, waiting>>
  PROVE  SelectionTypeOK'
BY DEF SelectionTypeOK, Resumed

LEMMA SelectionStays ==
  ASSUME SelectionTypeOK, ui' \in UIState, UNCHANGED selectionVars PROVE SelectionTypeOK'
BY DEF SelectionTypeOK, selectionVars
------------------------------------------------------------------------------
(* The connections. *)

LEMMA GoneTyped == Gone \in Connection /\ [Gone EXCEPT !.phase = "orphaned"] \in Connection
BY DEF Gone, Connection, Caller, Starting

LEMMA CloseTyped ==
  ASSUME NEW conns \in [Conns -> Connection], NEW c \in Conns
  PROVE  CloseTransport(conns, c) \in [Conns -> Connection]
BY GoneTyped DEF CloseTransport

LEMMA CloseCurrentTyped ==
  ASSUME ConnOK PROVE CloseCurrent \in [Conns -> Connection]
BY CloseTyped DEF ConnOK, CloseCurrent

LEMMA StartTyped ==
  ASSUME ConnOK, NEW role \in {"sender", "receiver"}, NEW session \in Sessions \cup {Entered},
         NEW caller \in Caller, NEW text \in Badge, StartConnection(role, session, caller, text),
         timers' \subseteq timers
  PROVE  ConnOK' /\ badge' \in Badge
<1>. DEFINE c == CHOOSE d \in Unused : TRUE
            new == [Gone EXCEPT !.phase = "keys", !.role = role, !.session = session, !.by = caller]
<1>1. c \in Conns
  BY DEF StartConnection, Unused
<1>2. new \in Connection
  BY GoneTyped DEF Gone, Connection, Starting
<1>3. conn' = [CloseCurrent EXCEPT ![c] = new]
  BY DEF StartConnection
<1>4. CloseCurrent \in [Conns -> Connection]
  BY CloseCurrentTyped
<1>. HIDE DEF c, new
<1>5. conn' \in [Conns -> Connection]
  BY <1>1, <1>2, <1>3, <1>4
<1>6. badge' \in Badge
  BY DEF StartConnection, BadgeAfterClose, Badge
<1>. QED
  BY <1>5, <1>6 DEF StartConnection, ConnOK

LEMMA EnterTyped ==
  ASSUME ConnOK, NEW c \in Conns, NEW phase, phase \in Starting \cup {"gone", "joined", "open",
         "direct", "lost", "orphaned", "leaked"}
  PROVE  [conn EXCEPT ![c].phase = phase] \in [Conns -> Connection]
<1>1. [conn[c] EXCEPT !.phase = phase] \in Connection
  BY DEF ConnOK, Connection
<1>. QED
  BY <1>1 DEF ConnOK

LEMMA ScannerStays == ASSUME ScannerTypeOK, UNCHANGED scannerVars PROVE ScannerTypeOK'
BY DEF ScannerTypeOK, scannerVars

LEMMA ClosedTyped ==
  ASSUME NEW c \in Conns, NEW now \in UIState, NEW text \in Badge, timers \subseteq Conns,
         SignalingClosed(c, now, text)
  PROVE  ui' \in UIState /\ badge' \in Badge /\ timers' \subseteq Conns
BY DEF SignalingClosed, Badge

LEMMA UIStateValues == {"IDLE", "PAIRING", "CONNECTED", "TRANSFERRING", "VERIFYING", "ERROR",
                        "SELECTING_FILES", "CANCELLED"} \subseteq UIState
BY DEF UIState

\* What a connection does by itself, and what may happen to it.
LEMMA ConnectionTyped ==
  ASSUME PageTypeOK, NEW c \in Conns, ConnectionProgress(c) \/ ConnectionEvent(c)
  PROVE  PageTypeOK'
<1>. USE PageTypeParts
<1>1. conn \in [Conns -> Connection] /\ ui \in UIState /\ badge \in Badge /\ timers \subseteq Conns
  BY DEF ConnOK, ShellOK, SelectionTypeOK
<1>2. \A phase \in Starting \cup {"gone", "joined", "open", "direct", "lost", "orphaned", "leaked"} :
        [conn EXCEPT ![c].phase = phase] \in [Conns -> Connection]
  BY EnterTyped
<1>3. conn' \in [Conns -> Connection]
  <2>1. CASE KeysGenerated(c) \/ KeysExported(c) \/ TransportMade(c) \/ ServerRefuses(c)
             \/ SocketDrops(c) \/ ChannelCloses(c)
    BY <1>1, <1>2, <2>1 DEF KeysGenerated, KeysExported, TransportMade, ServerRefuses, SocketDrops,
                            ChannelCloses, Enter, Starting
  <2>2. CASE SocketOpens(c) \/ SocketFails(c) \/ PeerOpens(c) \/ PeerLeft(c)
    <3>1. /\ [conn[c] EXCEPT !.phase = "joined", !.by = "none"] \in Connection
          /\ [conn[c] EXCEPT !.phase = "lost", !.by = "none"] \in Connection
          /\ [conn[c] EXCEPT !.phase = "open", !.greeted = FALSE] \in Connection
      BY <1>1 DEF Connection
    <3>. QED
      BY <1>1, <1>2, <2>2, <3>1, GoneTyped DEF SocketOpens, SocketFails, PeerOpens, PeerLeft, Enter
  <2>. QED
    BY <2>1, <2>2 DEF ConnectionProgress, ConnectionEvent
<1>4. ui' \in UIState /\ badge' \in Badge /\ timers' \subseteq Conns
  <2>1. CASE KeysGenerated(c) \/ KeysExported(c) \/ TransportMade(c) \/ SocketOpens(c)
             \/ ChannelCloses(c) \/ PeerLeft(c)
    BY <1>1, <2>1 DEF KeysGenerated, KeysExported, TransportMade, SocketOpens, ChannelCloses,
                      PeerLeft, Badge
  <2>2. CASE ServerRefuses(c)
    BY <1>1, <2>2, UIStateValues DEF ServerRefuses, ErrorShown, Badge
  <2>3. CASE PeerOpens(c)
    BY <1>1, <2>3, UIStateValues DEF PeerOpens, Transition, Badge
  <2>4. CASE SocketFails(c) \/ SocketDrops(c)
    <3>1. "ERROR" \in UIState /\ "failed" \in Badge
      BY UIStateValues DEF Badge
    <3>. QED
      BY <1>1, <2>4, <3>1, ClosedTyped DEF SocketFails, SocketDrops
  <2>. QED
    BY <2>1, <2>2, <2>3, <2>4 DEF ConnectionProgress, ConnectionEvent
<1>5. {transport', keyPair', pubKey'} \subseteq Conns \cup {Nothing}
  BY DEF ConnectionProgress, ConnectionEvent, KeysGenerated, KeysExported, TransportMade,
         SocketOpens, SocketFails, ServerRefuses, SocketDrops, ChannelCloses, PeerOpens, PeerLeft,
         ConnOK
<1>6. UNCHANGED OtherVars
  BY DEF ConnectionProgress, ConnectionEvent
<1>7. ScannerTypeOK'
  BY <1>6, ScannerStays DEF OtherVars
<1>8. SelectionTypeOK'
  BY <1>4, <1>6, SelectionStays DEF OtherVars
<1>9. ShellOK'
  BY <1>4, <1>6 DEF OtherVars, ShellOK
<1>10. ConnOK'
  BY <1>3, <1>4, <1>5, <1>6 DEF OtherVars, ConnOK
<1>. QED
  BY <1>7, <1>8, <1>9, <1>10

\* startPeerConnection, from the pages' handlers.
LEMMA PairTyped ==
  ASSUME ConnOK, NEW caller \in Caller, Pair(caller), timers' = timers
  PROVE  ConnOK' /\ badge' \in Badge /\ ui' \in UIState
<1>1. ui' \in UIState /\ StartConnection("sender", Entered, caller, "connecting")
  BY UIStateValues DEF Pair
<1>. QED
  BY <1>1, StartTyped DEF Badge

LEMMA SessionTyped == ASSUME PageTypeOK, SessionArrives PROVE PageTypeOK'
<1>. USE PageTypeParts
<1>1. NewSession \in Sessions
  BY DEF SessionArrives, NewSession, Unknown
<1>2. ConnOK' /\ badge' \in Badge
  BY <1>1, StartTyped DEF SessionArrives, Badge, Caller
<1>3. ScannerTypeOK'
  BY ScannerStays DEF SessionArrives
<1>4. SelectionTypeOK'
  BY SelectionStays DEF SessionArrives, SelectionTypeOK
<1>5. fetching' \in 0..MaxFetches
  BY PageAssumption DEF SessionArrives, ShellOK
<1>6. ShellOK'
  BY <1>1, <1>2, <1>5 DEF SessionArrives, ShellOK
<1>. QED
  BY <1>2, <1>3, <1>4, <1>6

LEMMA TimerTyped == ASSUME PageTypeOK, NEW c \in Conns, ReconnectTimer(c) PROVE PageTypeOK'
<1>. USE PageTypeParts
<1>1. CASE currentSession # Nothing /\ ui \notin {"TRANSFERRING", "ERROR"}
  <2>1. currentSession \in Sessions /\ badge \in Badge
    BY <1>1 DEF ShellOK
  <2>2. timers' \subseteq timers /\ StartConnection("receiver", currentSession, "timer", badge)
    BY <1>1 DEF ReconnectTimer
  <2>. QED
    BY <2>1, <2>2, StartTyped, ScannerStays, SelectionStays
    DEF ReconnectTimer, ShellOK, SelectionTypeOK, Caller
<1>2. CASE ~(currentSession # Nothing /\ ui \notin {"TRANSFERRING", "ERROR"})
  <2>1. ConnOK' /\ badge' \in Badge
    BY <1>2 DEF ReconnectTimer, ConnOK, ShellOK
  <2>. QED
    BY <2>1, ScannerStays, SelectionStays DEF ReconnectTimer, ShellOK, SelectionTypeOK
<1>. QED
  BY <1>1, <1>2

LEMMA ResumeTyped == ASSUME PageTypeOK, Resumes PROVE PageTypeOK'
<1>. USE PageTypeParts
<1>1. CASE PairResumes
  <2>1. ConnOK' /\ badge' \in Badge /\ ui' \in UIState
    BY <1>1, PairTyped, UIStateValues DEF PairResumes, ConnOK, ShellOK, Caller
  <2>2. SelectionTypeOK'
    BY <1>1, <2>1, ResumedTyped DEF PairResumes
  <2>. QED
    BY <1>1, <2>1, <2>2, ScannerStays DEF PairResumes, ShellOK
<1>2. CASE ScanResumes
  <2>1. SelectionTypeOK'
    BY <1>2, ResumedTyped DEF ScanResumes, SelectionTypeOK
  <2>2. ScannerTypeOK' /\ modal' \in BOOLEAN
    <3>1. CASE result = Failure
      BY <1>2, <3>1, ScannerStays DEF ScanResumes, ShellOK
    <3>2. CASE result # Failure
      <4>. DEFINE i == CHOOSE j \in UnusedStarts : TRUE
      <4>1. StartScan(i) /\ modal' = TRUE
        BY <1>2, <3>2 DEF ScanResumes
      <4>2. i \in Starts
        BY <4>1 DEF StartScan, UnusedStarts
      <4>. QED
        BY <4>1, <4>2, StartScanTyped
    <3>. QED
      BY <3>1, <3>2
  <2>. QED
    BY <1>2, <2>1, <2>2 DEF ScanResumes, ShellOK, ConnOK
<1>3. CASE ChunkResumes
  <2>1. ui' \in UIState /\ badge' \in Badge
    BY <1>3, UIStateValues DEF ChunkResumes, SelectionTypeOK, ShellOK, Badge
  <2>2. SelectionTypeOK'
    BY <1>3, <2>1, ResumedTyped DEF ChunkResumes
  <2>3. offered' \in Selection \cup {Nothing}
    BY <1>3 DEF ChunkResumes, ConnOK, SelectionTypeOK
  <2>. QED
    BY <1>3, <2>1, <2>2, <2>3, ScannerStays DEF ChunkResumes, ShellOK, ConnOK
<1>. QED
  BY <1>1, <1>2, <1>3 DEF Resumes

LEMMA ResetTyped ==
  ASSUME PageTypeOK, NEW now \in UIState, Reset(now) PROVE PageTypeOK'
<1>. USE PageTypeParts
<1>1. ui' \in UIState /\ badge' \in Badge /\ currentRole' \in {"sender", "receiver"}
  BY UIStateValues DEF Reset, BadgeAfterClose, ShellOK, ConnOK, Badge
<1>2. SelectionTypeOK'
  BY <1>1, ClearTyped DEF Reset
<1>3. conn' \in [Conns -> Connection]
  BY CloseCurrentTyped DEF Reset
<1>4. ShellOK'
  BY <1>1 DEF Reset, ShellOK
<1>5. ConnOK'
  BY <1>1, <1>3 DEF Reset, ConnOK
<1>. QED
  BY <1>2, <1>4, <1>5, ScannerStays DEF Reset

\* A click on a tab, a button or a file.
LEMMA UserTyped == ASSUME PageTypeOK, UserStep PROVE PageTypeOK'
<1>. USE PageTypeParts
<1>1. ASSUME NEW tab \in {"send", "receive"}, SelectTab(tab) PROVE PageTypeOK'
  <2>1. fetching' \in 0..MaxFetches /\ displayed' \in Sessions \cup {Nothing}
    BY <1>1, PageAssumption DEF SelectTab, Fetch, ShellOK
  <2>2. currentRole' \in {"sender", "receiver"}
    BY <1>1 DEF SelectTab
  <2>. QED
    BY <1>1, <2>1, <2>2, ScannerStays, SelectionStays DEF SelectTab, ShellOK, ConnOK, SelectionTypeOK
<1>2. ASSUME NEW sel \in Selection, Select(sel) PROVE PageTypeOK'
  BY <1>2, SelectTyped, ScannerStays DEF Select, pageVars, ShellOK, ConnOK
<1>3. ASSUME NEW k \in {"pair", "scan"}, AskFor(k) PROVE PageTypeOK'
  <2>1. SelectionTypeOK'
    BY <1>3, EnsureTyped DEF AskFor, Continuation, SelectionTypeOK
  <2>. QED
    BY <1>3, <2>1, ScannerStays DEF AskFor, ShellOK, ConnOK, Badge
<1>4. CASE Refresh
  <2>1. conn' \in [Conns -> Connection]
    BY <1>4, CloseCurrentTyped DEF Refresh
  <2>2. badge' \in Badge /\ ui' \in UIState
    BY <1>4, UIStateValues DEF Refresh, BadgeAfterClose, ShellOK, Badge
  <2>3. fetching' \in 0..MaxFetches /\ displayed' \in Sessions \cup {Nothing}
    BY <1>4, PageAssumption DEF Refresh, Fetch, ShellOK
  <2>4. ShellOK'
    BY <1>4, <2>2, <2>3 DEF Refresh, ShellOK
  <2>5. ConnOK'
    BY <1>4, <2>1 DEF Refresh, ConnOK
  <2>. QED
    BY <1>4, <2>2, <2>4, <2>5, ScannerStays, SelectionStays DEF Refresh
<1>5. CASE Remove
  <2>1. ui' \in UIState
    BY <1>5, UIStateValues DEF Remove, Transition, SelectionTypeOK
  <2>. QED
    BY <1>5, <2>1, ClearTyped, ScannerStays DEF Remove, pageVars, ShellOK, ConnOK
<1>6. CASE PasteLink
  <2>1. ConnOK' /\ badge' \in Badge /\ ui' \in UIState
    BY <1>6, PairTyped DEF PasteLink, Caller
  <2>2. ScannerTypeOK'
    BY <1>6, StopTyped DEF PasteLink, ScannerTypeOK, Steps
  <2>. QED
    BY <1>6, <2>1, <2>2, SelectionStays DEF PasteLink, ShellOK
<1>7. CASE UploadImage
  BY <1>7, ScannerStays, SelectionStays DEF UploadImage, ShellOK, ConnOK, SelectionTypeOK
<1>8. CASE CloseScanner
  <2>1. ScannerTypeOK'
    BY <1>8, StopTyped DEF CloseScanner, ScannerTypeOK, Steps
  <2>. QED
    BY <1>8, <2>1, SelectionStays DEF CloseScanner, ShellOK, ConnOK, SelectionTypeOK
<1>9. CASE CancelTransfer
  BY <1>9, ResetTyped, UIStateValues DEF CancelTransfer
<1>10. CASE StartNew
  BY <1>10, ResetTyped DEF StartNew, SelectionTypeOK
<1>. QED
  BY <1>1, <1>2, <1>3, <1>4, <1>5, <1>6, <1>7, <1>8, <1>9, <1>10 DEF UserStep

\* What the browser, the server, the peer and the camera do.
LEMMA EventTyped == ASSUME PageTypeOK, Event PROVE PageTypeOK'
<1>. USE PageTypeParts
<1>1. CASE SessionFails
  <2>1. fetching' \in 0..MaxFetches
    BY <1>1, PageAssumption DEF SessionFails, ShellOK
  <2>2. ShellOK'
    BY <1>1, <2>1 DEF SessionFails, ShellOK, Badge
  <2>. QED
    BY <1>1, <2>2, ScannerStays, SelectionStays DEF SessionFails, ConnOK, SelectionTypeOK
<1>2. CASE ScannerMoves \/ ScannerWaits
  <2>1. ScannerTypeOK'
    BY <1>2, ScannerStepTyped DEF ScannerMoves, ScannerWaits, ScannerProgress
  <2>. QED
    BY <1>2, <2>1, SelectionStays DEF ScannerMoves, ScannerWaits, pageVars, ShellOK, ConnOK,
                                      SelectionTypeOK
<1>3. ASSUME ImageScanned PROVE PageTypeOK'
  <2>1. CASE Stop(step) /\ Pair("link")
    <3>1. ConnOK' /\ badge' \in Badge /\ ui' \in UIState
      BY <1>3, <2>1, PairTyped DEF ImageScanned, Caller
    <3>2. ScannerTypeOK'
      BY <2>1, StopTyped DEF ScannerTypeOK, Steps
    <3>. QED
      BY <1>3, <3>1, <3>2, SelectionStays DEF ImageScanned, ShellOK
  <2>2. CASE ~(Stop(step) /\ Pair("link"))
    BY <1>3, <2>2, ScannerStays, SelectionStays DEF ImageScanned, ShellOK, ConnOK, SelectionTypeOK
  <2>. QED
    BY <2>1, <2>2
<1>4. CASE TransferStarts
  <2>1. ui' \in UIState /\ busy' \in BOOLEAN
    BY <1>4, UIStateValues DEF TransferStarts, ShellOK
  <2>. QED
    BY <1>4, <2>1, ScannerStays, SelectionStays DEF TransferStarts, ShellOK, ConnOK
<1>5. CASE TransferGoesOn
  <2>1. ui' \in UIState
    BY <1>5, UIStateValues DEF TransferGoesOn
  <2>. QED
    BY <1>5, <2>1, ScannerStays, SelectionStays DEF TransferGoesOn, pageVars, ShellOK, ConnOK
<1>6. CASE PeerCancels
  BY <1>6, ResetTyped, UIStateValues DEF PeerCancels
<1>7. ASSUME NEW j \in Jobs, Archived(j) PROVE PageTypeOK'
  BY <1>7, ArchiveTyped, ScannerStays DEF Archived, pageVars, ShellOK, ConnOK
<1>8. ASSUME NEW i \in Starts, ScanHit(i) PROVE PageTypeOK'
  <2>1. ConnOK' /\ badge' \in Badge /\ ui' \in UIState
    BY <1>8, PairTyped DEF ScanHit, Caller
  <2>2. ScannerTypeOK'
    BY <1>8, ScannerStepTyped DEF ScanHit
  <2>. QED
    BY <1>8, <2>1, <2>2, SelectionStays DEF ScanHit, ShellOK
<1>9. ASSUME NEW c \in Conns, KeysDerived(c) PROVE PageTypeOK'
  <2>1. ui' \in UIState /\ badge' \in Badge
    BY <1>9, UIStateValues DEF KeysDerived, SelectionTypeOK, ShellOK, Badge
  <2>2. SelectionTypeOK'
    <3>1. CASE keyPair = Nothing \/ transport = Nothing
      BY <1>9, <2>1, <3>1, SelectionStays DEF KeysDerived
    <3>2. CASE ~(keyPair = Nothing \/ transport = Nothing)
      BY <1>9, <2>1, <3>2, SelectionStays, EnsureTyped DEF KeysDerived, Continuation
    <3>. QED
      BY <3>1, <3>2
  <2>3. cryptoKeys' = Nothing \/ cryptoKeys' \in CryptoKeys
    <3>1. CASE keyPair = Nothing \/ transport = Nothing
      BY <1>9, <3>1 DEF KeysDerived, ConnOK
    <3>2. CASE ~(keyPair = Nothing \/ transport = Nothing)
      BY <1>9, <3>2 DEF KeysDerived, ConnOK, CryptoKeys
    <3>. QED
      BY <3>1, <3>2
  <2>4. conn' \in [Conns -> Connection]
    <3>1. [conn[c] EXCEPT !.greeted = TRUE] \in Connection
      BY DEF ConnOK, Connection
    <3>. QED
      BY <1>9, <3>1 DEF KeysDerived, ConnOK
  <2>5. ConnOK'
    BY <1>9, <2>3, <2>4 DEF KeysDerived, ConnOK
  <2>6. ShellOK'
    BY <1>9, <2>1 DEF KeysDerived, ShellOK
  <2>. QED
    BY <1>9, <2>2, <2>5, <2>6, ScannerStays DEF KeysDerived
<1>. QED
  BY <1>1, <1>2, <1>3, <1>4, <1>5, <1>6, <1>7, <1>8, <1>9, SessionTyped, TimerTyped, ConnectionTyped
  DEF Event

LEMMA PageTypeInit == Init => PageTypeOK
<1>. SUFFICES ASSUME Init PROVE PageTypeOK
  OBVIOUS
<1>1. ScannerTypeOK
  BY DEF Init, ScannerInit, ScannerTypeOK, Step
<1>2. SelectionTypeOK
  BY DEF Init, SelectionInit, SelectionTypeOK, UIState
<1>3. fetching \in 0..MaxFetches
  BY PageAssumption DEF Init
<1>4. conn \in [Conns -> Connection]
  BY GoneTyped DEF Init
<1>5. badge \in Badge
  BY DEF Init, Badge
<1>. QED
  BY <1>1, <1>2, <1>3, <1>4, <1>5 DEF Init, PageTypeOK

LEMMA PageTypeStep == PageTypeOK /\ [Next]_vars => PageTypeOK'
<1>. SUFFICES ASSUME PageTypeOK, [Next]_vars PROVE PageTypeOK'
  OBVIOUS
<1>1. CASE UNCHANGED vars
  BY <1>1 DEF vars, selectionVars, scannerVars, pageVars, PageTypeOK, ScannerTypeOK, SelectionTypeOK
<1>. QED
  BY <1>1, UserTyped, ResumeTyped, EventTyped DEF Next

\* The page keeps the types of its state, whatever its user does: no
\* interleaving of handlers with the waits of startPeerConnection, of the
\* scanner or of the packing leaves a variable without a value of its type.
THEOREM PageTypeCorrect == Spec => []PageTypeOK
BY PageTypeInit, PageTypeStep, PTL DEF Spec
------------------------------------------------------------------------------
(* One scan at a time.  A user who does not hurry asks for the scanner when *)
(* the last scan is over, so that at most one start is at one of its waits, *)
(* and the only stream that can run is the one stop() knows.                *)

ScanDue == waiting["scan"] # Nothing \/ "scan" \in resumed

DueOnce == waiting["scan"] = Nothing \/ "scan" \notin resumed

\* No scan becomes due.
DueStays == (ScanDue' => ScanDue) /\ (DueOnce => DueOnce')

OneScan ==
  /\ DueOnce
  /\ \A i, j \in Starts : i # j => step[i] = "none" \/ step[j] = "none"
  /\ NoStreamForgotten
  /\ \A i \in Starts : step[i] = "camera" => running = {}
  /\ running # {} => isScanning \/ \E i \in Starts : step[i] = "focus"
  /\ ScanDue => ScannerIdle

LEMMA ScanStays ==
  ASSUME OneScan, UNCHANGED scannerVars, DueStays PROVE OneScan'
BY DEF OneScan, DueStays, scannerVars, ScannerIdle, NoStreamForgotten

LEMMA ScanStops ==
  ASSUME OneScan, NEW steps, \A i \in Starts : steps[i] = "none" \/ steps[i] = step[i],
         Stop(steps), DueStays
  PROVE  OneScan'
<1>1. running' = {}
  BY DEF Stop, StopTracks, OneScan, NoStreamForgotten
<1>2. \A i \in Starts : step[i] = "none" => step'[i] = "none"
  BY DEF Stop, AfterStop
<1>. QED
  BY <1>1, <1>2 DEF OneScan, DueStays, ScannerIdle, NoStreamForgotten

LEMMA ScanMoves ==
  ASSUME ScannerTypeOK, OneScan, DueStays, NEW i \in Starts,
         \/ CameraGranted(i) \/ CameraDenied(i) \/ ShowVideo(i) \/ PlayRejected(i)
         \/ PlayStarted(i) \/ FrameFires(i) \/ NothingDetected(i) \/ CodeDetected(i)
  PROVE  OneScan'
<1>1. step \in [Starts -> Step] /\ stream \in Starts \cup {NoStart}
  BY DEF ScannerTypeOK
<1>2. step[i] # "none" /\ \A j \in Starts \ {i} : step[j] = "none"
  BY DEF OneScan, CameraGranted, CameraDenied, ShowVideo, PlayRejected, PlayStarted, FrameFires,
         NothingDetected, CodeDetected
<1>3. ~ScanDue' /\ DueOnce'
  BY <1>2 DEF OneScan, DueStays, ScannerIdle
<1>4. CASE CameraDenied(i) \/ PlayRejected(i) \/ CodeDetected(i)
  <2>1. Stop([step EXCEPT ![i] = "none"])
    BY <1>4 DEF CameraDenied, PlayRejected, CodeDetected, StartFails
  <2>. QED
    BY <1>1, <2>1, ScanStops
<1>5. CASE CameraGranted(i)
  <2>1. running' = {i} /\ stream' = i
    BY <1>5 DEF CameraGranted, OneScan
  <2>2. step' = [step EXCEPT ![i] = "focus"]
    BY <1>5 DEF CameraGranted
  <2>. QED
    BY <1>1, <1>2, <1>3, <2>1, <2>2 DEF OneScan, NoStreamForgotten
<1>6. CASE ShowVideo(i)
  <2>1. step'[i] \in {"none", "play"} /\ \A j \in Starts \ {i} : step'[j] = "none"
    BY <1>1, <1>2, <1>6 DEF ShowVideo
  <2>2. isScanning' = isScanning /\ running' \subseteq {stream'} /\ (running' # {} => isScanning)
    BY <1>6 DEF ShowVideo, StopTracks, OneScan, NoStreamForgotten
  <2>. QED
    BY <1>3, <2>1, <2>2 DEF OneScan, NoStreamForgotten
<1>7. CASE PlayStarted(i) \/ FrameFires(i) \/ NothingDetected(i)
  <2>1. step'[i] \in {"none", "detect", "frame"} /\ \A j \in Starts \ {i} : step'[j] = "none"
    BY <1>1, <1>2, <1>7 DEF PlayStarted, FrameFires, NothingDetected, ScanLoop, NextFrame, EndLoop
  <2>2. UNCHANGED <<isScanning, stream, running>>
    BY <1>7 DEF PlayStarted, FrameFires, NothingDetected, ScanLoop
  <2>3. step[i] \in {"play", "frame", "detect"}
    BY <1>7 DEF PlayStarted, FrameFires, NothingDetected
  <2>4. running # {} => isScanning
    BY <1>2, <2>3 DEF OneScan
  <2>. QED
    BY <1>3, <2>1, <2>2, <2>4 DEF OneScan, NoStreamForgotten
<1>. QED
  BY <1>4, <1>5, <1>6, <1>7

LEMMA ScanStarts ==
  ASSUME ScannerTypeOK, OneScan, ScannerIdle, NEW i \in Starts, StartScan(i), ~ScanDue', DueOnce'
  PROVE  OneScan'
<1>1. running' = {}
  BY DEF StartScan, StopTracks, OneScan, ScannerIdle, NoStreamForgotten
<1>2. \A j \in Starts \ {i} : step'[j] = "none"
  BY DEF StartScan, AfterStop, ScannerIdle, ScannerTypeOK
<1>. QED
  BY <1>1, <1>2 DEF OneScan, NoStreamForgotten

\* Who waits for a scan after the two steps of a promise.
LEMMA ScanDueStays ==
  ASSUME SelectionTypeOK,
         \/ \E c \in {"pair", "chunk"} : EnsureSelectedFileReady(c)
         \/ \E c : Resumed(c) /\ UNCHANGED waiting
         \/ \E j \in Jobs : ArchiveDone(j)
         \/ UNCHANGED <<waiting, resumed>>
  PROVE  DueStays
<1>1. CASE \E c \in {"pair", "chunk"} : EnsureSelectedFileReady(c)
  <2>1. PICK c \in {"pair", "chunk"} : EnsureSelectedFileReady(c)
    BY <1>1
  <2>2. \/ waiting' = waiting /\ resumed' = resumed \cup {c}
        \/ resumed' = resumed /\ \E j : waiting' = [waiting EXCEPT ![c] = j]
    BY <2>1 DEF EnsureSelectedFileReady
  <2>. QED
    BY <2>2 DEF DueStays, DueOnce, ScanDue, SelectionTypeOK, Continuation
<1>2. CASE \E c : Resumed(c) /\ UNCHANGED waiting
  BY <1>2 DEF Resumed, DueStays, DueOnce, ScanDue
<1>3. CASE \E j \in Jobs : ArchiveDone(j)
  BY <1>3, SelectionAssumption DEF ArchiveDone, DueStays, DueOnce, ScanDue, SelectionTypeOK, Continuation
<1>4. CASE UNCHANGED <<waiting, resumed>>
  BY <1>4 DEF DueStays, DueOnce, ScanDue
<1>. QED
  BY <1>1, <1>2, <1>3, <1>4

LEMMA OneScanInit == Init => OneScan
BY DEF Init, ScannerInit, SelectionInit, OneScan, ScanDue, DueOnce, ScannerIdle, NoStreamForgotten,
       Continuation

LEMMA OneScanStep ==
  ASSUME "hurries" \notin Habits, PageTypeOK, OneScan, [Next]_vars PROVE OneScan'
<1>. USE PageTypeParts
<1>1. CASE UserStep
  <2>1. CASE AskFor("scan")
    <3>1. ScannerIdle /\ UNCHANGED scannerVars
      BY <2>1 DEF AskFor
    <3>2. resumed = {} /\ waiting["scan"] = Nothing
      BY <2>1 DEF AskFor, UserMay, Settled, Continuation
    <3>3. DueOnce'
      BY <2>1, <3>2, SelectionAssumption DEF AskFor, EnsureSelectedFileReady, DueOnce
    <3>. QED
      BY <3>1, <3>3 DEF OneScan, scannerVars, ScannerIdle, NoStreamForgotten
  <2>2. CASE PasteLink \/ CloseScanner
    <3>1. Stop(step) /\ DueStays
      BY <2>2, ScanDueStays DEF PasteLink, CloseScanner, selectionVars
    <3>. QED
      BY <3>1, ScanStops
  <2>3. CASE ~(AskFor("scan") \/ PasteLink \/ CloseScanner)
    <3>1. UNCHANGED scannerVars
      BY <1>1, <2>3 DEF UserStep, SelectTab, Select, AskFor, Refresh, Remove, UploadImage,
                        CancelTransfer, StartNew, Reset
    <3>2. DueStays
      <4>1. CASE AskFor("pair")
        BY <4>1, ScanDueStays DEF AskFor
      <4>2. CASE ~AskFor("pair")
        BY <1>1, <2>3, <4>2, ScanDueStays
        DEF UserStep, SelectTab, Select, SelectFiles, Refresh, Remove, UploadImage, CancelTransfer,
            StartNew, Reset, ClearSelection, selectionVars
      <4>. QED
        BY <4>1, <4>2
    <3>. QED
      BY <3>1, <3>2, ScanStays
  <2>. QED
    BY <2>1, <2>2, <2>3
<1>2. CASE Resumes
  <2>1. DueStays
    BY <1>2, ScanDueStays DEF Resumes, PairResumes, ScanResumes, ChunkResumes
  <2>2. CASE ScanResumes /\ result # Failure
    <3>. DEFINE i == CHOOSE j \in UnusedStarts : TRUE
    <3>1. StartScan(i) /\ i \in Starts
      BY <2>2 DEF ScanResumes, StartScan, UnusedStarts
    <3>2. ScannerIdle
      BY <2>2 DEF ScanResumes, Resumed, OneScan, ScanDue
    <3>3. ~ScanDue' /\ DueOnce'
      BY <2>2 DEF ScanResumes, Resumed, ScanDue, DueOnce, OneScan
    <3>. QED
      BY <3>1, <3>2, <3>3, ScanStarts
  <2>3. CASE ~(ScanResumes /\ result # Failure)
    <3>1. UNCHANGED scannerVars
      BY <1>2, <2>3 DEF Resumes, PairResumes, ScanResumes, ChunkResumes
    <3>. QED
      BY <2>1, <3>1, ScanStays
  <2>. QED
    BY <2>2, <2>3
<1>3. CASE Event
  <2>1. DueStays
    <3>1. ASSUME NEW c \in Conns, KeysDerived(c) PROVE DueStays
      BY <3>1, ScanDueStays DEF KeysDerived, selectionVars
    <3>2. CASE PeerCancels \/ \E j \in Jobs : Archived(j)
      BY <3>2, ScanDueStays DEF PeerCancels, Reset, ClearSelection, Archived
    <3>3. CASE UNCHANGED selectionVars
      BY <3>3, ScanDueStays DEF selectionVars
    <3>4. \/ PeerCancels \/ UNCHANGED selectionVars
          \/ \E j \in Jobs : Archived(j)
          \/ \E c \in Conns : KeysDerived(c)
      BY <1>3 DEF Event, SessionArrives, SessionFails, ScannerMoves, ScannerWaits, ImageScanned,
                  TransferStarts, TransferGoesOn, ScanHit, ConnectionProgress, ConnectionEvent,
                  OtherVars, ReconnectTimer
    <3>. QED
      BY <3>1, <3>2, <3>3, <3>4
  <2>2. CASE ScannerMoves \/ ScannerWaits \/ \E i \in Starts : ScanHit(i)
    BY <2>1, <2>2, ScanMoves DEF ScannerMoves, ScannerWaits, ScannerProgress, ScanHit
  <2>3. CASE ImageScanned
    <3>1. Stop(step) \/ UNCHANGED scannerVars
      BY <2>3 DEF ImageScanned
    <3>. QED
      BY <2>1, <3>1, ScanStops, ScanStays
  <2>4. CASE ~(ScannerMoves \/ ScannerWaits \/ ImageScanned \/ \E i \in Starts : ScanHit(i))
    <3>1. UNCHANGED scannerVars
      BY <1>3, <2>4 DEF Event, SessionArrives, SessionFails, TransferStarts, TransferGoesOn,
           PeerCancels, Reset, Archived, ConnectionProgress, ConnectionEvent, OtherVars,
           ReconnectTimer, KeysDerived
    <3>. QED
      BY <2>1, <3>1, ScanStays
  <2>. QED
    BY <2>2, <2>3, <2>4
<1>4. CASE UNCHANGED vars
  BY <1>4, ScanStays, ScanDueStays DEF vars, selectionVars
<1>. QED
  BY <1>1, <1>2, <1>3, <1>4 DEF Next

\* "Strict camera stream cleanup (stopping all tracks on close)": with a user
\* who asks for one scan at a time, the only camera stream that runs is the one
\* stop() stops, wherever the starts have come to.
THEOREM StreamsAreKept ==
  ASSUME "hurries" \notin Habits PROVE Spec => []NoStreamForgotten
<1>1. PageTypeOK /\ OneScan /\ [Next]_vars => OneScan'
  BY OneScanStep
<1>2. OneScan => NoStreamForgotten
  BY DEF OneScan
<1>. QED
  BY <1>1, <1>2, OneScanInit, PageTypeCorrect, PTL DEF Spec
------------------------------------------------------------------------------
(* The selection.  Whatever is packed, held or handed to the chunker is the *)
(* selection that is shown, as long as one is shown: an archive is packed   *)
(* while the user waits, and a new selection replaces the old one only when *)
(* nothing is under way.                                                    *)

Shown(sel) == sel = selectedFilesList \/ selectedFilesList = Nothing

SelInv ==
  /\ selectedFile # Nothing => Shown(selectedFile)
  /\ \A j \in Jobs : packing[j] # Nothing => Shown(packing[j])
  /\ "chunk" \in resumed => result \in {Nothing, Failure} \/ Shown(result)

LEMMA SelStays == ASSUME SelInv, UNCHANGED selectionVars PROVE SelInv'
BY DEF SelInv, Shown, selectionVars

LEMMA SelPrepared ==
  ASSUME SelectionTypeOK, SelInv, NEW c \in Continuation, EnsureSelectedFileReady(c) PROVE SelInv'
<1>1. UNCHANGED selectedFilesList
  BY DEF EnsureSelectedFileReady
<1>2. selectedFile' # Nothing => Shown(selectedFile')
  BY DEF EnsureSelectedFileReady, SelInv, Shown
<1>3. \A j \in Jobs : packing'[j] # Nothing => Shown(packing'[j])
  BY DEF EnsureSelectedFileReady, SelInv, Shown, SelectionTypeOK
<1>4. \/ UNCHANGED <<resumed, result>>
      \/ result' = Nothing \/ Shown(result')
  BY DEF EnsureSelectedFileReady, SelInv, Shown
<1>. QED
  BY <1>1, <1>2, <1>3, <1>4 DEF SelInv, Shown

LEMMA SelResumed ==
  ASSUME SelInv, NEW c, Resumed(c), UNCHANGED <<selectedFile, selectedFilesList, packing>>
  PROVE  SelInv'
BY DEF SelInv, Shown, Resumed

LEMMA SelCleared ==
  ASSUME SelInv, ClearSelection PROVE SelInv'
BY DEF SelInv, Shown, ClearSelection

LEMMA SelArchived ==
  ASSUME SelectionTypeOK, SelInv, NEW j \in Jobs, ArchiveDone(j) PROVE SelInv'
<1>1. UNCHANGED selectedFilesList /\ Shown(packing[j])
  BY DEF ArchiveDone, SelInv
<1>2. selectedFile' # Nothing => Shown(selectedFile')
  BY <1>1 DEF ArchiveDone, SelInv
<1>3. \A k \in Jobs : packing'[k] # Nothing => Shown(packing'[k])
  BY <1>1 DEF ArchiveDone, SelInv, SelectionTypeOK
<1>4. result' = Failure \/ Shown(result')
  BY <1>1 DEF ArchiveDone
<1>. QED
  BY <1>1, <1>2, <1>3, <1>4 DEF SelInv, Shown

LEMMA SelChosen ==
  ASSUME SelInv, NEW sel \in Selection, SelectFiles(sel), Settled PROVE SelInv'
<1>1. resumed = {} /\ \A j \in Jobs : packing[j] = Nothing
  BY DEF Settled, Packing
<1>. QED
  BY <1>1 DEF SelInv, Shown, SelectFiles

LEMMA SelInvStep == ASSUME "hurries" \notin Habits, PageTypeOK, SelInv, [Next]_vars PROVE SelInv'
<1>. USE PageTypeParts
<1>1. CASE UserStep
  <2>1. ASSUME NEW sel \in Selection, Select(sel) PROVE SelInv'
    BY <2>1, SelChosen DEF Select, UserMay
  <2>2. CASE AskFor("pair") \/ AskFor("scan")
    BY <2>2, SelPrepared DEF AskFor, Continuation
  <2>3. CASE Remove \/ CancelTransfer \/ StartNew
    BY <2>3, SelCleared DEF Remove, CancelTransfer, StartNew, Reset
  <2>4. CASE Refresh \/ PasteLink \/ UploadImage \/ CloseScanner
             \/ \E tab \in {"send", "receive"} : SelectTab(tab)
    BY <2>4, SelStays DEF Refresh, PasteLink, UploadImage, CloseScanner, SelectTab
  <2>. QED
    BY <1>1, <2>1, <2>2, <2>3, <2>4 DEF UserStep
<1>2. CASE Resumes
  BY <1>2, SelResumed DEF Resumes, PairResumes, ScanResumes, ChunkResumes
<1>3. CASE Event
  <2>1. ASSUME NEW c \in Conns, KeysDerived(c) PROVE SelInv'
    <3>1. UNCHANGED selectionVars \/ EnsureSelectedFileReady("chunk")
      BY <2>1 DEF KeysDerived
    <3>. QED
      BY <3>1, SelStays, SelPrepared DEF Continuation
  <2>2. CASE PeerCancels
    BY <2>2, SelCleared DEF PeerCancels, Reset
  <2>3. ASSUME NEW j \in Jobs, Archived(j) PROVE SelInv'
    BY <2>3, SelArchived DEF Archived
  <2>4. \/ PeerCancels \/ UNCHANGED selectionVars
        \/ \E j \in Jobs : Archived(j)
        \/ \E c \in Conns : KeysDerived(c)
    BY <1>3 DEF Event, SessionArrives, SessionFails, ScannerMoves, ScannerWaits, ImageScanned,
                TransferStarts, TransferGoesOn, ScanHit, ConnectionProgress, ConnectionEvent,
                OtherVars, ReconnectTimer
  <2>. QED
    BY <2>1, <2>2, <2>3, <2>4, SelStays
<1>4. CASE UNCHANGED vars
  BY <1>4, SelStays DEF vars
<1>. QED
  BY <1>1, <1>2, <1>3, <1>4 DEF Next

\* Only the chunk continuation offers something, and it offers its result.
LEMMA OfferStep ==
  ASSUME SelInv, [Next]_vars, offered' \notin {offered, Nothing}
  PROVE  offered' = selectedFilesList \/ selectedFilesList = Nothing
<1>1. CASE ChunkResumes
  BY <1>1 DEF ChunkResumes, Resumed, SelInv, Shown
<1>2. CASE UserStep
  BY <1>2 DEF UserStep, SelectTab, Select, AskFor, Refresh, Remove, PasteLink, UploadImage,
     CloseScanner, CancelTransfer, StartNew, Reset, Pair, StartConnection, pageVars
<1>3. CASE PairResumes \/ ScanResumes
  BY <1>3 DEF PairResumes, ScanResumes, Pair, StartConnection
<1>4. CASE Event
  BY <1>4 DEF Event, SessionArrives, SessionFails, ScannerMoves, ScannerWaits, ImageScanned,
     TransferStarts, TransferGoesOn, PeerCancels, Reset, Archived, ScanHit, ConnectionProgress,
     ConnectionEvent, OtherVars, ReconnectTimer, KeysDerived, Pair, StartConnection, pageVars
<1>5. CASE UNCHANGED vars
  BY <1>5 DEF vars, pageVars
<1>. QED
  BY <1>1, <1>2, <1>3, <1>4, <1>5 DEF Next, Resumes

\* What a page offers to its peer is the selection the page shows, if it shows
\* one, and never an archive packed for an earlier one, with a user who waits
\* for what was asked for last.
THEOREM SelectionIsOffered ==
  ASSUME "hurries" \notin Habits PROVE Spec => OfferedIsSelected
<1>1. Init => SelInv
  BY DEF Init, SelectionInit, SelInv
<1>2. PageTypeOK /\ SelInv /\ [Next]_vars => SelInv'
  BY SelInvStep
<1>3. SelInv /\ [Next]_vars =>
        [offered' \notin {offered, Nothing} =>
           offered' = selectedFilesList \/ selectedFilesList = Nothing]_vars
  BY OfferStep
<1>. QED
  BY <1>1, <1>2, <1>3, PageTypeCorrect, PTL DEF Spec, OfferedIsSelected
------------------------------------------------------------------------------
(* What the sender's user has asked for.  With a user who waits, the form,  *)
(* the scanner and the picture never want to connect at the same time: one  *)
(* of them at most is under way.                                            *)

Asked == {k \in {"pair", "scan"} : waiting[k] # Nothing \/ k \in resumed}

AskedOnce ==
  /\ \A k, l \in Asked : k = l
  /\ \A k \in Asked : waiting[k] = Nothing \/ k \notin resumed

ModalInv ==
  /\ Asked # {} => ~modal /\ ~uploading
  /\ isScanning => modal

\* A connection of the sender's page may be asked for at any moment.
SenderDue == Asked # {} \/ isScanning \/ uploading

LEMMA AskedLess ==
  ASSUME SelectionTypeOK, AskedOnce,
         \/ EnsureSelectedFileReady("chunk")
         \/ \E c : Resumed(c) /\ UNCHANGED waiting
         \/ \E j \in Jobs : ArchiveDone(j)
         \/ UNCHANGED <<waiting, resumed>>
  PROVE  Asked' \subseteq Asked /\ AskedOnce'
<1>1. CASE EnsureSelectedFileReady("chunk")
  <2>1. \/ waiting' = waiting /\ resumed' = resumed \cup {"chunk"}
        \/ resumed' = resumed /\ \E j : waiting' = [waiting EXCEPT !["chunk"] = j]
    BY <1>1 DEF EnsureSelectedFileReady
  <2>2. Asked' = Asked /\ \A k \in {"pair", "scan"} : waiting'[k] = waiting[k]
    BY <2>1 DEF Asked, SelectionTypeOK, Continuation
  <2>3. \A k \in Asked : k \in resumed' => k \in resumed
    BY <2>1 DEF Asked
  <2>. QED
    BY <2>2, <2>3 DEF AskedOnce, Asked
<1>2. CASE \E c : Resumed(c) /\ UNCHANGED waiting
  <2>1. Asked' \subseteq Asked /\ resumed' \subseteq resumed /\ waiting' = waiting
    BY <1>2 DEF Resumed, Asked
  <2>. QED
    BY <2>1 DEF AskedOnce
<1>3. CASE \E j \in Jobs : ArchiveDone(j)
  <2>1. \A k \in Continuation : \/ waiting'[k] = waiting[k] /\ (k \in resumed' <=> k \in resumed)
                                \/ waiting'[k] = Nothing /\ waiting[k] # Nothing /\ k \in resumed'
    BY <1>3, SelectionAssumption DEF ArchiveDone, SelectionTypeOK
  <2>2. Asked' \subseteq Asked
    BY <2>1 DEF Asked, Continuation
  <2>3. \A k \in Asked' : waiting'[k] = Nothing \/ k \notin resumed'
    BY <2>1, <2>2 DEF AskedOnce, Asked, Continuation
  <2>. QED
    BY <2>2, <2>3 DEF AskedOnce
<1>4. CASE UNCHANGED <<waiting, resumed>>
  BY <1>4 DEF Asked, AskedOnce
<1>. QED
  BY <1>1, <1>2, <1>3, <1>4

\* What continues leaves nothing asked for.
LEMMA NothingAsked ==
  ASSUME AskedOnce, NEW k \in {"pair", "scan"}, Resumed(k), UNCHANGED waiting
  PROVE  Asked # {} /\ Asked' = {}
<1>1. k \in Asked /\ waiting[k] = Nothing
  BY DEF Resumed, Asked, AskedOnce
<1>2. Asked = {k}
  BY <1>1 DEF AskedOnce
<1>. QED
  BY <1>1, <1>2 DEF Resumed, Asked

LEMMA NothingIsAsked == ASSUME Settled PROVE Asked = {} /\ resumed = {}
BY DEF Settled, Asked, Continuation

\* Only the buttons ask.
LEMMA AskedStep ==
  ASSUME PageTypeOK, AskedOnce, "hurries" \notin Habits, [Next]_vars
  PROVE  /\ AskedOnce'
         /\ Asked' \subseteq Asked \/ AskFor("pair") \/ AskFor("scan")
<1>. USE PageTypeParts
<1>1. ASSUME NEW k \in {"pair", "scan"}, AskFor(k) PROVE AskedOnce'
  <2>1. Asked = {} /\ resumed = {}
    BY <1>1, NothingIsAsked DEF AskFor, UserMay
  <2>2. \/ waiting' = waiting /\ resumed' = {k}
        \/ resumed' = {} /\ \E j : waiting' = [waiting EXCEPT ![k] = j]
    BY <1>1, <2>1 DEF AskFor, EnsureSelectedFileReady
  <2>3. Asked' \subseteq {k}
    BY <2>1, <2>2 DEF Asked, SelectionTypeOK, Continuation
  <2>4. waiting[k] = Nothing
    BY <1>1 DEF AskFor, EnsureSelectedFileReady
  <2>. QED
    BY <2>2, <2>3, <2>4 DEF AskedOnce
<1>2. CASE UNCHANGED <<waiting, resumed>>
  BY <1>2, AskedLess
<1>3. CASE Resumes
  BY <1>3, AskedLess DEF Resumes, PairResumes, ScanResumes, ChunkResumes
<1>4. ASSUME NEW c \in Conns, KeysDerived(c) PROVE AskedOnce' /\ Asked' \subseteq Asked
  <2>1. EnsureSelectedFileReady("chunk") \/ UNCHANGED <<waiting, resumed>>
    BY <1>4 DEF KeysDerived, selectionVars
  <2>. QED
    BY <2>1, AskedLess
<1>5. ASSUME NEW j \in Jobs, Archived(j) PROVE AskedOnce' /\ Asked' \subseteq Asked
  BY <1>5, AskedLess DEF Archived
<1>6. \/ AskFor("pair") \/ AskFor("scan") \/ Resumes \/ UNCHANGED <<waiting, resumed>>
      \/ \E c \in Conns : KeysDerived(c)
      \/ \E j \in Jobs : Archived(j)
  <2>1. CASE UserStep
    BY <2>1 DEF UserStep, SelectTab, Select, SelectFiles, Refresh, Remove, PasteLink, UploadImage,
       CloseScanner, CancelTransfer, StartNew, Reset, ClearSelection, selectionVars
  <2>2. CASE Event
    BY <2>2 DEF Event, SessionArrives, SessionFails, ScannerMoves, ScannerWaits, ImageScanned,
       TransferStarts, TransferGoesOn, PeerCancels, Reset, ClearSelection, ScanHit,
       ConnectionProgress, ConnectionEvent, OtherVars, ReconnectTimer, selectionVars
  <2>. QED
    BY <2>1, <2>2 DEF Next, vars, selectionVars
<1>. QED
  BY <1>1, <1>2, <1>3, <1>4, <1>5, <1>6

\* The scanner's dialog.
LEMMA ScanningStays ==
  ASSUME NEW i \in Starts,
         \/ CameraGranted(i) \/ CameraDenied(i) \/ ShowVideo(i) \/ PlayRejected(i)
         \/ PlayStarted(i) \/ FrameFires(i) \/ NothingDetected(i)
  PROVE  isScanning' => isScanning
BY DEF CameraGranted, CameraDenied, ShowVideo, PlayRejected, PlayStarted, FrameFires,
       NothingDetected, ScanLoop, StartFails, Stop

\* Only the continuation of the scan button opens it, and only the choice of a
\* picture starts a search.
LEMMA ModalStep ==
  ASSUME [Next]_vars
  PROVE  \/ AskFor("scan") \/ AskFor("pair") \/ ScanResumes \/ UploadImage
         \/ /\ modal' => modal
            /\ uploading' => uploading
            /\ isScanning' => isScanning /\ modal' = modal
<1>1. CASE CloseScanner \/ PasteLink \/ \E i \in Starts : ScanHit(i)
  BY <1>1 DEF CloseScanner, PasteLink, ScanHit, CodeDetected, Stop
<1>2. CASE ImageScanned
  BY <1>2 DEF ImageScanned, Stop, scannerVars
<1>3. CASE ScannerMoves \/ ScannerWaits
  BY <1>3, ScanningStays DEF ScannerMoves, ScannerWaits, ScannerProgress, pageVars
<1>4. \/ AskFor("scan") \/ AskFor("pair") \/ ScanResumes \/ UploadImage \/ ImageScanned
      \/ CloseScanner \/ PasteLink \/ (\E i \in Starts : ScanHit(i)) \/ ScannerMoves \/ ScannerWaits
      \/ UNCHANGED <<modal, uploading, isScanning>>
  <2>1. CASE UserStep
    BY <2>1 DEF UserStep, SelectTab, Select, Refresh, Remove, CancelTransfer, StartNew, Reset,
       scannerVars, pageVars
  <2>2. CASE Event
    BY <2>2 DEF Event, SessionArrives, SessionFails, TransferStarts, TransferGoesOn, PeerCancels,
       Reset, Archived, KeysDerived, ConnectionProgress, ConnectionEvent, OtherVars, ReconnectTimer,
       scannerVars, pageVars
  <2>3. CASE PairResumes \/ ChunkResumes
    BY <2>3 DEF PairResumes, ChunkResumes, scannerVars
  <2>. QED
    BY <2>1, <2>2, <2>3 DEF Next, Resumes, vars, scannerVars, pageVars
<1>. QED
  BY <1>1, <1>2, <1>3, <1>4

LEMMA ModalInvStep ==
  ASSUME PageTypeOK, AskedOnce, ModalInv, "hurries" \notin Habits, [Next]_vars PROVE ModalInv'
<1>1. CASE AskFor("pair") \/ AskFor("scan")
  <2>1. ~modal /\ ~uploading /\ UNCHANGED <<modal, uploading, isScanning>>
    BY <1>1 DEF AskFor, UserMay, Settled, scannerVars
  <2>. QED
    BY <2>1 DEF ModalInv
<1>2. CASE ScanResumes
  <2>1. Asked' = {}
    BY <1>2, NothingAsked DEF ScanResumes
  <2>2. isScanning' => modal'
    BY <1>2 DEF ScanResumes, scannerVars, ModalInv
  <2>. QED
    BY <2>1, <2>2 DEF ModalInv
<1>3. CASE UploadImage
  <2>1. Asked = {} /\ UNCHANGED <<waiting, resumed, modal, isScanning>>
    BY <1>3, NothingIsAsked DEF UploadImage, UserMay, selectionVars, scannerVars
  <2>. QED
    BY <2>1 DEF ModalInv, Asked
<1>4. CASE ~(AskFor("pair") \/ AskFor("scan") \/ ScanResumes \/ UploadImage)
  BY <1>4, AskedStep, ModalStep DEF ModalInv
<1>. QED
  BY <1>1, <1>2, <1>3, <1>4
------------------------------------------------------------------------------
(* One connection at a time.  With a user who neither hurries nor switches  *)
(* between the tabs of a connected page, startPeerConnection is called only *)
(* where no other call is at one of its waits, and where the transport that *)
(* is there can be closed.                                                  *)

Early == {"keys", "export", "ice"}
Up == {"connecting", "joined", "open", "direct"}
Phase(c) == conn[c].phase

\* At most one connection is not gone: it has no transport, or the page's.
OneConn ==
  /\ \A c, d \in Conns : c # d => conn[c] = Gone \/ conn[d] = Gone
  /\ \A c \in Conns : Phase(c) \notin {"orphaned", "leaked"} /\ (Phase(c) = "gone" => conn[c] = Gone)
  /\ \A c \in Conns : Phase(c) \in Early => transport = Nothing
  /\ \A c \in Conns : Phase(c) \in Up \cup {"lost"} => transport = c

\* Requests, timers and the sender's user never want to start one together.
OneStarter ==
  /\ fetching > 0 => /\ fetching = 1 /\ panel = "receive" /\ timers = {}
                     /\ \A c \in Conns : Phase(c) \in {"gone", "lost"}
  /\ timers # {} => \A c \in Conns : Phase(c) \in {"gone", "lost", "direct"}
  /\ \A c, d \in timers : c = d
  /\ SenderDue \/ modal => panel = "send"
  /\ SenderDue => timers = {} /\ \A c \in Conns : Phase(c) \notin Starting
  /\ panel = "send" => /\ timers # {} => currentSession = Nothing
                       /\ \A c \in Conns : conn[c].role = "receiver" => Phase(c) \in {"gone", "lost"}

\* The key pair and the role are those of the connection.
KeysInv ==
  /\ \A c \in Conns : Phase(c) \in Early => cryptoKeys = Nothing
  /\ \A c \in Conns : Phase(c) \in {"export", "ice"} \cup Up => keyPair = c
  /\ \A c \in Conns : Phase(c) \in {"ice"} \cup Up => pubKey = c
  /\ \A c \in Conns : Phase(c) \in Early \cup Up => currentRole = conn[c].role
  /\ KeysTogether

Alone == OneConn /\ OneStarter /\ KeysInv

LEMMA GoneIsGone == Gone.phase = "gone" /\ Gone.role = "none" /\ Gone.session = Nothing
BY DEF Gone

LEMMA AllClosed ==
  ASSUME ConnOK, OneConn, \A c \in Conns : Phase(c) \notin Starting
  PROVE  CloseCurrent = [c \in Conns |-> Gone]
<1>. DEFINE conns == CloseCurrent
<1>1. conns \in [Conns -> Connection]
  BY CloseCurrentTyped
<1>2. ASSUME NEW c \in Conns PROVE conns[c] = Gone
  <2>1. conn[c] \in Connection /\ Phase(c) \in {"gone", "joined", "open", "direct", "lost"}
    BY <1>2 DEF ConnOK, Connection, OneConn, Phase
  <2>2. CASE c = transport
    BY <2>1, <2>2, PageAssumption DEF CloseCurrent, CloseTransport, Phase, ConnOK
  <2>3. CASE c # transport
    <3>1. conn[c] = Gone
      BY <2>1, <2>3 DEF OneConn, Up
    <3>. QED
      BY <2>3, <3>1 DEF CloseCurrent, CloseTransport, ConnOK
  <2>. QED
    BY <2>2, <2>3
<1>. HIDE DEF conns
<1>3. conns = [c \in Conns |-> Gone]
  BY <1>1, <1>2
<1>. QED
  BY <1>3 DEF conns

\* A call of startPeerConnection, where no other is at one of its waits.
LEMMA StartsAlone ==
  ASSUME ConnOK, OneConn, \A c \in Conns : Phase(c) \notin Starting,
         NEW role \in {"sender", "receiver"}, NEW session, NEW caller, NEW text,
         StartConnection(role, session, caller, text),
         fetching' = 0, timers' = {}, ~SenderDue', modal' => panel' = "send",
         panel' = "send" => role = "sender"
  PROVE  /\ Alone'
         /\ \E c \in Conns : /\ conn'[c].phase = "keys" /\ conn'[c].role = role
                             /\ conn'[c].session = session
                             /\ \A d \in Conns \ {c} : conn'[d] = Gone
<1>. DEFINE c == CHOOSE d \in Unused : TRUE
            new == [Gone EXCEPT !.phase = "keys", !.role = role, !.session = session, !.by = caller]
<1>1. c \in Conns
  BY DEF StartConnection, Unused
<1>2. new.phase = "keys" /\ new.role = role /\ new.session = session
  BY DEF Gone
<1>3. conn' = [[d \in Conns |-> Gone] EXCEPT ![c] = new]
  BY AllClosed DEF StartConnection
<1>4. transport' = Nothing /\ cryptoKeys' = Nothing /\ currentRole' = role
  BY DEF StartConnection
<1>. HIDE DEF c, new
<1>5. conn'[c] = new /\ \A d \in Conns \ {c} : conn'[d] = Gone
  BY <1>1, <1>3
<1>6. OneConn'
  BY <1>2, <1>4, <1>5, GoneIsGone DEF OneConn, Phase, Early, Up
<1>7. OneStarter'
  BY <1>2, <1>5, GoneIsGone DEF OneStarter, Phase
<1>8. KeysInv'
  BY <1>2, <1>4, <1>5, GoneIsGone DEF KeysInv, KeysTogether, Phase, Early, Up
<1>. QED
  BY <1>1, <1>2, <1>5, <1>6, <1>7, <1>8 DEF Alone

\* The transport is closed, and nothing is started.
LEMMA ClosesAll ==
  ASSUME ConnOK, OneConn, \A c \in Conns : Phase(c) \notin Starting,
         conn' = CloseCurrent, transport' = Nothing,
         fetching' > 0 => fetching' = 1 /\ panel' = "receive" /\ timers' = {},
         \A c, d \in timers' : c = d,
         SenderDue' \/ modal' => panel' = "send",
         SenderDue' => timers' = {},
         panel' = "send" /\ timers' # {} => currentSession' = Nothing
  PROVE  Alone'
<1>1. \A c \in Conns : conn'[c] = Gone
  BY AllClosed
<1>2. OneConn'
  BY <1>1, GoneIsGone DEF OneConn, Phase, Early, Up
<1>3. OneStarter'
  BY <1>1, GoneIsGone DEF OneStarter, Phase, Starting
<1>4. KeysInv'
  BY <1>1, GoneIsGone DEF KeysInv, KeysTogether, Phase, Early, Up
<1>. QED
  BY <1>2, <1>3, <1>4 DEF Alone

\* Steps beside the connections.
LEMMA AloneStays ==
  ASSUME Alone, UNCHANGED <<conn, transport, keyPair, pubKey, cryptoKeys, currentRole, currentSession,
                            panel, timers>>,
         fetching' = fetching \/ (fetching > 0 /\ fetching' = 0),
         SenderDue' => \/ SenderDue
                       \/ panel = "send" /\ timers = {} /\ \A c \in Conns : Phase(c) \notin Starting,
         modal' => modal \/ panel = "send"
  PROVE  Alone'
<1>1. OneConn'
  BY DEF Alone, OneConn, Phase
<1>2. OneStarter'
  BY DEF Alone, OneStarter, Phase
<1>3. KeysInv'
  BY DEF Alone, KeysInv, KeysTogether, Phase
<1>. QED
  BY <1>1, <1>2, <1>3 DEF Alone

\* The connection that is not gone moves from one phase to the next ...
LEMMA ConnectionMoves ==
  ASSUME PageTypeOK, OneConn, NEW c \in Conns, ConnectionProgress(c) \/ ConnectionEvent(c)
  PROVE  /\ \A d \in Conns \ {c} : conn[d] = Gone /\ conn'[d] = Gone
         /\ \/ Phase(c) = "keys" /\ Phase(c)' = "export" /\ keyPair' = c /\ UNCHANGED <<transport, pubKey>>
            \/ Phase(c) = "export" /\ Phase(c)' = "ice" /\ pubKey' = c /\ UNCHANGED <<transport, keyPair>>
            \/ Phase(c) = "ice" /\ Phase(c)' = "connecting" /\ transport' = c /\ UNCHANGED <<keyPair, pubKey>>
            \/ /\ Phase(c) \in Up /\ Phase(c)' \in (Up \cup {"lost"}) \ {"connecting"}
               /\ Phase(c) = "direct" => Phase(c)' = "lost"
               /\ UNCHANGED <<transport, keyPair, pubKey>>
            \/ Phase(c) \in Up /\ conn'[c] = Gone /\ UNCHANGED <<transport, keyPair, pubKey>>
         /\ conn'[c] = Gone \/ (conn'[c].role = conn[c].role /\ conn'[c].session = conn[c].session)
<1>. USE PageTypeParts
<1>1. conn \in [Conns -> Connection] /\ Phase(c) \notin {"orphaned", "leaked"}
  BY DEF ConnOK, OneConn
<1>2. CASE KeysGenerated(c) \/ KeysExported(c) \/ TransportMade(c)
  <2>1. /\ Phase(c) # "gone" /\ \A d \in Conns \ {c} : conn'[d] = conn[d]
        /\ conn'[c].role = conn[c].role /\ conn'[c].session = conn[c].session
    BY <1>1, <1>2 DEF KeysGenerated, KeysExported, TransportMade, Enter, Phase, Connection
  <2>2. \/ Phase(c) = "keys" /\ Phase(c)' = "export" /\ keyPair' = c /\ UNCHANGED <<transport, pubKey>>
        \/ Phase(c) = "export" /\ Phase(c)' = "ice" /\ pubKey' = c /\ UNCHANGED <<transport, keyPair>>
        \/ Phase(c) = "ice" /\ Phase(c)' = "connecting" /\ transport' = c /\ UNCHANGED <<keyPair, pubKey>>
    BY <1>1, <1>2 DEF KeysGenerated, KeysExported, TransportMade, Enter, Phase, Connection
  <2>. QED
    BY <2>1, <2>2, GoneIsGone DEF OneConn, Phase
<1>3. CASE SocketOpens(c) \/ SocketFails(c) \/ SocketDrops(c) \/ ChannelCloses(c) \/ PeerOpens(c)
           \/ PeerLeft(c) \/ ServerRefuses(c)
  <2>1. Phase(c) \in Up /\ UNCHANGED <<transport, keyPair, pubKey>>
    BY <1>1, <1>3 DEF SocketOpens, SocketFails, SocketDrops, ChannelCloses, PeerOpens, PeerLeft,
                      ServerRefuses, Phase, Up
  <2>2. \A d \in Conns \ {c} : conn'[d] = conn[d]
    BY <1>1, <1>3 DEF SocketOpens, SocketFails, SocketDrops, ChannelCloses, PeerOpens, PeerLeft,
                      ServerRefuses, Enter, Phase
  <2>3. \/ conn'[c] = Gone
        \/ /\ Phase(c)' \in (Up \cup {"lost"}) \ {"connecting"}
           /\ conn'[c].role = conn[c].role /\ conn'[c].session = conn[c].session
    <3>1. CASE SocketOpens(c) \/ SocketFails(c) \/ PeerOpens(c)
      BY <1>1, <3>1 DEF SocketOpens, SocketFails, PeerOpens, Enter, Phase, Up, Connection
    <3>2. CASE SocketDrops(c) \/ ChannelCloses(c)
      BY <1>1, <3>2 DEF SocketDrops, ChannelCloses, Enter, Phase, Up, Connection
    <3>3. CASE PeerLeft(c) \/ ServerRefuses(c)
      BY <1>1, <3>3 DEF PeerLeft, ServerRefuses, Enter, Phase, Up, Connection
    <3>. QED
      BY <1>3, <3>1, <3>2, <3>3
  <2>4. Phase(c) = "direct" => Phase(c)' = "lost"
    <3>1. CASE ChannelCloses(c)
      BY <1>1, <3>1 DEF ChannelCloses, Enter, Phase, Connection
    <3>2. CASE ~ChannelCloses(c)
      BY <1>3, <3>2 DEF SocketOpens, SocketFails, SocketDrops, PeerOpens, PeerLeft, ServerRefuses, Phase
    <3>. QED
      BY <3>1, <3>2
  <2>. QED
    BY <2>1, <2>2, <2>3, <2>4, GoneIsGone DEF OneConn, Phase, Up
<1>. QED
  BY <1>2, <1>3 DEF ConnectionProgress, ConnectionEvent

\* ... and a timer is set where a receiver has lost its socket.
LEMMA ConnectionTimers ==
  ASSUME PageTypeOK, NEW c \in Conns, ConnectionProgress(c) \/ ConnectionEvent(c),
         Phase(c) \notin {"orphaned", "leaked"}
  PROVE  \/ UNCHANGED timers
         \/ /\ timers' = timers \cup {c} /\ conn[c].role = "receiver" /\ currentSession # Nothing
            /\ Phase(c) \in {"connecting", "joined", "open"} /\ Phase(c)' \in {"lost", "direct"}
<1>. USE PageTypeParts
<1>1. CASE SocketFails(c) \/ SocketDrops(c)
  <2>1. Phase(c) \in {"connecting", "joined", "open"} /\ Phase(c)' \in {"lost", "direct"}
    BY <1>1 DEF SocketFails, SocketDrops, Enter, Phase, ConnOK, Connection
  <2>2. PICK now, text : SignalingClosed(c, now, text)
    BY <1>1, <2>1 DEF SocketFails, SocketDrops, Phase
  <2>3. \/ UNCHANGED timers
        \/ /\ timers' = timers \cup {c} /\ conn[c].role = "receiver" /\ currentSession # Nothing
    BY <2>2 DEF SignalingClosed
  <2>. QED
    BY <2>1, <2>3
<1>2. CASE ~(SocketFails(c) \/ SocketDrops(c))
  BY <1>2 DEF ConnectionProgress, ConnectionEvent, KeysGenerated, KeysExported, TransportMade,
              SocketOpens, ServerRefuses, ChannelCloses, PeerOpens, PeerLeft
<1>. QED
  BY <1>1, <1>2

LEMMA ConnectionAlone ==
  ASSUME PageTypeOK, Alone, NEW c \in Conns, ConnectionProgress(c) \/ ConnectionEvent(c)
  PROVE  Alone'
<1>. USE PageTypeParts
<1>1. \A d \in Conns \ {c} : conn[d] = Gone /\ conn'[d] = Gone
  BY ConnectionMoves DEF Alone
<1>2. \/ Phase(c) = "keys" /\ Phase(c)' = "export" /\ keyPair' = c /\ UNCHANGED <<transport, pubKey>>
      \/ Phase(c) = "export" /\ Phase(c)' = "ice" /\ pubKey' = c /\ UNCHANGED <<transport, keyPair>>
      \/ Phase(c) = "ice" /\ Phase(c)' = "connecting" /\ transport' = c /\ UNCHANGED <<keyPair, pubKey>>
      \/ /\ Phase(c) \in Up /\ Phase(c)' \in (Up \cup {"lost"}) \ {"connecting"}
         /\ Phase(c) = "direct" => Phase(c)' = "lost"
         /\ UNCHANGED <<transport, keyPair, pubKey>>
      \/ Phase(c) \in Up /\ conn'[c] = Gone /\ UNCHANGED <<transport, keyPair, pubKey>>
  BY ConnectionMoves DEF Alone
<1>3. conn'[c] = Gone \/ conn'[c].role = conn[c].role
  BY ConnectionMoves DEF Alone
<1>4. UNCHANGED <<panel, modal, fetching, currentSession, currentRole, cryptoKeys>>
  BY DEF ConnectionProgress, ConnectionEvent, OtherVars
<1>5. SenderDue' = SenderDue
  BY DEF ConnectionProgress, ConnectionEvent, OtherVars, SenderDue, Asked, selectionVars, scannerVars
<1>6. \/ UNCHANGED timers
      \/ /\ timers' = timers \cup {c} /\ conn[c].role = "receiver" /\ currentSession # Nothing
         /\ Phase(c) \in {"connecting", "joined", "open"} /\ Phase(c)' \in {"lost", "direct"}
  BY ConnectionTimers DEF Alone, OneConn
<1>7. Phase(c)' = "gone" \/ (conn'[c].role = conn[c].role)
  BY <1>3, GoneIsGone DEF Phase
<1>8. \A d \in Conns \ {c} : Phase(d) = "gone" /\ Phase(d)' = "gone"
  BY <1>1, GoneIsGone DEF Phase
<1>9. OneConn'
  BY <1>1, <1>2, GoneIsGone DEF Alone, OneConn, Phase, Early, Up
<1>10. OneStarter'
  <2>1. fetching = 0
    BY <1>2 DEF Alone, OneStarter, Up, ShellOK
  <2>2. \/ timers = {}
        \/ Phase(c) = "direct" /\ Phase(c)' \in {"lost", "gone"} /\ timers' = timers
    BY <1>2, <1>6, GoneIsGone DEF Alone, OneStarter, Up, Phase
  <2>3. panel = "send" => conn[c].role # "receiver"
    BY <1>2 DEF Alone, OneStarter, Up
  <2>4. SenderDue => Phase(c) \in Up /\ Phase(c)' \notin Starting
    BY <1>2, GoneIsGone DEF Alone, OneStarter, Up, Phase, Starting
  <2>5. timers' # {} => Phase(c)' \in {"lost", "gone", "direct"}
    BY <1>6, <2>2
  <2>6. \A d, e \in timers' : d = e
    BY <1>6, <2>2 DEF Alone, OneStarter
  <2>7. SenderDue \/ modal => panel = "send"
    BY DEF Alone, OneStarter
  <2>8. SenderDue => timers' = {}
    BY <1>6, <2>3, <2>7 DEF Alone, OneStarter
  <2>9. panel = "send" /\ timers' # {} => currentSession = Nothing
    BY <1>6, <2>3 DEF Alone, OneStarter
  <2>10. panel = "send" => (conn'[c].role = "receiver" => Phase(c)' = "gone")
    BY <1>7, <2>3
  <2>. QED
    BY <1>4, <1>5, <1>8, <2>1, <2>4, <2>5, <2>6, <2>7, <2>8, <2>9, <2>10 DEF OneStarter, Starting
<1>11. KeysInv'
  <2>1. CASE Phase(c) \in Early
    <3>1. cryptoKeys' = Nothing
      BY <1>4, <2>1 DEF Alone, KeysInv
    <3>2. Phase(c)' \in {"export", "ice", "connecting"} /\ currentRole' = conn'[c].role
      BY <1>2, <1>4, <1>7, <2>1 DEF Alone, KeysInv, Early, Up
    <3>3. keyPair' = c /\ (Phase(c)' \in {"ice", "connecting"} => pubKey' = c)
      BY <1>2, <2>1 DEF Alone, KeysInv, Early, Up
    <3>. QED
      BY <1>8, <3>1, <3>2, <3>3 DEF KeysInv, KeysTogether, Early, Up
  <2>2. CASE Phase(c) \in Up /\ conn'[c] # Gone
    <3>1. keyPair' = c /\ pubKey' = c /\ transport = c /\ currentRole' = conn'[c].role
      BY <1>2, <1>3, <1>4, <2>2 DEF Alone, KeysInv, OneConn, Early, Up
    <3>2. Phase(c)' \notin Early /\ conn[c] # Gone /\ UNCHANGED <<transport, cryptoKeys>>
      BY <1>2, <1>4, <2>2, GoneIsGone DEF Early, Up, Phase
    <3>3. KeysTogether'
      BY <1>3, <2>2, <3>1, <3>2 DEF Alone, KeysInv, KeysTogether
    <3>. QED
      BY <1>8, <3>1, <3>2, <3>3 DEF KeysInv, Early, Up
  <2>3. CASE conn'[c] = Gone
    <3>1. \A d \in Conns : conn'[d] = Gone /\ Phase(d)' = "gone"
      BY <1>1, <2>3, GoneIsGone DEF Phase
    <3>2. KeysTogether'
      BY <1>2, <1>4, <2>3, <3>1, PageAssumption DEF KeysTogether, Alone, KeysInv, ConnOK
    <3>. QED
      BY <3>1, <3>2 DEF KeysInv, Early, Up
  <2>. QED
    BY <1>2, <2>1, <2>2, <2>3 DEF Early
<1>. QED
  BY <1>9, <1>10, <1>11 DEF Alone

\* The sender's form, link or picture connects.
LEMMA PairAlone ==
  ASSUME PageTypeOK, Alone, SenderDue \/ modal, timers = {},
         \A c \in Conns : Phase(c) \notin Starting,
         NEW caller, Pair(caller), ~SenderDue', modal' => modal,
         UNCHANGED <<panel, fetching, timers>>
  PROVE  Alone' /\ panel = "send"
<1>1. panel = "send" /\ fetching = 0
  BY PageTypeParts DEF Alone, OneStarter, ShellOK
<1>2. StartConnection("sender", Entered, caller, "connecting")
  BY DEF Pair
<1>. QED
  BY <1>1, <1>2, StartsAlone, PageTypeParts DEF Alone

\* The scanner is stopped by whatever connects.
LEMMA StopLeaves ==
  ASSUME NEW steps, Stop(steps), AskedOnce, ModalInv, isScanning \/ uploading \/ modal, ~uploading',
         UNCHANGED <<waiting, resumed>>
  PROVE  ~SenderDue'
<1>1. Asked = {} /\ Asked' = {}
  BY DEF ModalInv, Asked
<1>. QED
  BY <1>1 DEF Stop, SenderDue

LEMMA ResetAlone ==
  ASSUME PageTypeOK, Alone, NEW now, Reset(now), \A c \in Conns : Phase(c) \notin Starting,
         fetching = 0
  PROVE  Alone'
<1>1. SenderDue' = SenderDue
  BY DEF Reset, ClearSelection, SenderDue, Asked, scannerVars
<1>2. \A c, d \in timers : c = d
  BY DEF Alone, OneStarter
<1>3. SenderDue => timers = {}
  BY DEF Alone, OneStarter
<1>. QED
  BY <1>1, <1>2, <1>3, ClosesAll, PageTypeParts DEF Reset, Alone

LEMMA KeysAlone ==
  ASSUME PageTypeOK, AskedOnce, Alone, NEW c \in Conns, KeysDerived(c) PROVE Alone'
<1>. USE PageTypeParts
<1>1. /\ conn'[c].phase = conn[c].phase /\ conn'[c].role = conn[c].role /\ conn'[c].session = conn[c].session
      /\ \A d \in Conns \ {c} : conn'[d] = conn[d]
  BY DEF KeysDerived, ConnOK, Connection
<1>2. transport = c /\ Phase(c) \in {"open", "direct"} /\ transport' = c
  BY DEF KeysDerived, IsOpen, Alone, OneConn, Up, Phase
<1>3. keyPair = c /\ pubKey = c /\ currentRole = conn[c].role /\ UNCHANGED <<keyPair, pubKey, currentRole>>
  BY <1>2 DEF Alone, KeysInv, Up, Early, KeysDerived
<1>4. conn[c] # Gone /\ conn'[c] # Gone
  BY <1>1, <1>2, GoneIsGone DEF Phase
<1>5. c # Nothing
  BY PageAssumption
<1>6. cryptoKeys' = [conn |-> c, role |-> conn[c].role, key |-> c, pub |-> c]
  BY <1>2, <1>3, <1>5 DEF KeysDerived
<1>7. UNCHANGED <<panel, modal, fetching, timers, currentSession, uploading>>
  BY DEF KeysDerived
<1>8. SenderDue' => SenderDue
  <2>1. EnsureSelectedFileReady("chunk") \/ UNCHANGED <<waiting, resumed>>
    BY DEF KeysDerived, selectionVars
  <2>2. Asked' \subseteq Asked
    BY <2>1, AskedLess
  <2>. QED
    BY <2>2 DEF KeysDerived, SenderDue, scannerVars
<1>9. \A d \in Conns : /\ Phase(d)' = Phase(d) /\ conn'[d].role = conn[d].role
                       /\ conn'[d] = Gone <=> conn[d] = Gone
  BY <1>1, <1>4 DEF Phase
<1>10. OneConn'
  BY <1>2, <1>9, GoneIsGone DEF Alone, OneConn, Phase
<1>11. OneStarter'
  BY <1>7, <1>8, <1>9 DEF Alone, OneStarter
<1>12. KeysTogether'
  BY <1>1, <1>2, <1>3, <1>6 DEF KeysTogether
<1>13. \A d \in Conns : Phase(d) \notin Early
  BY <1>2, <1>5 DEF Alone, OneConn
<1>14. KeysInv'
  BY <1>3, <1>9, <1>12, <1>13 DEF Alone, KeysInv
<1>. QED
  BY <1>10, <1>11, <1>14 DEF Alone

LEMMA DueStep ==
  ASSUME PageTypeOK, AskedOnce, "hurries" \notin Habits, [Next]_vars
  PROVE  \/ AskFor("pair") \/ AskFor("scan") \/ UploadImage \/ ScanResumes
         \/ (SenderDue' => SenderDue) /\ (modal' => modal)
BY AskedStep, ModalStep DEF SenderDue

LEMMA UserAlone ==
  ASSUME Habits = {}, PageTypeOK, AskedOnce, ModalInv, Alone, UserStep PROVE Alone'
<1>. USE PageTypeParts
<1>. DEFINE Quiet == UNCHANGED <<conn, transport, keyPair, pubKey, cryptoKeys, currentRole,
                                 currentSession, panel, timers, fetching>>
<1>1. Settled => /\ timers = {} /\ fetching = 0 /\ ~uploading /\ Asked = {}
                 /\ \A c \in Conns : Phase(c) \notin Starting
  BY NothingIsAsked DEF Settled, Phase
<1>2. UserMay => Settled
  BY DEF UserMay
<1>3. ASSUME NEW tab \in {"send", "receive"}, SelectTab(tab) PROVE Alone'
  <2>1. \A c \in Conns : Phase(c) \in {"gone", "lost"}
    <3>1. transport # Nothing => Phase(transport) \in {"lost", "gone"}
      BY <1>3 DEF SelectTab, LeavesTab, Phase
    <3>3. ASSUME NEW c \in Conns, Phase(c) \notin {"gone", "lost"} PROVE FALSE
      <4>1. Phase(c) \in Up \/ Phase(c) \in Starting \/ Phase(c) \in {"orphaned", "leaked"}
        BY <3>3 DEF ConnOK, Connection, Phase, Up
      <4>2. transport = c
        BY <1>1, <1>2, <1>3, <4>1 DEF SelectTab, Alone, OneConn
      <4>. QED
        BY <3>1, <3>3, <4>2, PageAssumption
    <3>. QED
      BY <3>3
  <2>2. Settled /\ ~modal /\ ~SenderDue
    BY <1>1, <1>2, <1>3 DEF SelectTab, ModalInv, SenderDue
  <2>3. ~modal' /\ ~SenderDue' /\ timers' = {}
    BY <1>1, <1>3, <2>2 DEF SelectTab, SenderDue, Asked, selectionVars, scannerVars
  <2>4. UNCHANGED <<conn, transport, keyPair, pubKey, cryptoKeys>>
    BY <1>3 DEF SelectTab
  <2>5. fetching' > 0 => fetching' = 1 /\ panel' = "receive"
    BY <1>1, <1>3, <2>2 DEF SelectTab, Fetch
  <2>6. OneConn'
    BY <2>4 DEF Alone, OneConn, Phase
  <2>7. OneStarter'
    BY <2>1, <2>3, <2>4, <2>5 DEF OneStarter, Phase
  <2>8. KeysInv'
    BY <2>1, <2>4 DEF Alone, KeysInv, KeysTogether, Phase, Early, Up
  <2>. QED
    BY <2>6, <2>7, <2>8 DEF Alone
<1>4. CASE Remove \/ \E sel \in Selection : Select(sel)
  <2>1. Quiet /\ SenderDue' = SenderDue /\ modal' = modal
    BY <1>4 DEF Select, SelectFiles, Remove, ClearSelection, SenderDue, Asked, scannerVars, pageVars
  <2>. QED
    BY <2>1, AloneStays
<1>5. CASE AskFor("pair") \/ AskFor("scan")
  <2>1. Quiet /\ Settled /\ panel = "send" /\ modal' = modal
    BY <1>2, <1>5 DEF AskFor
  <2>. QED
    BY <1>1, <2>1, AloneStays
<1>6. CASE Refresh
  <2>1. Settled /\ panel = "receive" /\ ~SenderDue /\ ~modal
    BY <1>2, <1>6 DEF Refresh, Alone, OneStarter
  <2>2. ~SenderDue' /\ ~modal' /\ timers' = {} /\ panel' = "receive"
    BY <1>1, <1>6, <2>1 DEF Refresh, SenderDue, Asked, selectionVars, scannerVars
  <2>3. fetching' = 1 /\ conn' = CloseCurrent /\ transport' = Nothing
    BY <1>1, <1>6, <2>1 DEF Refresh, Fetch
  <2>. QED
    BY <1>1, <2>1, <2>2, <2>3, ClosesAll DEF Alone
<1>7. CASE PasteLink
  <2>1. Settled /\ Stop(step) /\ Pair("link") /\ modal /\ ~modal' /\ ~uploading'
        /\ UNCHANGED <<waiting, resumed, panel, fetching, timers>>
    BY <1>1, <1>2, <1>7 DEF PasteLink, selectionVars
  <2>2. ~SenderDue'
    BY <2>1, StopLeaves
  <2>. QED
    BY <1>1, <2>1, <2>2, PairAlone
<1>8. CASE UploadImage
  <2>1. Quiet /\ Settled /\ panel = "send" /\ modal' = modal
    BY <1>2, <1>8 DEF UploadImage, Alone, OneStarter
  <2>. QED
    BY <1>1, <2>1, AloneStays
<1>9. CASE CloseScanner
  <2>1. Quiet /\ ~modal' /\ (SenderDue' => SenderDue)
    BY <1>9 DEF CloseScanner, Stop, SenderDue, Asked, selectionVars
  <2>. QED
    BY <2>1, AloneStays
<1>10. CASE CancelTransfer \/ StartNew
  <2>1. Settled /\ \E now : Reset(now)
    BY <1>2, <1>10 DEF CancelTransfer, StartNew
  <2>. QED
    BY <1>1, <2>1, ResetAlone
<1>. QED
  BY <1>3, <1>4, <1>5, <1>6, <1>7, <1>8, <1>9, <1>10 DEF UserStep

LEMMA ResumeAlone ==
  ASSUME PageTypeOK, AskedOnce, ModalInv, Alone, Resumes PROVE Alone'
<1>. USE PageTypeParts
<1>1. CASE PairResumes
  <2>1. Asked # {} /\ Asked' = {}
    BY <1>1, NothingAsked DEF PairResumes
  <2>2. SenderDue /\ ~isScanning /\ ~uploading
    BY <2>1 DEF SenderDue, ModalInv
  <2>3. ~SenderDue'
    BY <1>1, <2>1, <2>2 DEF PairResumes, SenderDue, scannerVars
  <2>4. CASE Pair("form")
    <3>1. timers = {} /\ \A c \in Conns : Phase(c) \notin Starting
      BY <2>2 DEF Alone, OneStarter
    <3>2. UNCHANGED <<modal, panel, fetching, timers>>
      BY <1>1 DEF PairResumes
    <3>. QED
      BY <2>2, <2>3, <2>4, <3>1, <3>2, PairAlone
  <2>5. CASE ~Pair("form")
    <3>1. UNCHANGED <<conn, transport, keyPair, pubKey, cryptoKeys, currentRole, currentSession,
                      panel, timers, fetching, modal>>
      BY <1>1, <2>5 DEF PairResumes
    <3>. QED
      BY <2>3, <3>1, AloneStays
  <2>. QED
    BY <2>4, <2>5
<1>2. CASE ScanResumes
  <2>1. SenderDue
    BY <1>2, NothingAsked DEF ScanResumes, SenderDue
  <2>2. panel = "send" /\ timers = {} /\ \A c \in Conns : Phase(c) \notin Starting
    BY <2>1 DEF Alone, OneStarter
  <2>3. UNCHANGED <<conn, transport, keyPair, pubKey, cryptoKeys, currentRole, currentSession,
                    panel, timers, fetching>>
    BY <1>2 DEF ScanResumes
  <2>. QED
    BY <2>2, <2>3, AloneStays
<1>3. CASE ChunkResumes
  <2>1. Asked' \subseteq Asked
    BY <1>3, AskedLess DEF ChunkResumes
  <2>2. SenderDue' => SenderDue
    BY <1>3, <2>1 DEF ChunkResumes, SenderDue, scannerVars
  <2>3. UNCHANGED <<conn, transport, keyPair, pubKey, cryptoKeys, currentRole, currentSession,
                    panel, timers, fetching, modal>>
    BY <1>3 DEF ChunkResumes
  <2>. QED
    BY <2>2, <2>3, AloneStays
<1>. QED
  BY <1>1, <1>2, <1>3 DEF Resumes

LEMMA EventAlone ==
  ASSUME Habits = {}, PageTypeOK, AskedOnce, ModalInv, Alone, Event PROVE Alone'
<1>. USE PageTypeParts
<1>. DEFINE Quiet == UNCHANGED <<conn, transport, keyPair, pubKey, cryptoKeys, currentRole,
                                 currentSession, panel, timers, modal>>
<1>1. CASE SessionArrives
  <2>1. /\ fetching = 1 /\ panel = "receive" /\ timers = {} /\ ~SenderDue /\ ~modal
        /\ \A c \in Conns : Phase(c) \notin Starting
    BY <1>1 DEF SessionArrives, Alone, OneStarter, Starting
  <2>2. fetching' = 0 /\ panel' = "receive" /\ timers' = {} /\ ~SenderDue' /\ ~modal'
    BY <1>1, <2>1 DEF SessionArrives, SenderDue, Asked, selectionVars, scannerVars
  <2>3. StartConnection("receiver", NewSession, "session", "waiting")
    BY <1>1 DEF SessionArrives
  <2>. QED
    BY <2>1, <2>2, <2>3, StartsAlone DEF Alone
<1>2. CASE SessionFails
  <2>1. Quiet /\ SenderDue' = SenderDue
    BY <1>2 DEF SessionFails, SenderDue, Asked, selectionVars, scannerVars
  <2>2. fetching > 0 /\ fetching' = 0
    BY <1>2 DEF SessionFails, Alone, OneStarter
  <2>. QED
    BY <2>1, <2>2, AloneStays
<1>3. CASE ScannerMoves \/ ScannerWaits
  <2>1. isScanning' => isScanning
    BY <1>3, ScanningStays DEF ScannerMoves, ScannerWaits, ScannerProgress
  <2>2. Quiet /\ fetching' = fetching /\ (SenderDue' => SenderDue)
    BY <1>3, <2>1 DEF ScannerMoves, ScannerWaits, SenderDue, Asked, selectionVars, pageVars
  <2>. QED
    BY <2>2, AloneStays
<1>4. CASE ImageScanned
  <2>1. SenderDue /\ timers = {} /\ \A c \in Conns : Phase(c) \notin Starting
    BY <1>4 DEF ImageScanned, SenderDue, Alone, OneStarter
  <2>2. UNCHANGED <<waiting, resumed, panel, fetching, timers>> /\ ~uploading'
    BY <1>4 DEF ImageScanned, selectionVars
  <2>3. CASE Stop(step) /\ Pair("link")
    <3>1. uploading /\ (modal' => modal)
      BY <1>4, <2>3 DEF ImageScanned
    <3>2. ~SenderDue'
      BY <2>2, <2>3, <3>1, StopLeaves
    <3>. QED
      BY <2>1, <2>2, <2>3, <3>1, <3>2, PairAlone
  <2>4. CASE ~(Stop(step) /\ Pair("link"))
    <3>1. Quiet /\ fetching' = fetching
      BY <1>4, <2>4 DEF ImageScanned
    <3>. QED
      BY <2>1, <3>1, AloneStays DEF Alone, OneStarter
  <2>. QED
    BY <2>3, <2>4
<1>5. CASE TransferStarts \/ TransferGoesOn
  <2>1. Quiet /\ UNCHANGED <<fetching, waiting, resumed, isScanning, uploading>>
    BY <1>5 DEF TransferStarts, TransferGoesOn, selectionVars, scannerVars, pageVars
  <2>2. SenderDue' = SenderDue
    BY <2>1 DEF SenderDue, Asked
  <2>. QED
    BY <2>1, <2>2, AloneStays
<1>6. CASE PeerCancels
  <2>1. transport \in Conns /\ Phase(transport) \in {"open", "direct"}
    BY <1>6 DEF PeerCancels, IsOpen, ConnOK, Phase
  <2>2. \A c \in Conns \ {transport} : Phase(c) = "gone"
    BY <2>1, GoneIsGone DEF Alone, OneConn, Phase
  <2>3. \A c \in Conns : Phase(c) \notin Starting
    BY <2>1, <2>2 DEF Starting
  <2>4. fetching = 0
    BY <2>1 DEF Alone, OneStarter, ShellOK
  <2>. QED
    BY <1>6, <2>3, <2>4, ResetAlone DEF PeerCancels
<1>7. ASSUME NEW j \in Jobs, Archived(j) PROVE Alone'
  <2>1. Asked' \subseteq Asked
    BY <1>7, AskedLess DEF Archived
  <2>2. Quiet /\ fetching' = fetching /\ (SenderDue' => SenderDue)
    BY <1>7, <2>1 DEF Archived, SenderDue, scannerVars, pageVars
  <2>. QED
    BY <2>2, AloneStays
<1>8. ASSUME NEW i \in Starts, ScanHit(i) PROVE Alone'
  <2>1. isScanning /\ ~uploading /\ SenderDue /\ ~modal' /\ Pair("link") /\ ~uploading'
    BY <1>8 DEF ScanHit, SenderDue
  <2>2. timers = {} /\ \A c \in Conns : Phase(c) \notin Starting
    BY <2>1 DEF Alone, OneStarter
  <2>3. UNCHANGED <<waiting, resumed, panel, fetching, timers>>
    BY <1>8 DEF ScanHit, selectionVars
  <2>4. PICK steps : Stop(steps)
    BY <1>8 DEF ScanHit, CodeDetected
  <2>5. ~SenderDue'
    BY <2>1, <2>3, <2>4, StopLeaves
  <2>. QED
    BY <2>1, <2>2, <2>3, <2>5, PairAlone
<1>9. ASSUME NEW c \in Conns, ReconnectTimer(c) PROVE Alone'
  <2>1. c \in timers /\ timers' = {} /\ fetching = 0 /\ ~SenderDue
    BY <1>9 DEF ReconnectTimer, Alone, OneStarter, ShellOK
  <2>2. \A d \in Conns : Phase(d) \in {"gone", "lost", "direct"}
    BY <2>1 DEF Alone, OneStarter
  <2>3. UNCHANGED <<panel, fetching, modal, currentSession, keyPair, pubKey>> /\ ~SenderDue'
    BY <1>9, <2>1 DEF ReconnectTimer, StartConnection, SenderDue, Asked, selectionVars, scannerVars
  <2>4. CASE currentSession # Nothing /\ ui \notin {"TRANSFERRING", "ERROR"}
    <3>1. panel # "send" /\ ~modal
      BY <2>1, <2>4 DEF Alone, OneStarter
    <3>2. StartConnection("receiver", currentSession, "timer", badge)
      BY <1>9, <2>4 DEF ReconnectTimer
    <3>. QED
      BY <2>1, <2>2, <2>3, <3>1, <3>2, StartsAlone DEF Alone, Starting
  <2>5. CASE ~(currentSession # Nothing /\ ui \notin {"TRANSFERRING", "ERROR"})
    <3>1. UNCHANGED <<conn, transport, currentRole, cryptoKeys>>
      BY <1>9, <2>5 DEF ReconnectTimer
    <3>2. OneConn'
      BY <3>1 DEF Alone, OneConn, Phase
    <3>3. OneStarter'
      BY <2>1, <2>3, <3>1 DEF Alone, OneStarter, Phase
    <3>4. KeysInv'
      BY <2>3, <3>1 DEF Alone, KeysInv, KeysTogether, Phase
    <3>. QED
      BY <3>2, <3>3, <3>4 DEF Alone
  <2>. QED
    BY <2>4, <2>5
<1>. QED
  BY <1>1, <1>2, <1>3, <1>4, <1>5, <1>6, <1>7, <1>8, <1>9, ConnectionAlone, KeysAlone DEF Event

\* The strengthening of NothingLeaks and KeysTogether.
CalmInv == PageTypeOK /\ AskedOnce /\ ModalInv /\ Alone

LEMMA CalmInit == Init => CalmInv
<1>. SUFFICES ASSUME Init PROVE CalmInv
  OBVIOUS
<1>1. PageTypeOK
  BY PageTypeInit
<1>2. Asked = {} /\ ~isScanning /\ ~modal /\ ~uploading
  BY DEF Init, ScannerInit, SelectionInit, Asked, Continuation
<1>3. \A c \in Conns : conn[c] = Gone
  BY DEF Init
<1>4. OneConn
  BY <1>3, GoneIsGone DEF OneConn, Phase, Early, Up
<1>5. OneStarter
  BY <1>2, <1>3, GoneIsGone DEF OneStarter, SenderDue, Phase, Init
<1>6. KeysInv
  BY <1>3, GoneIsGone DEF KeysInv, KeysTogether, Phase, Early, Up, Init
<1>. QED
  BY <1>1, <1>2, <1>4, <1>5, <1>6 DEF CalmInv, AskedOnce, ModalInv, Alone

LEMMA CalmStep == ASSUME Habits = {}, CalmInv, [Next]_vars PROVE CalmInv'
<1>1. PageTypeOK' /\ AskedOnce' /\ ModalInv'
  BY PageTypeStep, AskedStep, ModalInvStep DEF CalmInv
<1>2. CASE UNCHANGED vars
  <2>1. /\ UNCHANGED <<conn, transport, keyPair, pubKey, cryptoKeys, currentRole, currentSession,
                       panel, timers, fetching, modal>>
        /\ SenderDue' = SenderDue
    BY <1>2 DEF vars, selectionVars, scannerVars, pageVars, SenderDue, Asked
  <2>2. Alone'
    BY <2>1, AloneStays DEF CalmInv
  <2>. QED
    BY <1>1, <2>2 DEF CalmInv
<1>3. CASE Next
  BY <1>1, <1>3, UserAlone, ResumeAlone, EventAlone DEF Next, CalmInv
<1>. QED
  BY <1>2, <1>3

\* "Close peer transport, ... and signaling connection": with a user who waits
\* and stays on the tab of a connection, no connection but the page's has a
\* transport or a socket, whatever the server, the network and the peer do.
THEOREM NothingIsLeaked == ASSUME Habits = {} PROVE Spec => []NothingLeaks
<1>1. CalmInv => NothingLeaks
  BY DEF CalmInv, Alone, OneConn, NothingLeaks, Phase, Up
<1>2. CalmInv /\ [Next]_vars => CalmInv'
  BY CalmStep
<1>. QED
  BY <1>1, <1>2, CalmInit, PTL DEF Spec

\* The keys the page encrypts with were derived for its connection, in that
\* connection's role, and from the key pair whose public half went to the peer,
\* though the page keeps each of them in a variable of its own, and sets each
\* after another wait.
THEOREM KeysBelongTogether == ASSUME Habits = {} PROVE Spec => []KeysTogether
<1>1. CalmInv => KeysTogether
  BY DEF CalmInv, Alone, KeysInv
<1>2. CalmInv /\ [Next]_vars => CalmInv'
  BY CalmStep
<1>. QED
  BY <1>1, <1>2, CalmInit, PTL DEF Spec
------------------------------------------------------------------------------
(* The code on the receiver's tab.  A code that is shown is that of the     *)
(* page's session, and the one connection was made for it; while the page   *)
(* reads "waiting", nothing has happened to that connection since.          *)

Showing == panel = "receive" /\ displayed # Nothing

UIInv == ui # "COMPLETED" /\ (ui = "TRANSFERRING" => busy /\ fetching = 0)

ShownInv ==
  Showing => /\ displayed = currentSession /\ fetching = 0
             /\ \E c \in Conns : /\ Phase(c) # "gone"
                                 /\ conn[c].role = "receiver" /\ conn[c].session = displayed

WaitingInv ==
  Showing /\ badge = "waiting" /\ ui # "ERROR" =>
    ui # "TRANSFERRING" /\ \A c \in Conns : Phase(c) \in {"gone", "joined"} \cup Starting

DispInv == UIInv /\ ShownInv /\ WaitingInv

LEMMA NotShowing == ASSUME ~Showing' PROVE ShownInv' /\ WaitingInv'
BY DEF ShownInv, WaitingInv

LEMMA ConnectionUI ==
  ASSUME PageTypeOK, NEW c \in Conns, ConnectionProgress(c) \/ ConnectionEvent(c)
  PROVE  ui' \in {ui, "ERROR", "CONNECTED"}
<1>1. CASE SocketFails(c) \/ SocketDrops(c)
  BY <1>1 DEF SocketFails, SocketDrops, SignalingClosed
<1>2. CASE ~(SocketFails(c) \/ SocketDrops(c))
  BY <1>2 DEF ConnectionProgress, ConnectionEvent, KeysGenerated, KeysExported, TransportMade,
     SocketOpens, ServerRefuses, ErrorShown, ChannelCloses, PeerOpens, PeerLeft, Transition
<1>. QED
  BY <1>1, <1>2

\* Nothing but the start of a transfer leads to TRANSFERRING.
LEMMA UIInvStep == ASSUME Habits = {}, CalmInv, UIInv, [Next]_vars PROVE UIInv'
<1>. USE PageTypeParts
<1>1. CASE TransferStarts
  <2>1. transport \in Conns /\ Phase(transport) \in {"open", "direct"}
    BY <1>1 DEF TransferStarts, IsOpen, CalmInv, ConnOK, Phase
  <2>2. fetching = 0
    BY <2>1 DEF CalmInv, Alone, OneStarter, ShellOK
  <2>. QED
    BY <1>1, <2>2 DEF TransferStarts, UIInv
<1>2. CASE CancelTransfer \/ StartNew \/ PeerCancels
  <2>1. ui' \notin {"COMPLETED", "TRANSFERRING"}
    BY <1>2 DEF CancelTransfer, StartNew, PeerCancels, Reset
  <2>. QED
    BY <2>1 DEF UIInv
<1>3. ASSUME NEW tab \in {"send", "receive"}, SelectTab(tab) PROVE UIInv'
  BY <1>3 DEF SelectTab, LeavesTab, UIInv
<1>4. CASE SessionArrives \/ SessionFails
  <2>1. fetching # 0 /\ UNCHANGED ui
    BY <1>4 DEF SessionArrives, SessionFails
  <2>. QED
    BY <2>1 DEF UIInv
<1>5. ASSUME NEW c \in Conns, ConnectionProgress(c) \/ ConnectionEvent(c) PROVE UIInv'
  <2>1. UNCHANGED <<busy, fetching>>
    BY <1>5 DEF ConnectionProgress, ConnectionEvent, OtherVars
  <2>. QED
    BY <1>5, <2>1, ConnectionUI DEF UIInv, CalmInv
<1>6. CASE ~ \/ TransferStarts \/ CancelTransfer \/ StartNew \/ PeerCancels \/ SessionArrives
             \/ SessionFails \/ (\E tab \in {"send", "receive"} : SelectTab(tab))
             \/ \E c \in Conns : ConnectionProgress(c) \/ ConnectionEvent(c)
  <2>1. CASE UserStep
    <3>1. \/ ui' \in {ui, "SELECTING_FILES", "IDLE", "PAIRING"} /\ UNCHANGED <<busy, fetching>>
          \/ ui' = "IDLE"
      BY <1>6, <2>1 DEF UserStep, Select, SelectFiles, AskFor, Refresh, Remove, PasteLink, UploadImage,
         CloseScanner, Pair, Transition, pageVars
    <3>. QED
      BY <3>1 DEF UIInv
  <2>2. CASE Resumes
    <3>1. ui' \in {ui, "ERROR", "PAIRING"} /\ UNCHANGED <<busy, fetching>>
      BY <2>2 DEF Resumes, PairResumes, ScanResumes, ChunkResumes, Pair
    <3>. QED
      BY <3>1 DEF UIInv
  <2>3. CASE Event
    <3>1. ui' \in {ui, "ERROR", "PAIRING", "VERIFYING"} /\ UNCHANGED <<busy, fetching>>
      BY <1>6, <2>3 DEF Event, ScannerMoves, ScannerWaits, ImageScanned, TransferGoesOn, Archived,
         ArchiveDone, ScanHit, ReconnectTimer, KeysDerived, Pair, pageVars
    <3>. QED
      BY <3>1 DEF UIInv
  <2>4. CASE UNCHANGED vars
    BY <2>4 DEF vars, pageVars, UIInv
  <2>. QED
    BY <2>1, <2>2, <2>3, <2>4 DEF Next
<1>. QED
  BY <1>1, <1>2, <1>3, <1>4, <1>5, <1>6

\* What leaves the connections and the code alone.
LEMMA ShowingStays ==
  ASSUME DispInv, UNCHANGED <<conn, panel, displayed, currentSession>>, fetching' = fetching,
         \/ ~Showing
         \/ UNCHANGED <<ui, badge>> \/ ui' = "ERROR" \/ badge' # "waiting"
  PROVE  ShownInv' /\ WaitingInv'
BY DEF DispInv, ShownInv, WaitingInv, Showing, Phase

LEMMA UserShows ==
  ASSUME Habits = {}, CalmInv, DispInv, UserStep PROVE ShownInv' /\ WaitingInv'
<1>1. CASE Refresh \/ SelectTab("send") \/ SelectTab("receive")
  BY <1>1, NotShowing DEF Refresh, SelectTab, Fetch, Showing
<1>2. CASE CancelTransfer \/ StartNew
  BY <1>2, NotShowing DEF CancelTransfer, StartNew, Reset, Showing
<1>3. CASE ~(Refresh \/ SelectTab("send") \/ SelectTab("receive") \/ CancelTransfer \/ StartNew)
  <2>1. panel = "send"
    BY <1>3 DEF UserStep, Select, Remove, AskFor, PasteLink, UploadImage, CloseScanner, CalmInv, Alone,
                OneStarter
  <2>2. UNCHANGED panel
    BY <1>3 DEF UserStep, Select, Remove, AskFor, PasteLink, UploadImage, CloseScanner, pageVars
  <2>. QED
    BY <2>1, <2>2, NotShowing DEF Showing
<1>. QED
  BY <1>1, <1>2, <1>3

LEMMA ResumeShows ==
  ASSUME CalmInv, DispInv, Resumes PROVE ShownInv' /\ WaitingInv'
<1>1. CASE PairResumes \/ ScanResumes
  <2>1. SenderDue
    BY <1>1, NothingAsked DEF PairResumes, ScanResumes, SenderDue, CalmInv
  <2>2. panel = "send" /\ panel' = panel
    BY <1>1, <2>1 DEF PairResumes, ScanResumes, CalmInv, Alone, OneStarter
  <2>. QED
    BY <2>2, NotShowing DEF Showing
<1>2. CASE ChunkResumes
  <2>1. UNCHANGED <<conn, panel, displayed, currentSession, fetching>>
    BY <1>2 DEF ChunkResumes
  <2>2. UNCHANGED <<ui, badge>> \/ ui' = "ERROR" \/ badge' # "waiting"
    BY <1>2 DEF ChunkResumes
  <2>. QED
    BY <2>1, <2>2, ShowingStays
<1>. QED
  BY <1>1, <1>2 DEF Resumes

\* A receiver's connection moves while its code is shown.
LEMMA ConnectionShows ==
  ASSUME CalmInv, DispInv, NEW c \in Conns, ConnectionProgress(c) \/ ConnectionEvent(c)
  PROVE  ShownInv' /\ WaitingInv'
<1>. USE PageTypeParts
<1>1. UNCHANGED <<panel, displayed, currentSession, fetching>>
  BY DEF ConnectionProgress, ConnectionEvent, OtherVars
<1>2. SUFFICES ASSUME Showing PROVE ShownInv' /\ WaitingInv'
  BY <1>1 DEF ShownInv, WaitingInv, Showing
<1>3. \A d \in Conns \ {c} : conn[d] = Gone /\ conn'[d] = Gone
  BY ConnectionMoves DEF CalmInv, Alone
<1>4. conn[c].role = "receiver" /\ conn[c].session = displayed /\ Phase(c) # "gone"
  BY <1>2, <1>3, GoneIsGone DEF DispInv, ShownInv, Phase
<1>5. displayed = currentSession /\ fetching = 0 /\ currentSession # Nothing
  BY <1>2 DEF DispInv, ShownInv, Showing
<1>6. conn \in [Conns -> Connection] /\ Phase(c) \notin {"orphaned", "leaked"}
  BY DEF CalmInv, ConnOK, Alone, OneConn
<1>7. ~(PeerLeft(c) /\ conn'[c] = Gone)
  BY <1>4, <1>6, GoneIsGone DEF PeerLeft, Enter, Phase, Connection
<1>8. Phase(c)' # "gone" /\ conn'[c].role = "receiver" /\ conn'[c].session = displayed
  <2>1. conn'[c] # Gone
    BY <1>4, <1>6, <1>7, GoneIsGone DEF ConnectionProgress, ConnectionEvent, KeysGenerated, KeysExported,
       TransportMade, SocketOpens, SocketFails, ServerRefuses, SocketDrops, ChannelCloses, PeerOpens,
       Enter, Phase, Connection
  <2>2. conn'[c].role = conn[c].role /\ conn'[c].session = conn[c].session
    BY <2>1, ConnectionMoves DEF CalmInv, Alone
  <2>3. Phase(c)' # "gone"
    BY <2>1, ConnectionMoves DEF CalmInv, Alone, Up
  <2>. QED
    BY <1>4, <2>2, <2>3
<1>9. ShownInv'
  BY <1>1, <1>5, <1>8 DEF ShownInv
<1>10. ASSUME badge' = "waiting", ui' # "ERROR"
       PROVE  ui' # "TRANSFERRING" /\ Phase(c)' \in {"gone", "joined"} \cup Starting
  <2>1. Phase(c) \in Up => transport = c
    BY DEF CalmInv, Alone, OneConn
  <2>2. CASE KeysGenerated(c) \/ KeysExported(c) \/ TransportMade(c) \/ SocketOpens(c)
    <3>1. UNCHANGED <<ui, badge>> /\ Phase(c)' \in {"joined"} \cup Starting
      BY <1>6, <2>2 DEF KeysGenerated, KeysExported, TransportMade, SocketOpens, Enter, Phase, Starting,
                        Connection
    <3>. QED
      BY <1>2, <1>10, <3>1 DEF DispInv, WaitingInv
  <2>3. CASE SocketFails(c)
    <3>1. transport = c
      BY <1>6, <2>1, <2>3 DEF SocketFails, Phase, Up
    <3>2. ui' = "ERROR"
      BY <1>6, <2>3, <3>1 DEF SocketFails, SignalingClosed, Phase
    <3>. QED
      BY <1>10, <3>2
  <2>4. CASE PeerOpens(c)
    <3>1. transport = c
      BY <2>1, <2>4 DEF PeerOpens, Phase, Up
    <3>2. badge' = "connected"
      BY <2>4, <3>1, PageAssumption DEF PeerOpens
    <3>. QED
      BY <1>10, <3>2
  <2>5. CASE ServerRefuses(c) \/ SocketDrops(c) \/ ChannelCloses(c) \/ PeerLeft(c)
    <3>1. badge = "waiting" /\ ui # "ERROR"
      BY <1>10, <2>5 DEF ServerRefuses, ErrorShown, SocketDrops, SignalingClosed, ChannelCloses, PeerLeft
    <3>2. Phase(c) = "joined" /\ ui # "TRANSFERRING"
      BY <1>2, <2>5, <3>1 DEF DispInv, WaitingInv, ServerRefuses, SocketDrops, ChannelCloses, PeerLeft,
                              Phase, Starting
    <3>3. transport = c /\ ~IsOpen(transport)
      BY <2>1, <3>2 DEF Up, IsOpen, Phase
    <3>4. CASE ServerRefuses(c)
      BY <1>10, <3>3, <3>4 DEF ServerRefuses, ErrorShown
    <3>5. CASE ChannelCloses(c) \/ PeerLeft(c)
      BY <1>4, <3>2, <3>5 DEF ChannelCloses, PeerLeft, Phase
    <3>6. CASE SocketDrops(c)
      <4>1. conn'[c].phase = "lost"
        BY <1>6, <3>2, <3>6 DEF SocketDrops, Enter, Phase, Connection
      <4>2. SignalingClosed(c, ui, badge)
        BY <1>10, <3>2, <3>3, <3>6 DEF SocketDrops, SignalingClosed, Phase
      <4>3. badge' = "reconnecting"
        BY <1>4, <1>5, <3>1, <3>2, <3>3, <4>1, <4>2 DEF SignalingClosed, DispInv, UIInv
      <4>. QED
        BY <1>10, <4>3
    <3>. QED
      BY <2>5, <3>4, <3>5, <3>6
  <2>. QED
    BY <2>2, <2>3, <2>4, <2>5 DEF ConnectionProgress, ConnectionEvent
<1>11. WaitingInv'
  BY <1>3, <1>10, GoneIsGone DEF WaitingInv, Phase
<1>. QED
  BY <1>9, <1>11

LEMMA KeysShow ==
  ASSUME CalmInv, DispInv, NEW c \in Conns, KeysDerived(c) PROVE ShownInv' /\ WaitingInv'
<1>. USE PageTypeParts
<1>1. /\ conn'[c].phase = conn[c].phase /\ conn'[c].role = conn[c].role /\ conn'[c].session = conn[c].session
      /\ \A d \in Conns \ {c} : conn'[d] = conn[d]
  BY DEF KeysDerived, CalmInv, ConnOK, Connection
<1>2. UNCHANGED <<panel, displayed, currentSession, fetching>>
  BY DEF KeysDerived
<1>3. ShownInv'
  BY <1>1, <1>2 DEF DispInv, ShownInv, Showing, Phase
<1>4. Phase(c) \in {"open", "direct"}
  BY DEF KeysDerived, IsOpen, Phase
<1>5. Showing /\ badge = "waiting" => ui = "ERROR"
  BY <1>4 DEF DispInv, WaitingInv, Starting
<1>6. badge' = "waiting" => badge = "waiting"
  BY DEF KeysDerived
<1>7. ui' \in {ui, "ERROR"}
  BY DEF KeysDerived
<1>8. WaitingInv'
  BY <1>2, <1>5, <1>6, <1>7 DEF WaitingInv, Showing
<1>. QED
  BY <1>3, <1>8

LEMMA EventShows ==
  ASSUME Habits = {}, CalmInv, DispInv, Event PROVE ShownInv' /\ WaitingInv'
<1>. USE PageTypeParts
<1>1. CASE SessionArrives
  <2>1. /\ fetching = 1 /\ panel = "receive" /\ timers = {} /\ ~SenderDue /\ ~modal
        /\ \A c \in Conns : Phase(c) \notin Starting
    BY <1>1 DEF SessionArrives, CalmInv, Alone, OneStarter, Starting
  <2>2. fetching' = 0 /\ panel' = "receive" /\ timers' = {} /\ ~SenderDue' /\ ~modal'
    BY <1>1, <2>1 DEF SessionArrives, SenderDue, Asked, selectionVars, scannerVars
  <2>3. StartConnection("receiver", NewSession, "session", "waiting")
    BY <1>1 DEF SessionArrives
  <2>4. PICK c \in Conns : /\ conn'[c].phase = "keys" /\ conn'[c].role = "receiver"
                           /\ conn'[c].session = NewSession
                           /\ \A d \in Conns \ {c} : conn'[d] = Gone
    BY <2>1, <2>2, <2>3, StartsAlone DEF CalmInv, Alone
  <2>5. displayed' = NewSession /\ currentSession' = NewSession /\ ui' = ui
    BY <1>1 DEF SessionArrives
  <2>6. ui # "TRANSFERRING"
    BY <2>1 DEF DispInv, UIInv
  <2>7. ShownInv'
    BY <2>2, <2>4, <2>5 DEF ShownInv, Phase
  <2>8. WaitingInv'
    BY <2>4, <2>5, <2>6, GoneIsGone DEF WaitingInv, Phase, Starting
  <2>. QED
    BY <2>7, <2>8
<1>2. CASE SessionFails
  <2>1. ~Showing
    BY <1>2 DEF SessionFails, DispInv, ShownInv
  <2>2. ~Showing'
    BY <1>2, <2>1 DEF SessionFails, Showing
  <2>. QED
    BY <2>2, NotShowing
<1>3. CASE ImageScanned \/ \E i \in Starts : ScanHit(i)
  <2>1. SenderDue
    BY <1>3 DEF ImageScanned, ScanHit, SenderDue
  <2>2. panel = "send" /\ panel' = panel
    BY <1>3, <2>1 DEF ImageScanned, ScanHit, CalmInv, Alone, OneStarter
  <2>. QED
    BY <2>2, NotShowing DEF Showing
<1>4. CASE ScannerMoves \/ ScannerWaits \/ \E j \in Jobs : Archived(j)
  <2>1. UNCHANGED <<conn, panel, displayed, currentSession, fetching, ui, badge>>
    BY <1>4 DEF ScannerMoves, ScannerWaits, Archived, ArchiveDone, pageVars
  <2>. QED
    BY <2>1, ShowingStays
<1>5. CASE TransferStarts
  <2>1. transport \in Conns /\ Phase(transport) \in {"open", "direct"}
    BY <1>5 DEF TransferStarts, IsOpen, CalmInv, ConnOK, Phase
  <2>2. Showing /\ badge = "waiting" => ui = "ERROR"
    BY <2>1 DEF DispInv, WaitingInv, Starting
  <2>3. ui = "ERROR" => ui' = "ERROR"
    BY <1>5 DEF TransferStarts, CanTransition, ValidTransitions
  <2>4. UNCHANGED <<conn, panel, displayed, currentSession, fetching, badge>>
    BY <1>5 DEF TransferStarts
  <2>. QED
    BY <2>2, <2>3, <2>4, ShowingStays
<1>6. CASE TransferGoesOn
  <2>1. UNCHANGED <<conn, panel, displayed, currentSession, fetching, badge>>
    BY <1>6 DEF TransferGoesOn, pageVars
  <2>2. ui = "TRANSFERRING" => ~Showing \/ badge # "waiting"
    BY DEF DispInv, WaitingInv
  <2>. QED
    BY <1>6, <2>1, <2>2, ShowingStays DEF TransferGoesOn
<1>7. CASE PeerCancels
  BY <1>7, NotShowing DEF PeerCancels, Reset, Showing
<1>8. ASSUME NEW c \in Conns, ReconnectTimer(c) PROVE ShownInv' /\ WaitingInv'
  <2>1. c \in timers /\ timers' = {} /\ fetching = 0 /\ ~SenderDue
    BY <1>8 DEF ReconnectTimer, CalmInv, Alone, OneStarter, ShellOK
  <2>2. \A d \in Conns : Phase(d) \in {"gone", "lost", "direct"}
    BY <2>1 DEF CalmInv, Alone, OneStarter
  <2>3. UNCHANGED <<panel, displayed, fetching, modal, currentSession, ui>> /\ ~SenderDue'
    BY <1>8, <2>1 DEF ReconnectTimer, SenderDue, Asked, selectionVars, scannerVars
  <2>4. CASE currentSession # Nothing /\ ui \notin {"TRANSFERRING", "ERROR"}
    <3>1. panel # "send" /\ ~modal
      BY <2>1, <2>4 DEF CalmInv, Alone, OneStarter
    <3>2. StartConnection("receiver", currentSession, "timer", badge)
      BY <1>8, <2>4 DEF ReconnectTimer
    <3>3. PICK d \in Conns : /\ conn'[d].phase = "keys" /\ conn'[d].role = "receiver"
                             /\ conn'[d].session = currentSession
                             /\ \A e \in Conns \ {d} : conn'[e] = Gone
      BY <2>1, <2>2, <2>3, <3>1, <3>2, StartsAlone DEF CalmInv, Alone, Starting
    <3>4. ShownInv'
      BY <2>1, <2>3, <3>3 DEF DispInv, ShownInv, Showing, Phase
    <3>5. WaitingInv'
      BY <2>3, <2>4, <3>3, GoneIsGone DEF WaitingInv, Phase, Starting
    <3>. QED
      BY <3>4, <3>5
  <2>5. CASE ~(currentSession # Nothing /\ ui \notin {"TRANSFERRING", "ERROR"})
    <3>1. UNCHANGED <<conn, badge>>
      BY <1>8, <2>5 DEF ReconnectTimer
    <3>. QED
      BY <2>3, <3>1, ShowingStays
  <2>. QED
    BY <2>4, <2>5
<1>. QED
  BY <1>1, <1>2, <1>3, <1>4, <1>5, <1>6, <1>7, <1>8, ConnectionShows, KeysShow DEF Event

LEMMA DispStep == ASSUME Habits = {}, CalmInv, DispInv, [Next]_vars PROVE DispInv'
<1>1. UIInv'
  BY UIInvStep DEF DispInv
<1>2. CASE UNCHANGED vars
  <2>1. UNCHANGED <<conn, panel, displayed, currentSession, fetching, ui, badge>>
    BY <1>2 DEF vars, pageVars
  <2>. QED
    BY <1>1, <2>1, ShowingStays DEF DispInv
<1>3. CASE Next
  BY <1>1, <1>3, UserShows, ResumeShows, EventShows DEF Next, DispInv
<1>. QED
  BY <1>2, <1>3

\* What the receiver shows is what it has joined: with the same user, once
\* nothing is under way a page that shows a code, without an error, has the one
\* transport it made for the session of that code, and while it reads "waiting"
\* that transport has joined the session's room.
THEOREM ShownIsJoined == ASSUME Habits = {} PROVE Spec => []DisplayedIsJoined
<1>1. Init => DispInv
  BY DEF Init, SelectionInit, DispInv, UIInv, ShownInv, WaitingInv, Showing
<1>2. CalmInv /\ DispInv /\ [Next]_vars => CalmInv' /\ DispInv'
  BY CalmStep, DispStep
<1>3. CalmInv /\ DispInv => DisplayedIsJoined
  <2>. SUFFICES ASSUME CalmInv, DispInv, Settled, panel = "receive", displayed # Nothing, ui # "ERROR"
                PROVE  /\ transport # Nothing
                       /\ conn[transport].role = "receiver" /\ conn[transport].session = displayed
                       /\ badge = "waiting" => conn[transport].phase \in {"joined", "open"}
    BY DEF DisplayedIsJoined
  <2>1. PICK c \in Conns : Phase(c) # "gone" /\ conn[c].role = "receiver" /\ conn[c].session = displayed
    BY DEF DispInv, ShownInv, Showing
  <2>2. Phase(c) \in {"joined", "open", "direct", "lost"}
    BY <2>1, PageTypeParts DEF Settled, CalmInv, Alone, OneConn, ConnOK, Connection, Phase
  <2>3. transport = c
    BY <2>2 DEF CalmInv, Alone, OneConn, Up
  <2>4. badge = "waiting" => Phase(c) = "joined"
    BY <2>2 DEF DispInv, WaitingInv, Showing, Starting
  <2>. QED
    BY <2>1, <2>3, <2>4, PageAssumption DEF Phase
<1>. QED
  BY <1>1, <1>2, <1>3, CalmInit, PTL DEF Spec
=============================================================================
