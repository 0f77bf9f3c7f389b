----------------------------- MODULE PairingPage -----------------------------
(***************************************************************************)
(* One page of the application while it pairs (public/js/app.js): its tabs *)
(* and the session it shows, the file selection, the scanner, and the      *)
(* connections startPeerConnection makes one after the other.  All of them *)
(* share the module's variables: transport, currentRole, currentSession,   *)
(* localKeyPair, localPubKeyB64, cryptoKeys.  startPeerConnection awaits   *)
(* four times, and handlers run at every one of these points.              *)
(*                                                                         *)
(* A connection is a call of startPeerConnection and the transport it      *)
(* makes, seen from the page: PeerTransport has the signalling itself and  *)
(* TransferSession what follows once the keys are derived.  Both are cut   *)
(* down here to the events the page gets.                                  *)
(***************************************************************************)
EXTENDS QRScanner, FileSelection

CONSTANTS
  Conns,      \* connections that may exist together
  Sessions,   \* sessions the server creates for this page
  Entered,    \* the session of another page, entered or scanned here
  MaxFetches, \* bound: requests for a session under way together
  Habits      \* what the user does: see UserMay

ASSUME PageAssumption ==
  /\ Entered \notin Sessions /\ MaxFetches \in Nat
  /\ Nothing \notin Conns \cup Sessions
  /\ Habits \subseteq {"hurries", "switches"}

VARIABLES
  panel,          \* the tab that is shown
  busy,           \* the transfer or the complete view is shown instead
  modal,          \* the scanner is shown
  badge,
  displayed,      \* the session of the code, or Nothing while it is fetched
  fetching,       \* requests for a session under way
  uploading,      \* an uploaded picture of a code is being searched
  currentRole, currentSession,
  transport,      \* the connection whose transport is the variable's, or Nothing
  keyPair, pubKey,\* the connections whose localKeyPair, localPubKeyB64 they are
  cryptoKeys,     \* for whom and from what they were derived, or Nothing
  offered,        \* the selection in the MANIFEST sent with these keys
  timers,         \* the connections whose loss has set a reconnect timer
  conn

pageVars == <<panel, busy, modal, badge, displayed, fetching, uploading, currentRole,
              currentSession, transport, keyPair, pubKey, cryptoKeys, offered, timers, conn>>
vars == <<ui, selectionVars, scannerVars, pageVars>>

(* Phases of a connection: three waits before the transport exists, then   *)
(* its socket is connecting, joined; open with the peer; direct (open, but *)
(* the socket is gone); lost (neither).  A closed transport is gone, unless *)
(* its socket was connecting: close() leaves such a socket alone, and once  *)
(* it opens nobody can close it any more.                                  *)
Starting == {"keys", "export", "ice", "connecting"}
IsOpen(c) == c # Nothing /\ conn[c].phase \in {"open", "direct"}
Gone == [phase |-> "gone", role |-> "none", session |-> Nothing, by |-> "none", greeted |-> FALSE]

Badge == {"ready", "packing", "connecting", "waiting", "connected", "reconnecting",
          "disconnected", "failed"}
Caller == {"session", "form", "link", "timer"}

Connection ==
  [phase : Starting \cup {"gone", "joined", "open", "direct", "lost", "orphaned", "leaked"},
   role : {"sender", "receiver", "none"}, session : Sessions \cup {Entered, Nothing},
   by : Caller \cup {"none"}, greeted : BOOLEAN]

\* Type invariant of the page, its selection and its scanner.
PageTypeOK ==
  /\ ScannerTypeOK /\ SelectionTypeOK
  /\ panel \in {"send", "receive"} /\ busy \in BOOLEAN /\ modal \in BOOLEAN /\ badge \in Badge
  /\ displayed \in Sessions \cup {Nothing} /\ currentSession \in Sessions \cup {Nothing}
  /\ fetching \in 0..MaxFetches /\ uploading \in BOOLEAN
  /\ currentRole \in {"sender", "receiver"}
  /\ {transport, keyPair, pubKey} \subseteq Conns \cup {Nothing}
  /\ cryptoKeys = Nothing \/ cryptoKeys \in [conn : Conns, role : {"sender", "receiver"},
                                             key : Conns, pub : Conns \cup {Nothing}]
  /\ offered \in Selection \cup {Nothing} /\ timers \subseteq Conns
  /\ conn \in [Conns -> Connection]

Init ==
  /\ ScannerInit /\ SelectionInit
  /\ panel = "send" /\ busy = FALSE /\ modal = FALSE /\ badge = "ready"
  /\ displayed = Nothing /\ fetching = 0 /\ uploading = FALSE
  /\ currentRole = "sender" /\ currentSession = Nothing
  /\ transport = Nothing /\ keyPair = Nothing /\ pubKey = Nothing
  /\ cryptoKeys = Nothing /\ offered = Nothing /\ timers = {}
  /\ conn = [c \in Conns |-> Gone]
------------------------------------------------------------------------------
(* The user. *)

\* Nothing the page has begun is still going on.
Settled ==
  /\ fetching = 0 /\ ~uploading /\ timers = {}
  /\ ~Packing /\ resumed = {} /\ \A k \in Continuation : waiting[k] = Nothing
  /\ \A c \in Conns : conn[c].phase \notin Starting

\* A user who does not hurry waits for what was asked for last.
UserMay == resumed = {} /\ ("hurries" \in Habits \/ Settled)

\* One who does not switch leaves a tab only when its connection is over, and
\* does not pair again while the page is connected.
LeavesTab ==
  \/ "switches" \in Habits
  \/ /\ ~busy
     /\ transport # Nothing => conn[transport].phase \in {"lost", "gone"}
------------------------------------------------------------------------------
(* Connections: startPeerConnection. *)

\* transport.close() for connection c, as the field conns of the page sees it.
CloseTransport(conns, c) ==
  [conns EXCEPT ![c] = CASE @.phase = "connecting" -> [Gone EXCEPT !.phase = "orphaned"]
                         [] @.phase \in {"orphaned", "leaked"} -> @
                         [] OTHER -> Gone]

CloseCurrent == IF transport = Nothing THEN conn ELSE CloseTransport(conn, transport)

\* The close event of the transport: none if it was closed already.
BadgeAfterClose(text) ==
  IF transport # Nothing /\ conn[transport].phase \notin {"gone", "orphaned", "leaked"}
  THEN "disconnected" ELSE text

Unused == {c \in Conns : conn[c] = Gone /\ c \notin timers \cup {transport, keyPair, pubKey}}

\* Up to the first await, called when the badge reads text.
StartConnection(role, session, caller, text) ==
  /\ Unused # {}
  /\ conn' = [CloseCurrent EXCEPT ![CHOOSE c \in Unused : TRUE] =
                [Gone EXCEPT !.phase = "keys", !.role = role, !.session = session, !.by = caller]]
  /\ badge' = BadgeAfterClose(text)
  /\ transport' = Nothing /\ currentRole' = role
  /\ cryptoKeys' = Nothing /\ offered' = Nothing
  /\ UNCHANGED <<keyPair, pubKey>>

Enter(c, phase) == conn' = [conn EXCEPT ![c].phase = phase]

\* Mutant: a key pair that is there already is used again.
KeysReused(c) ==
  /\ conn[c].phase = "keys" /\ Enter(c, "export")
  /\ keyPair' = IF keyPair = Nothing THEN c ELSE keyPair
  /\ UNCHANGED <<ui, badge, transport, pubKey, timers>>

KeysGenerated(c) ==
  /\ conn[c].phase = "keys" /\ Enter(c, "export")
  /\ keyPair' = c
  /\ UNCHANGED <<ui, badge, transport, pubKey, timers>>

KeysExported(c) ==
  /\ conn[c].phase = "export" /\ Enter(c, "ice")
  /\ pubKey' = c
  /\ UNCHANGED <<ui, badge, transport, keyPair, timers>>

\* The ICE servers have come, or their request has failed: the transport
\* replaces whatever transport is there by now, and its socket connects.
TransportMade(c) ==
  /\ conn[c].phase = "ice" /\ Enter(c, "connecting")
  /\ transport' = c
  /\ UNCHANGED <<ui, badge, keyPair, pubKey, timers>>

\* The JOIN is sent.  A transport closed meanwhile does not send it, and its
\* connect() never returns.
SocketOpens(c) ==
  /\ \/ /\ conn[c].phase = "connecting"
        /\ conn' = [conn EXCEPT ![c].phase = "joined", ![c].by = "none"]
     \/ conn[c].phase = "orphaned" /\ Enter(c, "leaked")
  /\ UNCHANGED <<ui, badge, transport, keyPair, pubKey, timers>>

\* The error handler of a transport, when the page's transport is open or not.
ErrorShown(open) ==
  IF open THEN UNCHANGED <<ui, badge>> ELSE ui' = "ERROR" /\ badge' = "failed"

\* The server answers with an ERROR: the session has expired, or is unknown.
ServerRefuses(c) ==
  /\ conn[c].phase \in {"joined", "open"}
  /\ ErrorShown(IsOpen(transport))
  /\ UNCHANGED <<conn, transport, keyPair, pubKey, timers>>

\* The signalingClose handler of connection c, when the page is in state now.
SignalingClosed(c, now, text) ==
  LET streaming == /\ transport # Nothing /\ conn'[transport].phase \in {"open", "direct"}
                   /\ now \in {"TRANSFERRING", "VERIFYING"}
      reconnect == /\ ~streaming
                   /\ conn[c].role = "receiver" /\ currentSession # Nothing
                   /\ now \notin {"TRANSFERRING", "COMPLETED", "ERROR"}
  IN /\ ui' = now
     /\ badge' = IF reconnect THEN "reconnecting" ELSE text
     /\ timers' = IF reconnect THEN timers \cup {c} ELSE timers

\* The socket cannot connect: an error event, the rejection of connect() for
\* the caller, and a close event.  The receiver's catch block sets the badge,
\* the form's calls ui.error.
SocketFails(c) ==
  LET open == transport # c /\ IsOpen(transport)
  IN \/ /\ conn[c].phase = "connecting"
        /\ conn' = [conn EXCEPT ![c].phase = "lost", ![c].by = "none"]
        /\ SignalingClosed(c, IF open /\ conn[c].by # "form" THEN ui ELSE "ERROR",
                              IF open /\ conn[c].by # "session" THEN badge ELSE "failed")
        /\ UNCHANGED <<transport, keyPair, pubKey>>
     \/ /\ conn[c].phase \in {"orphaned", "leaked"} /\ conn' = [conn EXCEPT ![c] = Gone]
        /\ UNCHANGED <<ui, badge, transport, keyPair, pubKey, timers>>

\* Mutant: the loss of the socket is not noticed.
SocketDropsQuietly(c) ==
  /\ conn[c].phase \in {"joined", "open"}
  /\ Enter(c, "lost")
  /\ UNCHANGED <<ui, badge, transport, keyPair, pubKey, timers>>

\* The socket closes, after an error event or not.  An open data channel
\* outlives it and keeps the error from the page.
SocketDrops(c) ==
  /\ conn[c].phase \in {"joined", "open"}
  /\ \/ conn[c].phase = "open" /\ Enter(c, "direct") /\ SignalingClosed(c, ui, badge)
     \/ Enter(c, "lost") /\ SignalingClosed(c, ui, badge)
     \/ /\ Enter(c, "lost")
        /\ IF transport # c /\ IsOpen(transport)
           THEN SignalingClosed(c, ui, badge) ELSE SignalingClosed(c, "ERROR", "failed")
  /\ UNCHANGED <<transport, keyPair, pubKey>>

\* A data channel without a socket closes: there is no relay to fall back to.
ChannelCloses(c) ==
  /\ conn[c].phase = "direct" /\ Enter(c, "lost")
  /\ UNCHANGED <<ui, badge, transport, keyPair, pubKey, timers>>

\* The open handler.  Without a transport it throws at once, and where the page
\* may not go to CONNECTED it throws before the handshake is sent.
PeerOpens(c) ==
  /\ conn[c].phase = "joined"
  /\ conn' = [conn EXCEPT ![c].phase = "open", ![c].greeted = FALSE]
  /\ IF transport = Nothing THEN UNCHANGED <<ui, badge>>
     ELSE badge' = "connected" /\ Transition("CONNECTED")
  /\ UNCHANGED <<transport, keyPair, pubKey, timers>>

\* PEER_LEFT: a sender that is not open, or open through the relay, closes.
PeerLeft(c) ==
  /\ conn[c].phase \in {"joined", "open"}
  /\ \/ /\ conn[c].role = "sender"
        /\ conn' = [conn EXCEPT ![c] = Gone] /\ badge' = "disconnected"
     \/ conn[c].phase = "open" /\ Enter(c, "joined") /\ UNCHANGED badge
  /\ UNCHANGED <<ui, transport, keyPair, pubKey, timers>>

OtherVars == <<selectionVars, scannerVars, panel, busy, modal, displayed, fetching, uploading,
               currentRole, currentSession, cryptoKeys, offered>>

\* What goes on by itself once a start is under way ...
ConnectionProgress(c) ==
  /\ resumed = {}
  /\ \/ KeysGenerated(c) \/ KeysExported(c) \/ TransportMade(c)
     \/ SocketOpens(c) \/ SocketFails(c)
  /\ UNCHANGED OtherVars

\* ... and what the server, the network and the peer may do to it.
ConnectionEvent(c) ==
  /\ resumed = {}
  /\ \/ ServerRefuses(c) \/ SocketDrops(c) \/ ChannelCloses(c)
     \/ PeerOpens(c) \/ PeerLeft(c)
  /\ UNCHANGED OtherVars
------------------------------------------------------------------------------
(* The receiver's session: initReceiverSession. *)

Fetch == /\ fetching < MaxFetches /\ fetching' = fetching + 1
         /\ displayed' = Nothing

\* Sessions that nothing here knows any more, each as good as a new one.
Unknown == {s \in Sessions : s \notin {currentSession, displayed}
                                     \cup {conn[c].session : c \in Conns}}
NewSession == CHOOSE s \in Unknown : TRUE

SessionArrives ==
  /\ resumed = {} /\ fetching > 0 /\ fetching' = fetching - 1
  /\ Unknown # {}
  /\ currentSession' = NewSession /\ displayed' = NewSession
  /\ StartConnection("receiver", NewSession, "session", "waiting")
  /\ UNCHANGED <<ui, selectionVars, scannerVars, panel, busy, modal, uploading, timers>>

\* No answer, or the 503 or 500 of the server.
SessionFails ==
  /\ resumed = {} /\ fetching > 0 /\ fetching' = fetching - 1
  /\ badge' = "failed"
  /\ UNCHANGED <<ui, selectionVars, scannerVars, panel, busy, modal, displayed, uploading,
                 currentRole, currentSession, transport, keyPair, pubKey, cryptoKeys, offered,
                 timers, conn>>

\* setTab.
SelectTab(tab) ==
  /\ UserMay /\ ~modal /\ LeavesTab
  /\ panel' = tab
  /\ \/ tab = "send" /\ currentRole' = "sender" /\ UNCHANGED <<displayed, fetching>>
     \/ tab = "receive" /\ currentRole' = "receiver" /\ Fetch
  /\ UNCHANGED <<ui, selectionVars, scannerVars, busy, modal, badge, uploading, currentSession,
                 transport, keyPair, pubKey, cryptoKeys, offered, timers, conn>>

\* Mutant: the transport of the old session is dropped, not closed.
RefreshDropping ==
  /\ UserMay /\ panel = "receive" /\ ~busy
  /\ transport' = Nothing /\ UNCHANGED <<conn, badge>>
  /\ ui' = "IDLE" /\ Fetch
  /\ UNCHANGED <<selectionVars, scannerVars, panel, busy, modal, uploading, currentRole,
                 currentSession, keyPair, pubKey, cryptoKeys, offered, timers>>

\* The button for a new code.
Refresh ==
  /\ UserMay /\ panel = "receive" /\ ~busy
  /\ conn' = CloseCurrent /\ badge' = BadgeAfterClose(badge) /\ transport' = Nothing
  /\ ui' = "IDLE" /\ Fetch
  /\ UNCHANGED <<selectionVars, scannerVars, panel, busy, modal, uploading, currentRole,
                 currentSession, keyPair, pubKey, cryptoKeys, offered, timers>>

\* Mutant: the timer waits until it may reconnect.
ReconnectPolls(c) ==
  /\ resumed = {} /\ c \in timers
  /\ IF currentSession # Nothing /\ ui \notin {"TRANSFERRING", "ERROR"}
     THEN timers' = timers \ {c} /\ StartConnection("receiver", currentSession, "timer", badge)
     ELSE UNCHANGED <<timers, conn, badge, transport, currentRole, cryptoKeys, offered, keyPair, pubKey>>
  /\ UNCHANGED <<ui, selectionVars, scannerVars, panel, busy, modal, displayed, fetching,
                 uploading, currentSession>>

\* The timer set for connection c fires.
ReconnectTimer(c) ==
  /\ resumed = {} /\ c \in timers /\ timers' = timers \ {c}
  /\ IF currentSession # Nothing /\ ui \notin {"TRANSFERRING", "ERROR"}
     THEN StartConnection("receiver", currentSession, "timer", badge)
     ELSE UNCHANGED <<conn, badge, transport, currentRole, cryptoKeys, offered, keyPair, pubKey>>
  /\ UNCHANGED <<ui, selectionVars, scannerVars, panel, busy, modal, displayed, fetching,
                 uploading, currentSession>>
------------------------------------------------------------------------------
(* The sender's form, scanner and picture. *)

Select(sel) ==
  /\ UserMay /\ panel = "send" /\ ~busy /\ ~modal
  /\ SelectFiles(sel)
  /\ UNCHANGED <<scannerVars, pageVars>>

Remove ==
  /\ UserMay /\ panel = "send" /\ ~busy /\ ~modal /\ selectedFilesList # Nothing
  /\ ClearSelection /\ Transition("IDLE")
  /\ UNCHANGED <<scannerVars, pageVars>>

Packs == packing' # packing

\* A click on the form's or on the scanner's button, with something selected.
AskFor(k) ==
  /\ UserMay /\ panel = "send" /\ ~busy /\ ~modal
  /\ selectedFile # Nothing \/ selectedFilesList # Nothing
  /\ IsOpen(transport) => "switches" \in Habits
  /\ k = "scan" => UnusedStarts # {} /\ (ScannerIdle \/ "hurries" \in Habits)
  /\ EnsureSelectedFileReady(k)
  /\ badge' = IF Packs THEN "packing" ELSE badge
  /\ UNCHANGED <<ui, scannerVars, panel, busy, modal, displayed, fetching, uploading, currentRole,
                 currentSession, transport, keyPair, pubKey, cryptoKeys, offered, timers, conn>>

\* From whatever state to PAIRING, and on to the session that was entered.
Pair(caller) ==
  /\ ui' = "PAIRING"
  /\ StartConnection("sender", Entered, caller, "connecting")

\* The form goes on: the archive has failed, or what was entered is not valid,
\* or it connects.
PairResumes ==
  /\ Resumed("pair")
  /\ \/ /\ ui' = "ERROR"
        /\ UNCHANGED <<badge, conn, transport, currentRole, cryptoKeys, offered, keyPair, pubKey>>
     \/ result # Failure /\ Pair("form")
  /\ UNCHANGED <<selectedFile, selectedFilesList, zipPromise, packing, waiting, scannerVars, panel,
                 busy, modal, displayed, fetching, uploading, currentSession, timers>>

\* The scanner opens, if the archive is there.
ScanResumes ==
  /\ Resumed("scan")
  /\ IF result = Failure THEN UNCHANGED <<modal, scannerVars>>
     ELSE modal' = TRUE /\ StartScan(CHOOSE i \in UnusedStarts : TRUE)
  /\ UNCHANGED <<ui, selectedFile, selectedFilesList, zipPromise, packing, waiting, panel, busy,
                 badge, displayed, fetching, uploading, currentRole, currentSession, transport,
                 keyPair, pubKey, cryptoKeys, offered, timers, conn>>

CloseScanner ==
  /\ resumed = {} /\ modal /\ modal' = FALSE
  /\ Stop(step)
  /\ UNCHANGED <<ui, selectionVars, panel, busy, badge, displayed, fetching, uploading, currentRole,
                 currentSession, transport, keyPair, pubKey, cryptoKeys, offered, timers, conn>>

\* The scanner's success callback.  A user who does not hurry holds no code
\* before the camera that is being closed, or while a picture is searched.
ScanHit(i) ==
  /\ resumed = {} /\ CodeDetected(i)
  /\ (isScanning /\ ~uploading) \/ "hurries" \in Habits
  /\ modal' = FALSE /\ Pair("link")
  /\ UNCHANGED <<selectionVars, panel, busy, displayed, fetching, uploading, currentSession, timers>>

ScannerMoves ==
  /\ resumed = {} /\ ScannerProgress
  /\ UNCHANGED <<ui, selectionVars, pageVars>>

ScannerWaits ==
  /\ resumed = {}
  /\ \E i \in Starts : CameraGranted(i) \/ CameraDenied(i) \/ FrameFires(i) \/ NothingDetected(i)
  /\ UNCHANGED <<ui, selectionVars, pageVars>>

\* A link is pasted into the scanner.
PasteLink ==
  /\ UserMay /\ modal /\ modal' = FALSE
  /\ Stop(step) /\ Pair("link")
  /\ UNCHANGED <<selectionVars, panel, busy, displayed, fetching, uploading, currentSession, timers>>

UploadImage ==
  /\ UserMay /\ modal /\ ~uploading /\ uploading' = TRUE
  /\ UNCHANGED <<ui, selectionVars, scannerVars, panel, busy, modal, badge, displayed, fetching,
                 currentRole, currentSession, transport, keyPair, pubKey, cryptoKeys, offered,
                 timers, conn>>

\* The picture has a code, or none.
ImageScanned ==
  /\ resumed = {} /\ uploading /\ uploading' = FALSE
  /\ \/ modal' = FALSE /\ Stop(step) /\ Pair("link")
     \/ UNCHANGED <<ui, scannerVars, modal, badge, conn, transport, currentRole, cryptoKeys,
                    offered, keyPair, pubKey>>
  /\ UNCHANGED <<selectionVars, panel, busy, displayed, fetching, currentSession, timers>>

Archived(j) ==
  /\ resumed = {} /\ ArchiveDone(j)
  /\ UNCHANGED <<scannerVars, pageVars>>
------------------------------------------------------------------------------
(* From the handshake to the end of the transfer. *)

\* handleIncomingFrame on the peer's HANDSHAKE_INIT, up to the chunker.
KeysDerived(c) ==
  /\ resumed = {} /\ IsOpen(c) /\ ~conn[c].greeted
  /\ conn' = [conn EXCEPT ![c].greeted = TRUE]
  /\ offered' = Nothing
  /\ IF keyPair = Nothing \/ transport = Nothing
     THEN ui' = "ERROR" /\ UNCHANGED <<selectionVars, badge, cryptoKeys>>
     ELSE /\ cryptoKeys' = [conn |-> c, role |-> currentRole, key |-> keyPair, pub |-> pubKey]
          /\ UNCHANGED ui
          /\ IF currentRole = "sender"
             THEN EnsureSelectedFileReady("chunk") /\ badge' = IF Packs THEN "packing" ELSE badge
             ELSE badge' = "connected" /\ UNCHANGED selectionVars
  /\ UNCHANGED <<scannerVars, panel, busy, modal, displayed, fetching, uploading, currentRole,
                 currentSession, transport, keyPair, pubKey, timers>>

\* Mutant: a failed archive is not noticed.
ChunkResumesAnyway ==
  /\ Resumed("chunk") /\ UNCHANGED <<ui, badge>>
  /\ offered' = IF result = Nothing THEN offered ELSE result
  /\ UNCHANGED <<selectedFile, selectedFilesList, zipPromise, packing, waiting, scannerVars, panel,
                 busy, modal, displayed, fetching, uploading, currentRole, currentSession, transport,
                 keyPair, pubKey, cryptoKeys, timers, conn>>

\* The chunker is made and the MANIFEST sent, if there is a file and the keys
\* are still there.
ChunkResumes ==
  /\ Resumed("chunk")
  /\ IF result = Failure \/ (result # Nothing /\ cryptoKeys = Nothing)
     THEN ui' = "ERROR" /\ UNCHANGED <<offered, badge>>
     ELSE /\ UNCHANGED ui
          /\ offered' = IF result = Nothing THEN offered ELSE result
          /\ badge' = IF result = Nothing THEN badge ELSE "connected"
  /\ UNCHANGED <<selectedFile, selectedFilesList, zipPromise, packing, waiting, scannerVars, panel,
                 busy, modal, displayed, fetching, uploading, currentRole, currentSession, transport,
                 keyPair, pubKey, cryptoKeys, timers, conn>>

\* ACCEPT to a sender, MANIFEST to a receiver; both approve and then go on.
TransferStarts ==
  /\ resumed = {} /\ IsOpen(transport) /\ cryptoKeys # Nothing /\ conn[transport].greeted
  /\ ui # "TRANSFERRING"
  /\ currentRole = "sender" => offered # Nothing
  /\ IF CanTransition(ui, TRUE, "TRANSFERRING") THEN ui' = "TRANSFERRING" /\ busy' = TRUE
     ELSE ui' = "ERROR" /\ UNCHANGED busy
  /\ UNCHANGED <<selectionVars, scannerVars, panel, modal, badge, displayed, fetching, uploading,
                 currentRole, currentSession, transport, keyPair, pubKey, cryptoKeys, offered,
                 timers, conn>>

\* The receiver has all chunks, or an error is shown on either side.  A sender
\* and a receiver that has saved the file stay in their state: no step of the
\* code reaches COMPLETED (see AckCompletes of TransferSession).
TransferGoesOn ==
  /\ resumed = {}
  /\ \/ ui = "TRANSFERRING" /\ currentRole = "receiver" /\ ui' = "VERIFYING"
     \/ ui \in {"TRANSFERRING", "VERIFYING"} /\ busy /\ ui' = "ERROR"
  /\ UNCHANGED <<selectionVars, scannerVars, pageVars>>

\* resetToInitialState, from state now.  The panels change, the code on the
\* hidden one stays.  clearSelectedFile may throw, and what follows it is left.
Reset(now) ==
  /\ busy /\ busy' = FALSE /\ panel' = "send"
  /\ conn' = CloseCurrent /\ transport' = Nothing
  /\ ClearSelection
  /\ currentSession' = Nothing /\ keyPair' = Nothing /\ cryptoKeys' = Nothing /\ offered' = Nothing
  /\ IF CanTransition(now, FALSE, "IDLE")
     THEN ui' = "IDLE" /\ badge' = "ready" /\ currentRole' = "sender"
     ELSE ui' = now /\ badge' = BadgeAfterClose(badge) /\ UNCHANGED currentRole
  /\ UNCHANGED <<scannerVars, modal, displayed, fetching, uploading, pubKey, timers>>

\* The cancel button of the transfer view, and the new transfer of the complete
\* view, which is shown in VERIFYING.
CancelTransfer == UserMay /\ Reset("CANCELLED")
StartNew == UserMay /\ ui \in {"VERIFYING", "ERROR"} /\ Reset(ui)

\* CANCEL from the peer.
PeerCancels ==
  /\ resumed = {} /\ IsOpen(transport) /\ cryptoKeys # Nothing
  /\ Reset("CANCELLED")
------------------------------------------------------------------------------
Resumes == PairResumes \/ ScanResumes \/ ChunkResumes

UserStep ==
  \/ \E tab \in {"send", "receive"} : SelectTab(tab)
  \/ \E sel \in Selection : Select(sel)
  \/ AskFor("pair") \/ AskFor("scan")
  \/ Refresh \/ Remove \/ PasteLink \/ UploadImage \/ CloseScanner
  \/ CancelTransfer \/ StartNew

Event ==
  \/ SessionArrives \/ SessionFails \/ ScannerMoves \/ ScannerWaits \/ ImageScanned
  \/ TransferStarts \/ TransferGoesOn \/ PeerCancels
  \/ \E j \in Jobs : Archived(j)
  \/ \E i \in Starts : ScanHit(i)
  \/ \E c \in Conns : (ConnectionProgress(c) \/ ConnectionEvent(c) \/ ReconnectTimer(c) \/ KeysDerived(c))

Next == UserStep \/ Resumes \/ Event
Spec == Init /\ [][Next]_vars

\* What the browser does by itself once it is asked to: keys, requests, sockets,
\* timers, archives, pictures, and the steps of the video once the camera is on.
\* A task that is due waits for the continuations, so each is fair with them; the
\* scanner, beside which a peer may come and go, is strongly fair.
\* Neither the user nor the peer nor the camera's permission is fair.
Fairness ==
  /\ WF_vars(Resumes \/ SessionArrives \/ SessionFails)
  /\ SF_vars(ImageScanned)
  /\ SF_vars(ScannerMoves)
  /\ \A j \in Jobs : WF_vars(Resumes \/ Archived(j))
  /\ \A c \in Conns : WF_vars(Resumes \/ ConnectionProgress(c) \/ ReconnectTimer(c))

FairSpec == Spec /\ Fairness
------------------------------------------------------------------------------
(* Properties. *)

\* What the receiver shows is what it has joined: once nothing is under way, a
\* page that shows a code, without an error, has joined the session of the code
\* as its receiver.
DisplayedIsJoined ==
  Settled /\ panel = "receive" /\ ~busy /\ displayed # Nothing /\ badge # "failed" /\ ui # "ERROR"
  => /\ transport # Nothing
     /\ conn[transport].role = "receiver" /\ conn[transport].session = displayed
     /\ badge = "waiting" => conn[transport].phase \in {"joined", "open"}

\* "Close peer transport, ... and signaling connection": no connection but the
\* current one has a transport or a socket.
NothingLeaks ==
  \A c \in Conns : conn[c].phase \in {"connecting", "joined", "open", "direct", "lost",
                                      "orphaned", "leaked"} => c = transport

\* The keys of the current connection were derived for it, in its role, and
\* from the key pair whose public half its peer has been sent.
KeysTogether ==
  cryptoKeys # Nothing /\ transport # Nothing /\ conn[transport] # Gone =>
    /\ cryptoKeys.conn = transport /\ cryptoKeys.role = conn[transport].role
    /\ cryptoKeys.key = transport /\ cryptoKeys.pub = transport

\* What is offered to the peer is the selection the page shows, if it shows one,
\* and not an earlier selection's archive.
OfferedIsSelected ==
  [][offered' \notin {offered, Nothing} => offered' = selectedFilesList \/ selectedFilesList = Nothing]_vars

\* Nothing is offered once it has been removed.
RemovedIsNotOffered ==
  [][offered' \notin {offered, Nothing} => selectedFilesList # Nothing]_vars

\* Whatever was begun ends: no start, request, archive or timer hangs.
PageSettles == []<>Settled

\* "If WebRTC DataChannel is active and transferring/verifying, do not disrupt": a
\* timer that reconnects never takes an open connection from a transfer.
TransferKeepsTransport ==
  [][busy /\ ui \in {"TRANSFERRING", "VERIFYING"} /\ IsOpen(transport) =>
       transport' = transport \/ ~busy']_vars

\* A receiver that waits can be connected: its page could go to CONNECTED.
WaitingCanConnect ==
  Settled /\ panel = "receive" /\ badge = "waiting" => CanTransition(ui, FALSE, "CONNECTED")
=============================================================================
