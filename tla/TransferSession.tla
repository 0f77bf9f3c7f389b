--------------------------- MODULE TransferSession ---------------------------
(***************************************************************************)
(* One transfer between the two pages (public/js/app.js over the UI states *)
(* of public/js/ui.js): handshake, MANIFEST, ACCEPT, the chunk loop,       *)
(* COMPLETE, verification, DOWNLOAD_ACK and CANCEL.                        *)
(*                                                                         *)
(* handleIncomingFrame is async and nothing serialises its invocations, so *)
(* every handler is cut at its awaits: the synchronous part is one action, *)
(* and what is left to run is a task of the page, resumed at any later     *)
(* time against the page's then current global variables.                  *)
(*                                                                         *)
(* The transport is a FIFO of frames per direction, over the DataChannel   *)
(* or (relay) over the server; how it gets there is left to PeerTransport. *)
(* Key k stands for the keys derived from the receiver's k-th key pair, 0  *)
(* for null and Mixed for keys derived from parts of two exchanges.  The   *)
(* content of a chunk is "intact" or "altered" since the file was hashed.  *)
(***************************************************************************)
EXTENDS Naturals, Sequences, FiniteSets, UIStates

CONSTANTS
  NumChunks,      \* chunks of the file
  MaxEpoch,       \* bound on receiver key pairs: MaxEpoch - 1 reconnects
  Relay,          \* transport modes: TRUE for the tunnel, FALSE for p2p
  UserCancels,    \* a user may press Cancel
  SourceChanges,  \* the file on the sender's disk may change once hashed
  SlowKeys        \* epochs whose key derivation may be slower than the next frame

ASSUME SessionAssumption ==
  /\ NumChunks \in Nat \ {0} /\ MaxEpoch \in Nat \ {0}
  /\ Relay \subseteq BOOLEAN
  /\ UserCancels \in BOOLEAN /\ SourceChanges \in BOOLEAN /\ SlowKeys \subseteq 1 .. MaxEpoch

Page == {"S", "R"}           \* the sender's and the receiver's page
Peer(p) == IF p = "S" THEN "R" ELSE "S"
Index == 0 .. NumChunks - 1
Content == {"missing", "intact", "altered"}
Mixed == MaxEpoch + 1
NoChunker == [next |-> 0, key |-> 0]

VARIABLES
  page,        \* per page: ui state, shown view, flags, keys, transport, tasks
  net,         \* net[p]: frames on their way to page p
  relay,       \* the transport mode
  chunker,     \* the sender's chunker: the next chunk and its key
  asm,         \* key of the receiver's reassembler; 0 when there is none
  got,         \* ... and what it has of each chunk
  finalized,   \* reassembler.isFinalized
  finalizing,  \* isFinalizingTransfer
  epoch,       \* the receiver's current key pair
  timer,       \* the receiver's reconnect timer is running
  saved,       \* what the receiver has downloaded
  cancelled    \* pages on which the transfer has been cancelled (history)

asmVars == <<asm, got, finalized, finalizing>>
userVars == <<relay, epoch, timer, saved, cancelled>>
fileVars == <<chunker, asmVars, userVars>>
vars == <<page, net, fileVars>>

Control == {"MANIFEST", "ACCEPT", "COMPLETE", "DOWNLOAD_ACK", "CANCEL"}
Frame(type, i, content, key) == [type |-> type, index |-> i, content |-> content, key |-> key]
Signal(type, key) == Frame(type, 0, "missing", key)
Task(kind, frame) ==
  [kind |-> kind, type |-> frame.type, index |-> frame.index,
   content |-> frame.content, key |-> frame.key]
------------------------------------------------------------------------------
(* The UI state machine, as the pages use it. *)

CanGo(me, state) == CanTransition(me.ui, me.approved, state)

Failed(me) == [me EXCEPT !.ui = "ERROR"]

\* ui.transition inside a try block whose catch calls ui.error.
Go(me, state) == IF CanGo(me, state) THEN [me EXCEPT !.ui = state] ELSE Failed(me)

\* resetToInitialState: clearSelectedFile's transition to IDLE may throw, and
\* then ui.reset is not reached.
ResetPage(me) ==
  LET r == [me EXCEPT !.view = "pairing", !.keys = 0, !.sentHandshake = FALSE,
                      !.conn = "none", !.isCancelled = FALSE]
  IN IF CanGo(me, "IDLE") THEN [r EXCEPT !.ui = "IDLE", !.approved = FALSE] ELSE r
------------------------------------------------------------------------------
(* Tasks and frames. *)

Start(me, task) == [me EXCEPT !.tasks = @ \cup {task}]
End(me, task) == [me EXCEPT !.tasks = @ \ {task}]
Pending(p, kind) == {t \in page[p].tasks : t.kind = kind}
Become(p, me) == page' = [page EXCEPT ![p] = me]

\* sendControlMessage up to its await: silent without keys or transport.
SendControl(me, kind, action) ==
  IF me.keys = 0 \/ me.conn = "none" THEN me
  ELSE Start(me, Task(kind, Signal(action, me.keys)))

\* transport.send: a frame for a page that has left is lost ...
Sent(queues, p, frame) ==
  IF page[Peer(p)].conn \in {"none", "broken"} THEN queues
  ELSE [queues EXCEPT ![Peer(p)] = Append(@, frame)]

\* ... unless the transport has noticed, and send throws.
Sendable(p) == page[p].conn = "open"
MayThrow(p) ==
  \/ page[p].conn # "open"
  \/ page[Peer(p)].conn \in {"none", "broken"}
  \/ page[Peer(p)].conn = "connecting" /\ epoch > 1

\* transport.close: of what is on its way to the peer, the end may be lost.
Closed(queues, p) ==
  {[queues EXCEPT ![p] = <<>>, ![Peer(p)] = SubSeq(@, 1, n)] : n \in 0 .. Len(queues[Peer(p)])}

NoChunks == [i \in Index |-> "missing"]
DropReassembler == asm' = 0 /\ got' = NoChunks /\ finalized' = FALSE

\* Resetting also forgets the chunker, the reassembler and the finalization.
ForgetTransfer(p) ==
  IF p = "S" THEN chunker' = NoChunker /\ UNCHANGED asmVars
  ELSE DropReassembler /\ finalizing' = FALSE /\ UNCHANGED chunker

Reset(p, me) ==
  /\ Become(p, ResetPage(me))
  /\ net' \in Closed(net, p)
  /\ ForgetTransfer(p)
  /\ UNCHANGED <<relay, epoch, timer, saved>>

TypeOK ==
  /\ \A p \in Page :
       /\ page[p].ui \in UIState
       /\ page[p].view \in {"pairing", "transfer", "complete"}
       /\ page[p].keys \in 0 .. Mixed /\ page[p].peerKey \in 0 .. MaxEpoch
       /\ page[p].conn \in {"none", "connecting", "open", "broken"}
       /\ {page[p].approved, page[p].isCancelled, page[p].sentHandshake} \subseteq BOOLEAN
       /\ \A t \in page[p].tasks : t.index \in Index /\ t.key \in 0 .. Mixed
  /\ chunker.next \in Nat /\ chunker.key \in 0 .. Mixed
  /\ asm \in 0 .. Mixed /\ got \in [Index -> Content]
  /\ {relay, finalized, finalizing, timer} \subseteq BOOLEAN
  /\ epoch \in 1 .. MaxEpoch /\ saved \in Content /\ cancelled \subseteq Page

\* Both pages have called startPeerConnection and met in the room.
Init ==
  /\ page = [p \in Page |->
               [ui |-> IF p = "S" THEN "PAIRING" ELSE "IDLE", view |-> "pairing",
                approved |-> FALSE, isCancelled |-> FALSE, keys |-> 0, peerKey |-> 0,
                sentHandshake |-> FALSE, conn |-> "connecting", tasks |-> {}]]
  /\ net = [p \in Page |-> <<>>]
  /\ relay \in Relay
  /\ chunker = NoChunker /\ asm = 0 /\ got = NoChunks
  /\ finalized = FALSE /\ finalizing = FALSE
  /\ epoch = 1 /\ timer = FALSE /\ saved = "missing" /\ cancelled = {}
------------------------------------------------------------------------------
(* Connecting and deriving keys. *)

\* A HANDSHAKE carries the receiver's key pair; the sender's never changes.
Handshake == Signal("HANDSHAKE", epoch)

\* Mutant: the 'open' handler does not look at handshakeSent.
OpenAlwaysSends(p) ==
  LET me == [page[p] EXCEPT !.conn = "open"]
  IN /\ page[p].conn = "connecting"
     /\ Become(p, [Go(me, "CONNECTED") EXCEPT !.sentHandshake = TRUE])
     /\ net' = Sent(net, p, Handshake)
     /\ UNCHANGED fileVars

\* The 'open' handler; a transition that throws ends it before the handshake.
Open(p) ==
  LET me == [page[p] EXCEPT !.conn = "open"]
  IN /\ page[p].conn = "connecting"
     /\ IF ~CanGo(me, "CONNECTED") THEN Become(p, me) /\ UNCHANGED net
        ELSE /\ Become(p, [me EXCEPT !.ui = "CONNECTED", !.sentHandshake = TRUE])
             /\ net' = IF me.sentHandshake THEN net ELSE Sent(net, p, Handshake)
     /\ UNCHANGED fileVars

\* The reply, if none was sent yet, and the import of the peer's key.
ReceiveHandshake(p, frame) ==
  LET key == IF p = "S" THEN frame.key ELSE epoch
      me == [page[p] EXCEPT !.peerKey = key, !.sentHandshake = TRUE]
      rest == [net EXCEPT ![p] = Tail(@)]
      replied == page[p].sentHandshake
  IN /\ \/ /\ Become(p, Start(me, Task("derive", Signal("HANDSHAKE", key))))
           /\ net' = IF replied THEN rest ELSE Sent(rest, p, Handshake)
        \/ ~replied /\ Sendable(p) /\ MayThrow(p) /\ Become(p, Failed(me)) /\ net' = rest
     /\ UNCHANGED fileVars

\* Keys are derived from globals read at several awaits: when a new exchange
\* has begun meanwhile, they may be the old keys, the new ones or neither.
\* Without a transport the handler throws, unless it was past reading it.
DeriveKeys(p, t) ==
  LET me == End(page[p], t)
      now == IF p = "S" THEN me.peerKey ELSE epoch
  IN /\ t \in Pending(p, "derive")
     /\ \E key \in {t.key, now, IF t.key = now THEN now ELSE Mixed} :
          LET keyed == [me EXCEPT !.keys = key]
          IN \/ Become(p, IF p = "S" /\ me.conn # "none"
                          THEN Start(keyed, Task("package", Signal("", 0))) ELSE keyed)
             \/ me.conn = "none" /\ Become(p, Failed(me))
     /\ UNCHANGED <<net, fileVars>>

\* ensureSelectedFileReady is done: the chunker is made with the current keys.
MakeChunker(t) ==
  LET me == End(page["S"], t)
  IN /\ t \in Pending("S", "package")
     /\ IF me.keys = 0 THEN Become("S", Failed(me)) /\ UNCHANGED chunker
        ELSE /\ Become("S", Start(me, Task("hash", Signal("", 0))))
             /\ chunker' = [next |-> 0, key |-> me.keys]
     /\ UNCHANGED <<net, asmVars, userVars>>

\* Mutant: chunks are streamed behind the MANIFEST, without waiting for ACCEPT.
SendManifestAndStream(t) ==
  LET me == SendControl(End(page["S"], t), "send", "MANIFEST")
  IN /\ t \in Pending("S", "hash")
     /\ Become("S", Start(me, Task("loop", Signal("", 0))))
     /\ UNCHANGED <<net, fileVars>>

SendManifest(t) ==
  /\ t \in Pending("S", "hash")
  /\ Become("S", SendControl(End(page["S"], t), "send", "MANIFEST"))
  /\ UNCHANGED <<net, fileVars>>
------------------------------------------------------------------------------
(* Control messages. *)

\* The frame is encrypted: transport.send, or its exception in a try block.
SendEncrypted(p, t) ==
  LET me == End(page[p], t)
  IN /\ t \in Pending(p, "send")
     /\ \/ Sendable(p) /\ Become(p, me) /\ net' = Sent(net, p, Signal(t.type, t.key))
        \/ MayThrow(p) /\ Become(p, Failed(me)) /\ UNCHANGED net
     /\ UNCHANGED fileVars

\* A control frame that finds no keys is dropped; otherwise it is decrypted.
ReceiveControl(p, frame) ==
  LET me == page[p]
      kind == IF frame.key = me.keys /\ frame.key # Mixed THEN "control" ELSE "garbled"
  IN /\ Become(p, IF me.keys = 0 THEN me ELSE Start(me, Task(kind, frame)))
     /\ net' = [net EXCEPT ![p] = Tail(@)]
     /\ UNCHANGED fileVars

DecryptFails(p, t) ==
  /\ t \in Pending(p, "garbled")
  /\ Become(p, Failed(End(page[p], t)))
  /\ UNCHANGED <<net, fileVars>>

\* MANIFEST: the receiver approves by itself and makes a reassembler.
HandleManifest(t) ==
  LET me == [End(page["R"], t) EXCEPT !.approved = TRUE]
      now == Go(me, "TRANSFERRING")
  IN /\ t \in Pending("R", "control") /\ t.type = "MANIFEST"
     /\ IF me.keys = 0 THEN Become("R", Failed(me)) /\ UNCHANGED <<asm, got, finalized>>
        ELSE /\ asm' = me.keys /\ got' = NoChunks /\ finalized' = FALSE
             /\ Become("R", IF now.ui = "ERROR" THEN now
                            ELSE SendControl([now EXCEPT !.view = "transfer"], "send", "ACCEPT"))
     /\ UNCHANGED <<net, chunker, finalizing, userVars>>

\* Mutant: the loop reads one chunk more than there are.
StreamPastEnd(me) ==
  IF chunker = NoChunker THEN Failed(me)
  ELSE IF me.isCancelled THEN me
  ELSE IF chunker.next <= NumChunks
  THEN Start(me, Task("read", Frame("CHUNK", chunker.next, "intact", chunker.key)))
  ELSE SendControl(me, "send", "COMPLETE")

\* Mutant: the loop stops before the last chunk.
StreamDropsLast(me) ==
  IF chunker = NoChunker THEN Failed(me)
  ELSE IF me.isCancelled THEN me
  ELSE IF chunker.next + 1 < NumChunks
  THEN Start(me, Task("read", Frame("CHUNK", chunker.next, "intact", chunker.key)))
  ELSE SendControl(me, "send", "COMPLETE")

\* The condition of the streaming loop: read the next chunk, or finish.
Stream(me) ==
  IF chunker = NoChunker THEN Failed(me)
  ELSE IF me.isCancelled THEN me
  ELSE IF chunker.next < NumChunks
  THEN Start(me, Task("read", Frame("CHUNK", chunker.next, "intact", chunker.key)))
  ELSE SendControl(me, "send", "COMPLETE")

\* ACCEPT: the sender starts a streaming loop.
HandleAccept(t) ==
  LET me == [End(page["S"], t) EXCEPT !.approved = TRUE]
      now == Go(me, "TRANSFERRING")
      shown == [now EXCEPT !.view = "transfer"]
  IN /\ t \in Pending("S", "control") /\ t.type = "ACCEPT"
     /\ Become("S", IF now.ui = "ERROR" THEN now
                    ELSE IF chunker = NoChunker \/ me.conn = "none" THEN shown
                    ELSE Stream(shown))
     /\ UNCHANGED <<net, fileVars>>

HandleComplete(t) ==
  /\ t \in Pending("R", "control") /\ t.type = "COMPLETE"
  /\ Become("R", End(page["R"], t))
  /\ UNCHANGED <<net, fileVars>>

HandleDownloadAck(t) ==
  LET now == Go(End(page["S"], t), "COMPLETED")
  IN /\ t \in Pending("S", "control") /\ t.type = "DOWNLOAD_ACK"
     /\ Become("S", IF now.ui = "ERROR" THEN now ELSE [now EXCEPT !.view = "complete"])
     /\ UNCHANGED <<net, fileVars>>

HandleCancel(p, t) ==
  /\ t \in Pending(p, "control") /\ t.type = "CANCEL"
  /\ Reset(p, [End(page[p], t) EXCEPT !.ui = "CANCELLED"])
  /\ cancelled' = cancelled \cup {p}
------------------------------------------------------------------------------
(* The sender's streaming loop. *)

\* The loop goes on after its pause.
StreamStep(t) ==
  /\ t \in Pending("S", "loop")
  /\ Become("S", Stream(End(page["S"], t)))
  /\ UNCHANGED <<net, fileVars>>

\* nextChunk returns: its chunker advances and the frame is sent.
SendChunk(t) ==
  LET me == End(page["S"], t)
  IN /\ t \in Pending("S", "read")
     /\ \/ /\ Sendable("S")
           /\ Become("S", Start(me, Task("loop", Signal("", 0))))
           /\ \E content \in IF SourceChanges THEN {"intact", "altered"} ELSE {"intact"} :
                net' = Sent(net, "S", Frame("CHUNK", t.index, content, t.key))
        \/ MayThrow("S") /\ Become("S", Failed(me)) /\ UNCHANGED net
     /\ chunker' = IF t.key = chunker.key THEN [chunker EXCEPT !.next = @ + 1] ELSE chunker
     /\ UNCHANGED <<asmVars, userVars>>

\* Reading a slice of a file that has changed on disk throws.
ReadFails(t) ==
  /\ SourceChanges
  /\ t \in Pending("S", "read")
  /\ Become("S", Failed(End(page["S"], t)))
  /\ UNCHANGED <<net, fileVars>>
------------------------------------------------------------------------------
(* The receiver: chunks and finalization. *)

\* receiveChunk up to the decryption, which fails under another key.  A chunk
\* that was received before is accepted again only if it is the same.
ReceiveChunk(frame) ==
  LET me == page["R"]
      same == frame.key = asm /\ got[frame.index] \in {"missing", frame.content}
  IN /\ Become("R", IF asm = 0 \/ finalized THEN me
                    ELSE Start(me, Task(IF same THEN "chunk" ELSE "garbled", frame)))
     /\ net' = [net EXCEPT !["R"] = Tail(@)]
     /\ UNCHANGED fileVars

\* What the chunks add up to.
Whole(chunks) ==
  IF \E i \in Index : chunks[i] = "missing" THEN "missing"
  ELSE IF \E i \in Index : chunks[i] = "altered" THEN "altered" ELSE "intact"

\* The chunk is written to the reassembler it was received for; the last one
\* starts the finalization, whose transition stands outside its try block.
StoreChunk(t) ==
  LET me == End(page["R"], t)
      all == IF t.key = asm THEN [got EXCEPT ![t.index] = t.content] ELSE got
      last == Whole(all) # "missing" /\ ~finalizing
  IN /\ t \in Pending("R", "chunk")
     /\ IF asm = 0
        THEN Become("R", Failed(me)) /\ UNCHANGED <<got, finalizing>>
        ELSE /\ got' = all
             /\ finalizing' = (finalizing \/ last)
             /\ Become("R", IF ~last THEN me
                            ELSE IF ~CanGo(me, "VERIFYING") THEN Failed(me)
                            ELSE Start(Go(me, "VERIFYING"), Task("verify", Frame("", 0, Whole(all), asm))))
     /\ UNCHANGED <<net, chunker, asm, finalized, userVars>>

\* The catch block of finalizeReceiverTransfer: report and tell the peer.
FinalizeFails(me) ==
  LET now == SendControl(Failed(me), "finish", "CANCEL")
  IN /\ Become("R", now)
     /\ finalizing' = (finalizing /\ now.tasks # me.tasks)

\* Mutant: the digest is computed but not compared.
VerifyUnchecked(t) ==
  /\ t \in Pending("R", "verify")
  /\ finalized' = (finalized \/ t.key = asm)
  /\ Become("R", Start(End(page["R"], t), Task("save", Frame("", 0, t.content, t.key))))
  /\ UNCHANGED <<net, chunker, asm, got, finalizing, userVars>>

\* Mutant: DOWNLOAD_ACK is sent as soon as all chunks are there.
VerifyAcksEarly(t) ==
  LET me == SendControl(End(page["R"], t), "finish", "DOWNLOAD_ACK")
  IN /\ t \in Pending("R", "verify")
     /\ finalized' = (finalized \/ t.key = asm)
     /\ Become("R", Start(me, Task("save", Frame("", 0, t.content, t.key))))
     /\ UNCHANGED <<net, chunker, asm, got, finalizing, userVars>>

\* reassembler.finalize: the digest differs when the sender's file has changed.
Verify(t) ==
  LET me == End(page["R"], t)
  IN /\ t \in Pending("R", "verify")
     /\ IF t.content = "intact"
        THEN /\ finalized' = (finalized \/ t.key = asm)
             /\ Become("R", Start(me, Task("save", Frame("", 0, t.content, t.key))))
             /\ UNCHANGED finalizing
        ELSE FinalizeFails(me) /\ UNCHANGED finalized
     /\ UNCHANGED <<net, chunker, asm, got, userVars>>

\* The file (unzipped or not, see ArchiveTransfer) is downloaded and acknowledged,
\* if the page still has a reassembler to take the digest from.
SaveFile(t) ==
  LET me == [End(page["R"], t) EXCEPT !.view = "complete"]
      now == SendControl(me, "finish", "DOWNLOAD_ACK")
  IN /\ t \in Pending("R", "save")
     /\ IF asm = 0 THEN FinalizeFails(End(page["R"], t)) /\ UNCHANGED saved
        ELSE /\ Become("R", now)
             /\ saved' = t.content
             /\ finalizing' = (finalizing /\ now.tasks # me.tasks)
     /\ UNCHANGED <<net, chunker, asm, got, finalized, relay, epoch, timer, cancelled>>

\* Mutant: a DOWNLOAD_ACK that cannot be sent is reported as an error.
FinishReportsFailure(t) ==
  LET me == End(page["R"], t)
  IN /\ t \in Pending("R", "finish")
     /\ \/ Sendable("R") /\ Become("R", me) /\ net' = Sent(net, "R", Signal(t.type, t.key))
        \/ MayThrow("R") /\ Become("R", Failed(me)) /\ UNCHANGED net
     /\ finalizing' = FALSE
     /\ UNCHANGED <<chunker, asm, got, finalized, userVars>>

\* The last message of the finalization; a failure to send it is ignored.
FinishFinalization(t) ==
  /\ t \in Pending("R", "finish")
  /\ Become("R", End(page["R"], t))
  /\ \/ Sendable("R") /\ net' = Sent(net, "R", Signal(t.type, t.key))
     \/ MayThrow("R") /\ UNCHANGED net
  /\ finalizing' = FALSE
  /\ UNCHANGED <<chunker, asm, got, finalized, userVars>>
------------------------------------------------------------------------------
(* The user, and the receiver's reconnect. *)

\* The Cancel button of the transfer view, up to the await of its message.
PressCancel(p) ==
  LET me == [page[p] EXCEPT !.isCancelled = TRUE]
      now == SendControl(me, "cancel", "CANCEL")
  IN /\ UserCancels /\ page[p].view = "transfer"
     /\ cancelled' = cancelled \cup {p}
     /\ IF me.keys # 0 /\ me.conn # "none"
        THEN Become(p, now) /\ UNCHANGED <<net, chunker, asmVars, relay, epoch, timer, saved>>
        ELSE Reset(p, [me EXCEPT !.ui = "CANCELLED"])

\* CANCEL is encrypted: it is sent just before the transport is closed.  If it
\* cannot be sent, the handler ends there.
FinishCancel(p, t) ==
  LET me == End(page[p], t)
  IN /\ t \in Pending(p, "cancel")
     /\ \/ /\ Sendable(p)
           /\ Become(p, ResetPage([me EXCEPT !.ui = "CANCELLED"]))
           /\ net' \in Closed(Sent(net, p, Signal("CANCEL", t.key)), p)
           /\ ForgetTransfer(p)
        \/ MayThrow(p) /\ Become(p, me) /\ UNCHANGED <<net, chunker, asmVars>>
     /\ UNCHANGED userVars

\* "Start New Transfer", on the complete view.
PressStartNew(p) ==
  /\ page[p].view = "complete"
  /\ Reset(p, page[p])
  /\ UNCHANGED cancelled

MayReconnect(me) == me.conn # "none" /\ ~me.isCancelled /\ me.ui \notin {"TRANSFERRING", "ERROR"}

\* The receiver's signaling socket closes.  That ends a relayed transport, and
\* the sender is told that its peer has left; a DataChannel stays.  Unless a
\* transfer is under way, a timer is set.
SignalingCloses ==
  LET me == IF relay THEN [page["R"] EXCEPT !.conn = "broken"] ELSE page["R"]
      busy == ~relay /\ me.ui \in {"TRANSFERRING", "VERIFYING"}
  IN /\ epoch < MaxEpoch /\ ~timer /\ page["R"].conn = "open"
     /\ Become("R", me)
     /\ timer' = (~busy /\ MayReconnect(me) /\ me.ui # "COMPLETED")
     /\ IF relay
        THEN \E queues \in Closed(net, "R") :
               net' = [queues EXCEPT !["S"] = Append(@, Signal("PEER_LEFT", 0))]
        ELSE UNCHANGED net
     /\ UNCHANGED <<chunker, asmVars, relay, epoch, saved, cancelled>>

\* PEER_LEFT without an open DataChannel: the sender's transport closes for good.
PeerLeft ==
  /\ Become("S", [page["S"] EXCEPT !.conn = "broken"])
  /\ net' = [net EXCEPT !["S"] = Tail(@)]
  /\ UNCHANGED fileVars

\* 1.5 s later: startPeerConnection up to the new key pair ...
Reconnect ==
  LET me == [page["R"] EXCEPT !.conn = "none", !.keys = 0, !.sentHandshake = FALSE,
                              !.isCancelled = FALSE]
  IN /\ timer /\ timer' = FALSE
     /\ IF ~MayReconnect(page["R"]) THEN UNCHANGED <<page, net, asm, got, finalized>>
        ELSE /\ Become("R", Start(me, Task("connect", Signal("", 0))))
             /\ IF relay THEN UNCHANGED net ELSE net' \in Closed(net, "R")
             /\ DropReassembler
     /\ UNCHANGED <<chunker, finalizing, relay, epoch, saved, cancelled>>

\* ... and the new transport.
NewTransport(t) ==
  /\ t \in Pending("R", "connect")
  /\ Become("R", [End(page["R"], t) EXCEPT !.conn = "connecting"])
  /\ epoch' = epoch + 1
  /\ UNCHANGED <<net, chunker, asmVars, relay, timer, saved, cancelled>>
------------------------------------------------------------------------------
\* A TUNNEL_FRAME that switches the page to the tunnel is handled just before
\* the 'open' event, for which everything else then waits.
Opening(p) == relay /\ page[p].conn = "connecting" /\ page[p].sentHandshake

\* Frames are handed to handleIncomingFrame in order, once the page is open.
Deliver(p) ==
  /\ net[p] # <<>>
  /\ \/ page[p].conn = "open"
     \/ relay /\ page[p].conn = "connecting" /\ ~Opening(p)
  /\ epoch \in SlowKeys \/ Pending(p, "derive") = {}
  /\ LET frame == Head(net[p])
     IN \/ frame.type = "HANDSHAKE" /\ ReceiveHandshake(p, frame)
        \/ frame.type \in Control /\ ReceiveControl(p, frame)
        \/ frame.type = "CHUNK" /\ ReceiveChunk(frame)
        \/ frame.type = "PEER_LEFT" /\ PeerLeft

\* The steps the two browsers owe: opening, delivering, resuming tasks.
Progress(p) ==
  \/ Open(p) \/ Deliver(p)
  \/ \E t \in {task \in page[p].tasks : ~Opening(p)} :
       \/ DeriveKeys(p, t) \/ MakeChunker(t) \/ SendManifest(t)
       \/ SendEncrypted(p, t) \/ DecryptFails(p, t)
       \/ HandleManifest(t) \/ HandleAccept(t) \/ HandleComplete(t)
       \/ HandleDownloadAck(t) \/ HandleCancel(p, t)
       \/ StreamStep(t) \/ SendChunk(t)
       \/ StoreChunk(t) \/ Verify(t) \/ SaveFile(t) \/ FinishFinalization(t)
       \/ FinishCancel(p, t) \/ NewTransport(t)

Next ==
  \/ \E p \in Page : Progress(p) \/ PressCancel(p) \/ PressStartNew(p)
  \/ \E t \in page["S"].tasks : ReadFails(t)
  \/ SignalingCloses \/ Reconnect

Spec == Init /\ [][Next]_vars

\* Event loops keep running: each page's pending work and the reconnect timer.
FairSpec == Spec /\ WF_vars(Progress("S")) /\ WF_vars(Progress("R")) /\ WF_vars(Reconnect)
------------------------------------------------------------------------------
(* Properties. *)

InFlight(p, type) == \E i \in DOMAIN net[p] : net[p][i].type = type

\* A DOWNLOAD_ACK is never on its way, nor the sender's complete view shown,
\* before the receiver has downloaded the verified file.
AckMeansSaved ==
  InFlight("S", "DOWNLOAD_ACK") \/ page["S"].view = "complete" => saved # "missing"

\* What the receiver downloads is the whole file that was hashed, whatever the
\* order its chunk handlers finish in, whatever resets and reconnects happen
\* meanwhile, and even when the file changes while it is sent.
SavedIsWhole == saved # "missing" => saved = "intact"

\* Handshakes, manifests and acceptances, each sent by both sides or answered,
\* start the streaming loop once, so that no chunk is skipped or sent twice.  This
\* and the two properties below are about the first connection: the code does not
\* keep them once the receiver reconnects under a loop that still runs.
OneStreamingLoop ==
  epoch = 1 => Cardinality({t \in page["S"].tasks : t.kind \in {"loop", "read"}}) <= 1

\* "Enforces explicit receiver approval gate": no chunk is on its way to a page
\* that has not approved the transfer.
ApprovalGate == epoch = 1 /\ InFlight("R", "CHUNK") => page["R"].approved

\* A receiver that has downloaded the verified file does not report an error.
NoErrorAfterSave == epoch = 1 /\ saved # "missing" => page["R"].ui # "ERROR"

\* Unless a user cancels, the two pages bring the file across.
FileDelivered == <>(saved = "intact" \/ cancelled # {})

\* The sender is told when it sees DOWNLOAD_ACK, or has it on its way.
Told ==
  \/ InFlight("S", "DOWNLOAD_ACK") \/ page["S"].view = "complete"
  \/ \E t \in Pending("S", "control") : t.type = "DOWNLOAD_ACK"

Promise == INSTANCE Delivery WITH acknowledged <- Told

\* The two pages keep the promise of a transfer: what they do is, step by step,
\* to save the whole file once, to tell the sender afterwards, or to cancel; and
\* the file gets there unless a user cancels.
KeepsPromise == Promise!Spec

\* "Transfer complete!": the acknowledgement takes the sender to COMPLETED.
AckCompletes ==
  [][\A t \in page["S"].tasks : HandleDownloadAck(t) => page'["S"].ui = "COMPLETED"]_vars

\* "Start New Transfer" brings the page back to IDLE.
StartNewResets == [][\A p \in Page : PressStartNew(p) => page'[p].ui = "IDLE"]_vars

\* A page on which the transfer was cancelled does not end up showing an error.
CancelIsNotAnError == \A p \in cancelled : page[p].ui # "ERROR"

\* A receiver that reconnects gets keys again and can be sent the file.
ReconnectRekeys == epoch = 2 ~> page["R"].keys = 2
==============================================================================
