------------------------ MODULE TransferSessionProofs ------------------------
(***************************************************************************)
(* Theorems about TransferSession, for every number of chunks, reconnects  *)
(* and slow key derivations, both transports and users who cancel: type    *)
(* correctness, that what is saved is the whole file, that the sender is   *)
(* told so only afterwards, that every step is one of Delivery, and, for   *)
(* the first connection, that chunks wait for the approval, that there is  *)
(* one streaming loop, and that no error follows the download.             *)
(***************************************************************************)
EXTENDS TransferSession, SequenceTheorems, FiniteSetTheorems, TLAPS

Kind == {"derive", "package", "hash", "send", "loop", "read", "chunk", "verify", "save",
         "finish", "cancel", "connect", "control", "garbled"}
Type == Control \cup {"", "HANDSHAKE", "CHUNK", "PEER_LEFT"}
FrameType ==
  {f \in [type : Type, index : Index, content : Content, key : 0 .. Mixed] :
     f.type = "HANDSHAKE" => f.key # Mixed}
TaskType ==
  {t \in [kind : Kind, type : Type, index : Index, content : Content, key : 0 .. Mixed] :
     t.kind \in {"send", "finish"} => t.type \in Control}
FramesFor(p) ==
  {f \in FrameType : f.type # (IF p = "S" THEN "CHUNK" ELSE "PEER_LEFT")}
NetType == {queues \in [Page -> Seq(FrameType)] :
              \A p \in Page : queues[p] \in Seq(FramesFor(p))}
PageType ==
  [ui : UIState, view : {"pairing", "transfer", "complete"}, approved : BOOLEAN,
   isCancelled : BOOLEAN, keys : 0 .. Mixed, peerKey : 0 .. MaxEpoch,
   sentHandshake : BOOLEAN, conn : {"none", "connecting", "open", "broken"},
   tasks : SUBSET TaskType]
ChunkerType == [next : Nat, key : 0 .. Mixed]
------------------------------------------------------------------------------
(* Lemmas about the operators of the model. *)

\* The smallest index is 0, and keys are counted from 0, which stands for null.
LEMMA ZeroInRange ==
  /\ 0 \in Index /\ 0 \in 0 .. Mixed /\ 0 \in 0 .. MaxEpoch
  /\ 1 .. MaxEpoch \subseteq 0 .. MaxEpoch /\ 0 .. MaxEpoch \subseteq 0 .. Mixed
  /\ Mixed \in 0 .. Mixed /\ Mixed \notin 0 .. MaxEpoch
  BY SessionAssumption DEF Index, Mixed

\* A signal is a frame, and most are for either page.
LEMMA SignalType ==
  ASSUME NEW type \in Type, NEW key \in 0 .. Mixed, type = "HANDSHAKE" => key # Mixed
  PROVE  /\ Signal(type, key) \in FrameType
         /\ type \in Control \cup {"HANDSHAKE"} => \A p : Signal(type, key) \in FramesFor(p)
<1>1. Signal(type, key) \in FrameType /\ Signal(type, key).type = type
  BY ZeroInRange DEF Signal, Frame, FrameType, Content
<1>. QED  BY <1>1 DEF FramesFor, Control

\* A task made of a frame is a task.
LEMMA TaskIsTyped ==
  ASSUME NEW kind \in Kind, NEW frame \in FrameType,
         kind \in {"send", "finish"} => frame.type \in Control
  PROVE  Task(kind, frame) \in TaskType
  BY DEF Task, TaskType, FrameType

\* Starting or ending a task changes nothing else of a page.
LEMMA StartEndType ==
  ASSUME NEW me \in PageType, NEW task \in TaskType
  PROVE  Start(me, task) \in PageType /\ End(me, task) \in PageType
  BY DEF Start, End, PageType

\* ui.error and ui.transition keep a page a page.
LEMMA GoType ==
  ASSUME NEW me \in PageType, NEW state \in UIState
  PROVE  Failed(me) \in PageType /\ Go(me, state) \in PageType
  BY DEF Failed, Go, PageType, UIState

\* Resetting keeps a page a page.
LEMMA ResetPageType ==
  ASSUME NEW me \in PageType
  PROVE  ResetPage(me) \in PageType
  BY ZeroInRange DEF ResetPage, PageType, UIState

\* sendControlMessage keeps a page a page.
LEMMA SendControlType ==
  ASSUME NEW me \in PageType, NEW kind \in Kind, NEW action \in Control
  PROVE  SendControl(me, kind, action) \in PageType
<1>1. me.keys \in 0 .. Mixed
  BY DEF PageType
<1>2. Task(kind, Signal(action, me.keys)) \in TaskType
  BY <1>1, SignalType, TaskIsTyped DEF Signal, Frame, Type, Control
<1>. QED  BY <1>2, StartEndType DEF SendControl

\* The streaming loop reads chunks of the file only.
LEMMA StreamType ==
  ASSUME NEW me \in PageType, chunker \in ChunkerType
  PROVE  Stream(me) \in PageType
<1>1. CASE chunker.next < NumChunks
  <2>1. chunker.next \in Index /\ chunker.key \in 0 .. Mixed
    BY <1>1, SessionAssumption DEF Index, ChunkerType
  <2>2. Frame("CHUNK", chunker.next, "intact", chunker.key) \in FrameType
    BY <2>1 DEF Frame, FrameType, Content, Type
  <2>3. Task("read", Frame("CHUNK", chunker.next, "intact", chunker.key)) \in TaskType
    BY <2>2, TaskIsTyped DEF Kind, Frame
  <2>. QED  BY <1>1, <2>3, StartEndType, GoType DEF Stream, UIState
<1>2. CASE ~(chunker.next < NumChunks)
  BY <1>2, SendControlType, GoType DEF Stream, UIState, Type, Kind, Control
<1>. QED  BY <1>1, <1>2

\* What the chunks add up to is the state of a file.
LEMMA WholeType ==
  ASSUME NEW chunks
  PROVE  Whole(chunks) \in Content
  BY DEF Whole, Content
------------------------------------------------------------------------------
(* The network. *)

\* Sending adds a frame behind those for the peer, or loses it: what holds of the
\* frames in a queue still does, if it holds of the new one.
LEMMA SentKeeps ==
  ASSUME NEW queues \in NetType, NEW p \in Page, NEW frame,
         NEW q \in Page, NEW F, queues[q] \in Seq(F), q = Peer(p) => frame \in F
  PROVE  Sent(queues, p, frame)[q] \in Seq(F)
<1>1. q = Peer(p) => Append(queues[q], frame) \in Seq(F)
  OBVIOUS
<1>. QED  BY <1>1 DEF Sent, NetType

\* In particular the queues stay queues of frames.
LEMMA SentType ==
  ASSUME NEW queues \in NetType, NEW p \in Page, NEW frame \in FramesFor(Peer(p))
  PROVE  Sent(queues, p, frame) \in NetType
<1>1. \A q \in Page : Sent(queues, p, frame)[q] \in Seq(FramesFor(q))
  BY SentKeeps DEF NetType
<1>2. frame \in FrameType
  BY DEF FramesFor
<1>3. \A q \in Page : Sent(queues, p, frame)[q] \in Seq(FrameType)
  BY <1>2, SentKeeps DEF NetType
<1>. QED  BY <1>1, <1>3 DEF Sent, NetType

\* Closing a transport empties one queue and keeps the front of the other.
LEMMA ClosedKeeps ==
  ASSUME NEW queues \in NetType, NEW p \in Page, NEW after \in Closed(queues, p)
  PROVE  /\ after \in [Page -> Seq(FrameType)] /\ after[p] = <<>>
         /\ \A q \in Page : \A F : queues[q] \in Seq(F) => after[q] \in Seq(F)
<1>1. Peer(p) \in Page /\ Peer(p) # p /\ queues[Peer(p)] \in Seq(FrameType)
  BY DEF Peer, Page, NetType
<1>2. PICK n \in 0 .. Len(queues[Peer(p)]) :
        after = [queues EXCEPT ![p] = <<>>, ![Peer(p)] = SubSeq(@, 1, n)]
  BY DEF Closed
<1>3. SubSeq(queues[Peer(p)], 1, n) \in Seq(FrameType) /\ <<>> \in Seq(FrameType)
  BY <1>1, SubSeqProperties
<1>4. after = [queues EXCEPT ![p] = <<>>, ![Peer(p)] = SubSeq(queues[Peer(p)], 1, n)]
  BY <1>1, <1>2 DEF NetType
<1>5. after \in [Page -> Seq(FrameType)] /\ after[p] = <<>>
  BY <1>1, <1>3, <1>4 DEF NetType
<1>6. ASSUME NEW q \in Page, NEW F, queues[q] \in Seq(F) PROVE after[q] \in Seq(F)
  <2>1. q = Peer(p) => SubSeq(queues[q], 1, n) \in Seq(F)
    BY <1>2, <1>6, SubSeqProperties
  <2>2. after[q] = IF q = p THEN <<>> ELSE SubSeq(queues[q], 1, n)
    BY <1>1, <1>4 DEF NetType, Page, Peer
  <2>. QED  BY <2>1, <2>2 DEF Page, Peer
<1>. QED  BY <1>5, <1>6

\* Here, too.
LEMMA ClosedType ==
  ASSUME NEW queues \in NetType, NEW p \in Page, NEW after \in Closed(queues, p)
  PROVE  after \in NetType
  BY ClosedKeeps DEF NetType
------------------------------------------------------------------------------
(* Type correctness. *)

\* The types of the variables: TypeOK, and those of what is in the queues.
Typed ==
  /\ page \in [Page -> PageType] /\ net \in NetType
  /\ chunker \in ChunkerType /\ asm \in 0 .. Mixed /\ got \in [Index -> Content]
  /\ relay \in BOOLEAN /\ finalized \in BOOLEAN /\ finalizing \in BOOLEAN
  /\ timer \in BOOLEAN /\ saved \in Content /\ cancelled \in SUBSET Page

\* Key pairs are made one at a time: while the timer runs or the new transport is
\* awaited, there is a key pair left to make, and no transport to lose.
Renewing ==
  /\ epoch \in 1 .. MaxEpoch
  /\ timer => epoch < MaxEpoch
  /\ \A t \in page["R"].tasks : t.kind = "connect" =>
       /\ ~timer /\ epoch < MaxEpoch /\ page["R"].conn = "none"
       /\ t = Task("connect", Signal("", 0))

\* A handler that puts a page in the place of the current one ...
LEMMA BecomeType ==
  ASSUME Typed, NEW p \in Page, NEW me \in PageType, Become(p, me)
  PROVE  page' \in [Page -> PageType]
  BY DEF Typed, Become

\* ... a task it resumes ...
LEMMA PendingType ==
  ASSUME Typed, NEW p \in Page, NEW kind, NEW t \in Pending(p, kind)
  PROVE  /\ t \in TaskType /\ t \in page[p].tasks /\ t.kind = kind
         /\ page[p] \in PageType /\ End(page[p], t) \in PageType
<1>1. page[p] \in PageType /\ t \in page[p].tasks /\ t.kind = kind
  BY DEF Typed, Pending
<1>2. t \in TaskType
  BY <1>1 DEF PageType
<1>. QED  BY <1>1, <1>2, StartEndType

\* ... and a frame it takes off its queue.
LEMMA HeadType ==
  ASSUME Typed, NEW p \in Page, net[p] # <<>>
  PROVE  /\ Head(net[p]) \in FrameType /\ Head(net[p]) \in FramesFor(p)
         /\ [net EXCEPT ![p] = Tail(@)] \in NetType
<1>1. net[p] \in Seq(FrameType) /\ net[p] \in Seq(FramesFor(p))
  BY DEF Typed, NetType
<1>2. /\ Head(net[p]) \in FrameType /\ Head(net[p]) \in FramesFor(p)
      /\ Tail(net[p]) \in Seq(FrameType) /\ Tail(net[p]) \in Seq(FramesFor(p))
  BY <1>1
<1>. QED  BY <1>1, <1>2 DEF Typed, NetType

\* A task, of a kind and with a frame, as the handlers start it.
LEMMA StartTaskType ==
  ASSUME NEW me \in PageType, NEW kind \in Kind, NEW frame \in FrameType,
         kind \in {"send", "finish"} => frame.type \in Control
  PROVE  Start(me, Task(kind, frame)) \in PageType
  BY TaskIsTyped, StartEndType

\* Forgetting a transfer clears the variables of its page.
LEMMA ForgetType ==
  ASSUME Typed, NEW p \in Page, ForgetTransfer(p)
  PROVE  /\ chunker' \in ChunkerType /\ asm' \in 0 .. Mixed /\ got' \in [Index -> Content]
         /\ finalized' \in BOOLEAN /\ finalizing' \in BOOLEAN
<1>1. CASE p = "S"
  BY <1>1, ZeroInRange DEF ForgetTransfer, NoChunker, ChunkerType, Typed, asmVars
<1>2. CASE p # "S"
  <2>1. NoChunks \in [Index -> Content]
    BY DEF NoChunks, Content
  <2>. QED  BY <1>2, <2>1, ZeroInRange DEF ForgetTransfer, DropReassembler, Typed
<1>. QED  BY <1>1, <1>2

\* Resetting a page leaves everything well-typed.
LEMMA ResetType ==
  ASSUME Typed, NEW p \in Page, NEW me \in PageType, Reset(p, me), cancelled' \in SUBSET Page
  PROVE  Typed'
<1>1. page' \in [Page -> PageType]
  BY BecomeType, ResetPageType DEF Reset
<1>2. net' \in NetType
  BY ClosedType DEF Reset, Typed
<1>3. ForgetTransfer(p)
  BY DEF Reset
<1>. QED  BY <1>1, <1>2, <1>3, ForgetType DEF Reset, Typed

\* Opening, handshakes and key derivation.
LEMMA ConnectingType ==
  ASSUME Typed, Renewing, NEW p \in Page
  PROVE  /\ Open(p) => Typed'
         /\ net[p] # <<>> /\ ReceiveHandshake(p, Head(net[p]))
              /\ Head(net[p]).type = "HANDSHAKE" => Typed'
         /\ \A t : DeriveKeys(p, t) => Typed'
         /\ \A t : MakeChunker(t) \/ SendManifest(t) => Typed'
<1>. USE ZeroInRange
<1>a. page[p] \in PageType /\ p \in {"S", "R"} /\ "S" \in Page /\ page["S"] \in PageType
  BY DEF Typed, Page
<1>b. epoch \in 0 .. MaxEpoch /\ epoch \in 0 .. Mixed
  BY DEF Renewing
<1>c. Handshake \in FramesFor(Peer(p))
  BY <1>b, SignalType DEF Handshake, Type
<1>d. UNCHANGED fileVars /\ page' \in [Page -> PageType] /\ net' \in NetType => Typed'
  BY DEF Typed, fileVars, asmVars, userVars
<1>1. ASSUME Open(p) PROVE Typed'
  <2> DEFINE me == [page[p] EXCEPT !.conn = "open"]
  <2>1. me \in PageType /\ [me EXCEPT !.ui = "CONNECTED", !.sentHandshake = TRUE] \in PageType
    BY <1>a DEF PageType, UIState
  <2>2. page' \in [Page -> PageType]
    BY <1>1, <2>1, BecomeType DEF Open
  <2>3. net' \in NetType
    BY <1>1, <1>c, SentType DEF Open, Typed
  <2>. QED  BY <1>1, <1>d, <2>2, <2>3 DEF Open
<1>2. ASSUME NEW frame \in FrameType, net[p] # <<>>, frame.type = "HANDSHAKE",
             ReceiveHandshake(p, frame)
      PROVE  Typed'
  <2> DEFINE key == IF p = "S" THEN frame.key ELSE epoch
             me == [page[p] EXCEPT !.peerKey = key, !.sentHandshake = TRUE]
             rest == [net EXCEPT ![p] = Tail(@)]
  <2>1. key \in 0 .. MaxEpoch /\ key \in 0 .. Mixed /\ key # Mixed
    BY <1>2, <1>b, SessionAssumption DEF FrameType, Mixed
  <2>2. me \in PageType
    BY <1>a, <2>1 DEF PageType
  <2>3. Signal("HANDSHAKE", key) \in FrameType
    BY <2>1, SignalType DEF Type
  <2>4. Start(me, Task("derive", Signal("HANDSHAKE", key))) \in PageType /\ Failed(me) \in PageType
    BY <2>2, <2>3, StartTaskType, GoType DEF Kind, UIState
  <2>5. rest \in NetType /\ Sent(rest, p, Handshake) \in NetType
    BY <1>2, <1>c, HeadType, SentType
  <2>6. page' \in [Page -> PageType]
    BY <1>2, <2>4, BecomeType DEF ReceiveHandshake
  <2>7. net' \in NetType
    BY <1>2, <2>5 DEF ReceiveHandshake
  <2>. QED  BY <1>2, <1>d, <2>6, <2>7 DEF ReceiveHandshake
<1>3. ASSUME NEW t, DeriveKeys(p, t) PROVE Typed'
  <2> DEFINE me == End(page[p], t)
             now == IF p = "S" THEN me.peerKey ELSE epoch
  <2>1. t \in Pending(p, "derive") /\ me \in PageType /\ t \in TaskType
    BY <1>3, PendingType DEF DeriveKeys
  <2>2. t.key \in 0 .. Mixed /\ now \in 0 .. Mixed
    BY <1>b, <2>1 DEF TaskType, PageType
  <2>3. PICK key \in {t.key, now, IF t.key = now THEN now ELSE Mixed} :
          LET keyed == [me EXCEPT !.keys = key]
          IN \/ Become(p, IF p = "S" /\ me.conn # "none"
                          THEN Start(keyed, Task("package", Signal("", 0))) ELSE keyed)
             \/ me.conn = "none" /\ Become(p, Failed(me))
    BY <1>3 DEF DeriveKeys
  <2> DEFINE keyed == [me EXCEPT !.keys = key]
  <2>4. keyed \in PageType
    BY <2>1, <2>2 DEF PageType
  <2>5. Signal("", 0) \in FrameType
    BY SignalType DEF Type
  <2>6. Start(keyed, Task("package", Signal("", 0))) \in PageType /\ Failed(me) \in PageType
    BY <2>1, <2>4, <2>5, StartTaskType, GoType DEF Kind, UIState, Signal, Frame
  <2>7. page' \in [Page -> PageType]
    BY <2>3, <2>4, <2>6, BecomeType
  <2>. QED  BY <1>3, <1>d, <2>7 DEF DeriveKeys, Typed
<1>4. ASSUME NEW t, MakeChunker(t) PROVE Typed'
  <2> DEFINE me == End(page["S"], t)
  <2>1. t \in Pending("S", "package") /\ me \in PageType
    BY <1>4, <1>a, PendingType DEF MakeChunker
  <2>2. Signal("", 0) \in FrameType
    BY SignalType DEF Type
  <2>3. Start(me, Task("hash", Signal("", 0))) \in PageType /\ Failed(me) \in PageType
    BY <2>1, <2>2, StartTaskType, GoType DEF Kind, UIState, Signal, Frame
  <2>4. page' \in [Page -> PageType]
    BY <1>4, <1>a, <2>3, BecomeType DEF MakeChunker
  <2>5. me.keys \in 0 .. Mixed
    BY <2>1 DEF PageType
  <2>6. chunker' \in ChunkerType
    <3>1. chunker' \in {chunker, [next |-> 0, key |-> me.keys]}
      BY <1>4 DEF MakeChunker
    <3>. QED  BY <2>5, <3>1 DEF ChunkerType, Typed
  <2>. QED  BY <1>4, <2>4, <2>6 DEF MakeChunker, Typed, asmVars, userVars
<1>5. ASSUME NEW t, SendManifest(t) PROVE Typed'
  <2>1. t \in Pending("S", "hash") /\ End(page["S"], t) \in PageType
    BY <1>5, <1>a, PendingType DEF SendManifest
  <2>2. SendControl(End(page["S"], t), "send", "MANIFEST") \in PageType
    BY <2>1, SendControlType DEF Kind, Type, Control
  <2>3. page' \in [Page -> PageType]
    BY <1>5, <1>a, <2>2, BecomeType DEF SendManifest
  <2>. QED  BY <1>5, <1>d, <2>3 DEF SendManifest, Typed
<1>. QED  BY <1>1, <1>2, <1>3, <1>4, <1>5, HeadType

\* Control messages.
LEMMA ControlType ==
  ASSUME Typed, NEW p \in Page
  PROVE  /\ net[p] # <<>> /\ ReceiveControl(p, Head(net[p]))
              /\ Head(net[p]).type \in Control => Typed'
         /\ \A t :
              SendEncrypted(p, t) \/ DecryptFails(p, t) \/ HandleCancel(p, t) => Typed'
         /\ \A t : HandleManifest(t) \/ HandleComplete(t) => Typed'
         /\ \A t : HandleAccept(t) \/ HandleDownloadAck(t) => Typed'
<1>. USE ZeroInRange
<1>a. /\ page[p] \in PageType /\ "S" \in Page /\ "R" \in Page
      /\ page["S"] \in PageType /\ page["R"] \in PageType
  BY DEF Typed, Page
<1>d. UNCHANGED fileVars /\ page' \in [Page -> PageType] /\ net' \in NetType => Typed'
  BY DEF Typed, fileVars, asmVars, userVars
<1>1. ASSUME NEW frame \in FrameType, net[p] # <<>>, frame.type \in Control,
             ReceiveControl(p, frame)
      PROVE  Typed'
  <2>1. \A kind \in Kind : Start(page[p], Task(kind, frame)) \in PageType
    BY <1>1, <1>a, StartTaskType DEF Control
  <2>2. page' \in [Page -> PageType]
    BY <1>1, <1>a, <2>1, BecomeType DEF ReceiveControl, Kind
  <2>3. net' \in NetType
    BY <1>1, HeadType DEF ReceiveControl
  <2>. QED  BY <1>1, <1>d, <2>2, <2>3 DEF ReceiveControl
<1>2. ASSUME NEW t, SendEncrypted(p, t) PROVE Typed'
  <2> DEFINE me == End(page[p], t)
  <2>1. me \in PageType /\ t \in TaskType
    BY <1>2, PendingType DEF SendEncrypted
  <2>2. Failed(me) \in PageType
    BY <2>1, GoType DEF UIState
  <2>3. page' \in [Page -> PageType]
    BY <1>2, <2>1, <2>2, BecomeType DEF SendEncrypted
  <2>4. Sent(net, p, Signal(t.type, t.key)) \in NetType
    <3>1. t.type \in Control /\ t.type \in Type /\ t.key \in 0 .. Mixed
      BY <1>2, <2>1 DEF TaskType, SendEncrypted, Pending
    <3>2. Signal(t.type, t.key) \in FramesFor(Peer(p))
      BY <3>1, SignalType DEF Control
    <3>. QED  BY <3>2, SentType DEF Typed
  <2>. QED  BY <1>2, <1>d, <2>3, <2>4 DEF SendEncrypted, Typed
<1>3. ASSUME NEW t, DecryptFails(p, t) PROVE Typed'
  <2>1. Failed(End(page[p], t)) \in PageType
    BY <1>3, PendingType, GoType DEF DecryptFails, UIState
  <2>2. page' \in [Page -> PageType]
    BY <1>3, <2>1, BecomeType DEF DecryptFails
  <2>. QED  BY <1>3, <1>d, <2>2 DEF DecryptFails, Typed
<1>4. ASSUME NEW t, HandleCancel(p, t) PROVE Typed'
  <2>1. [End(page[p], t) EXCEPT !.ui = "CANCELLED"] \in PageType
    BY <1>4, PendingType DEF HandleCancel, PageType, UIState
  <2>2. cancelled' \in SUBSET Page
    BY <1>4 DEF HandleCancel, Typed
  <2>. QED  BY <1>4, <2>1, <2>2, ResetType DEF HandleCancel
<1>5. ASSUME NEW t, HandleManifest(t) PROVE Typed'
  <2> DEFINE me == [End(page["R"], t) EXCEPT !.approved = TRUE]
             now == Go(me, "TRANSFERRING")
  <2>1. me \in PageType
    <3>1. End(page["R"], t) \in PageType
      BY <1>5, <1>a, PendingType DEF HandleManifest
    <3>. QED  BY <3>1 DEF PageType
  <2>2. now \in PageType /\ Failed(me) \in PageType
    BY <2>1, GoType DEF UIState
  <2>3. [now EXCEPT !.view = "transfer"] \in PageType
    BY <2>2 DEF PageType
  <2>4. SendControl([now EXCEPT !.view = "transfer"], "send", "ACCEPT") \in PageType
    BY <2>3, SendControlType DEF Kind, Type, Control
  <2>5. page' \in [Page -> PageType]
    BY <1>5, <1>a, <2>2, <2>4, BecomeType DEF HandleManifest
  <2>6. me.keys \in 0 .. Mixed /\ NoChunks \in [Index -> Content]
    BY <2>1 DEF PageType, NoChunks, Content
  <2>7. asm' \in {asm, me.keys} /\ got' \in {got, NoChunks} /\ finalized' \in {finalized, FALSE}
    BY <1>5 DEF HandleManifest
  <2>. QED  BY <1>5, <2>5, <2>6, <2>7 DEF HandleManifest, Typed, userVars
<1>6. ASSUME NEW t, HandleComplete(t) PROVE Typed'
  <2>1. page' \in [Page -> PageType]
    BY <1>6, <1>a, PendingType, BecomeType DEF HandleComplete
  <2>. QED  BY <1>6, <1>d, <2>1 DEF HandleComplete, Typed
<1>7. ASSUME NEW t, HandleAccept(t) PROVE Typed'
  <2> DEFINE me == [End(page["S"], t) EXCEPT !.approved = TRUE]
             now == Go(me, "TRANSFERRING")
             shown == [now EXCEPT !.view = "transfer"]
  <2>1. me \in PageType
    <3>1. End(page["S"], t) \in PageType
      BY <1>7, <1>a, PendingType DEF HandleAccept
    <3>. QED  BY <3>1 DEF PageType
  <2>2. now \in PageType
    BY <2>1, GoType DEF UIState
  <2>3. shown \in PageType
    BY <2>2 DEF PageType
  <2>4. Stream(shown) \in PageType
    BY <2>3, StreamType DEF Typed
  <2>5. page' \in [Page -> PageType]
    BY <1>7, <1>a, <2>2, <2>3, <2>4, BecomeType DEF HandleAccept
  <2>. QED  BY <1>7, <1>d, <2>5 DEF HandleAccept, Typed
<1>8. ASSUME NEW t, HandleDownloadAck(t) PROVE Typed'
  <2> DEFINE now == Go(End(page["S"], t), "COMPLETED")
  <2>1. now \in PageType
    BY <1>8, <1>a, PendingType, GoType DEF HandleDownloadAck, UIState
  <2>2. [now EXCEPT !.view = "complete"] \in PageType
    BY <2>1 DEF PageType
  <2>3. page' \in [Page -> PageType]
    BY <1>8, <1>a, <2>1, <2>2, BecomeType DEF HandleDownloadAck
  <2>. QED  BY <1>8, <1>d, <2>3 DEF HandleDownloadAck, Typed
<1>. QED  BY <1>1, <1>2, <1>3, <1>4, <1>5, <1>6, <1>7, <1>8, HeadType

\* The streaming loop.
LEMMA StreamingType ==
  ASSUME Typed, NEW t
  PROVE  StreamStep(t) \/ SendChunk(t) \/ ReadFails(t) => Typed'
<1>. USE ZeroInRange
<1>a. "S" \in Page
  BY DEF Page
<1>1. CASE StreamStep(t)
  <2>1. Stream(End(page["S"], t)) \in PageType
    BY <1>1, <1>a, PendingType, StreamType DEF StreamStep, Typed
  <2>2. page' \in [Page -> PageType]
    BY <1>1, <1>a, <2>1, BecomeType DEF StreamStep
  <2>. QED  BY <1>1, <2>2 DEF StreamStep, Typed, fileVars, asmVars, userVars
<1>2. CASE SendChunk(t)
  <2> DEFINE me == End(page["S"], t)
  <2>1. me \in PageType /\ t \in TaskType
    BY <1>2, <1>a, PendingType DEF SendChunk
  <2>2. Start(me, Task("loop", Signal("", 0))) \in PageType /\ Failed(me) \in PageType
    BY <2>1, SignalType, StartTaskType, GoType DEF Kind, Type, UIState, Signal, Frame
  <2>3. page' \in [Page -> PageType]
    BY <1>2, <1>a, <2>2, BecomeType DEF SendChunk
  <2>4. \A content \in Content : Sent(net, "S", Frame("CHUNK", t.index, content, t.key)) \in NetType
    <3>1. \A content \in Content : Frame("CHUNK", t.index, content, t.key) \in FramesFor("R")
      BY <2>1 DEF TaskType, Frame, FrameType, Type, FramesFor
    <3>. QED  BY <1>a, <3>1, SentType DEF Typed, Peer
  <2>5. net' \in NetType
    BY <1>2, <2>4 DEF SendChunk, Content, Typed
  <2>6. chunker' \in {chunker, [chunker EXCEPT !.next = @ + 1]}
    BY <1>2 DEF SendChunk
  <2>7. chunker' \in ChunkerType
    BY <2>6 DEF ChunkerType, Typed
  <2>. QED  BY <1>2, <2>3, <2>5, <2>7 DEF SendChunk, Typed, asmVars, userVars
<1>3. CASE ReadFails(t)
  <2>1. Failed(End(page["S"], t)) \in PageType
    BY <1>3, <1>a, PendingType, GoType DEF ReadFails, UIState
  <2>2. page' \in [Page -> PageType]
    BY <1>3, <1>a, <2>1, BecomeType DEF ReadFails
  <2>. QED  BY <1>3, <2>2 DEF ReadFails, Typed, fileVars, asmVars, userVars
<1>. QED  BY <1>1, <1>2, <1>3

\* Chunks and finalization.
LEMMA ReceivingType ==
  ASSUME Typed, NEW t
  PROVE  StoreChunk(t) \/ Verify(t) \/ SaveFile(t) \/ FinishFinalization(t) => Typed'
<1>. USE ZeroInRange
<1>a. "R" \in Page
  BY DEF Page
<1>b. ASSUME NEW me \in PageType, FinalizeFails(me)
      PROVE  page' \in [Page -> PageType] /\ finalizing' \in BOOLEAN
  <2>1. SendControl(Failed(me), "finish", "CANCEL") \in PageType
    BY GoType, SendControlType DEF UIState, Kind, Type, Control
  <2>. QED  BY <1>a, <1>b, <2>1, BecomeType DEF FinalizeFails
<1>1. CASE StoreChunk(t)
  <2> DEFINE me == End(page["R"], t)
             all == IF t.key = asm THEN [got EXCEPT ![t.index] = t.content] ELSE got
             last == Whole(all) # "missing" /\ ~finalizing
  <2>1. me \in PageType /\ t \in TaskType
    BY <1>1, <1>a, PendingType DEF StoreChunk
  <2>2. all \in [Index -> Content]
    BY <2>1 DEF Typed, TaskType
  <2>3. Frame("", 0, Whole(all), asm) \in FrameType
    BY WholeType DEF Frame, FrameType, Type, Typed
  <2>4. Go(me, "VERIFYING") \in PageType /\ Failed(me) \in PageType
    BY <2>1, GoType DEF UIState
  <2>5. Start(Go(me, "VERIFYING"), Task("verify", Frame("", 0, Whole(all), asm))) \in PageType
    BY <2>3, <2>4, StartTaskType DEF Kind, Frame
  <2>6. page' \in [Page -> PageType]
    BY <1>1, <1>a, <2>1, <2>4, <2>5, BecomeType DEF StoreChunk
  <2>7. got' \in [Index -> Content]
    BY <1>1, <2>2 DEF StoreChunk, Typed
  <2>8. finalizing' \in BOOLEAN
    BY <1>1 DEF StoreChunk, Typed
  <2>. QED  BY <1>1, <2>6, <2>7, <2>8 DEF StoreChunk, Typed, userVars
<1>2. CASE Verify(t)
  <2> DEFINE me == End(page["R"], t)
  <2>1. me \in PageType /\ t \in TaskType
    BY <1>2, <1>a, PendingType DEF Verify
  <2>2. Frame("", 0, t.content, t.key) \in FrameType
    BY <2>1 DEF Frame, FrameType, Type, TaskType
  <2>3. Start(me, Task("save", Frame("", 0, t.content, t.key))) \in PageType
    BY <2>1, <2>2, StartTaskType DEF Kind, Frame
  <2>4. page' \in [Page -> PageType] /\ finalizing' \in BOOLEAN
    BY <1>2, <1>a, <1>b, <2>1, <2>3, BecomeType DEF Verify, Typed
  <2>5. finalized' \in BOOLEAN
    BY <1>2 DEF Verify, Typed
  <2>. QED  BY <1>2, <2>4, <2>5 DEF Verify, Typed, userVars
<1>3. CASE SaveFile(t)
  <2> DEFINE me == [End(page["R"], t) EXCEPT !.view = "complete"]
             now == SendControl(me, "finish", "DOWNLOAD_ACK")
  <2>1. End(page["R"], t) \in PageType /\ t \in TaskType
    BY <1>3, <1>a, PendingType DEF SaveFile
  <2>2. me \in PageType
    BY <2>1 DEF PageType
  <2>3. now \in PageType
    BY <2>2, SendControlType DEF Kind, Type, Control
  <2>4. page' \in [Page -> PageType] /\ finalizing' \in BOOLEAN
    BY <1>3, <1>a, <1>b, <2>1, <2>3, BecomeType DEF SaveFile
  <2>5. saved' \in {saved, t.content} /\ t.content \in Content
    BY <1>3, <2>1 DEF SaveFile, TaskType
  <2>. QED  BY <1>3, <2>4, <2>5 DEF SaveFile, Typed
<1>4. CASE FinishFinalization(t)
  <2>1. End(page["R"], t) \in PageType /\ t \in TaskType /\ t.kind = "finish"
    BY <1>4, <1>a, PendingType DEF FinishFinalization
  <2>2. page' \in [Page -> PageType]
    BY <1>4, <1>a, <2>1, BecomeType DEF FinishFinalization
  <2>3. t.type \in Control /\ t.type \in Type /\ t.key \in 0 .. Mixed
    BY <2>1 DEF TaskType
  <2>4. Signal(t.type, t.key) \in FramesFor(Peer("R"))
    BY <2>3, SignalType DEF Control
  <2>5. net' \in NetType
    BY <1>4, <1>a, <2>4, SentType DEF FinishFinalization, Typed
  <2>. QED  BY <1>4, <2>2, <2>5 DEF FinishFinalization, Typed, userVars
<1>. QED  BY <1>1, <1>2, <1>3, <1>4

\* Receiving a chunk.
LEMMA ReceiveChunkType ==
  ASSUME Typed, net["R"] # <<>>, Head(net["R"]).type = "CHUNK", ReceiveChunk(Head(net["R"]))
  PROVE  Typed'
<1> DEFINE frame == Head(net["R"])
<1>1. "R" \in Page /\ page["R"] \in PageType
  BY DEF Typed, Page
<1>2. frame \in FrameType /\ net' \in NetType
  BY <1>1, HeadType DEF ReceiveChunk
<1>3. \A kind \in {"chunk", "garbled"} : Start(page["R"], Task(kind, frame)) \in PageType
  BY <1>1, <1>2, StartTaskType DEF Kind
<1>4. page' \in [Page -> PageType]
  BY <1>1, <1>3, BecomeType DEF ReceiveChunk, Kind
<1>. QED  BY <1>2, <1>4 DEF ReceiveChunk, Typed, fileVars, asmVars, userVars

\* The user, and the reconnect.
LEMMA UserType ==
  ASSUME Typed, NEW p \in Page
  PROVE  /\ PressCancel(p) \/ PressStartNew(p) => Typed'
         /\ \A t : FinishCancel(p, t) => Typed'
         /\ SignalingCloses \/ Reconnect => Typed'
         /\ net["S"] # <<>> /\ PeerLeft => Typed'
         /\ \A t : NewTransport(t) => Typed'
<1>. USE ZeroInRange
<1>a. /\ page[p] \in PageType /\ "S" \in Page /\ "R" \in Page
      /\ page["S"] \in PageType /\ page["R"] \in PageType
  BY DEF Typed, Page
<1>1. ASSUME PressCancel(p) PROVE Typed'
  <2> DEFINE me == [page[p] EXCEPT !.isCancelled = TRUE]
             now == SendControl(me, "cancel", "CANCEL")
  <2>1. me \in PageType /\ [me EXCEPT !.ui = "CANCELLED"] \in PageType
    BY <1>a DEF PageType, UIState
  <2>2. now \in PageType
    BY <2>1, SendControlType DEF Kind, Type, Control
  <2>3. cancelled' \in SUBSET Page
    BY <1>1 DEF PressCancel, Typed
  <2>4. CASE me.keys # 0 /\ me.conn # "none"
    <3>1. page' \in [Page -> PageType]
      BY <1>1, <2>2, <2>4, BecomeType DEF PressCancel
    <3>. QED  BY <1>1, <2>3, <2>4, <3>1 DEF PressCancel, Typed, asmVars
  <2>5. CASE ~(me.keys # 0 /\ me.conn # "none")
    BY <1>1, <2>1, <2>3, <2>5, ResetType DEF PressCancel
  <2>. QED  BY <2>4, <2>5
<1>2. ASSUME PressStartNew(p) PROVE Typed'
  BY <1>2, <1>a, ResetType DEF PressStartNew, Typed
<1>3. ASSUME NEW t, FinishCancel(p, t) PROVE Typed'
  <2> DEFINE me == End(page[p], t)
  <2>1. me \in PageType /\ t \in TaskType
    BY <1>3, PendingType DEF FinishCancel
  <2>2. [me EXCEPT !.ui = "CANCELLED"] \in PageType
    BY <2>1 DEF PageType, UIState
  <2>3. page' \in [Page -> PageType]
    BY <1>3, <2>1, <2>2, BecomeType, ResetPageType DEF FinishCancel
  <2>4. t.key \in 0 .. Mixed
    BY <2>1 DEF TaskType
  <2>5. Sent(net, p, Signal("CANCEL", t.key)) \in NetType
    BY <2>4, SignalType, SentType DEF Typed, Type, Control
  <2>6. net' \in NetType
    BY <1>3, <2>5, ClosedType DEF FinishCancel, Typed
  <2>7. ForgetTransfer(p) \/ UNCHANGED <<chunker, asmVars>>
          => /\ chunker' \in ChunkerType /\ asm' \in 0 .. Mixed
             /\ got' \in [Index -> Content]
             /\ finalized' \in BOOLEAN /\ finalizing' \in BOOLEAN
    BY ForgetType DEF Typed, asmVars
  <2>. QED  BY <1>3, <2>3, <2>6, <2>7 DEF FinishCancel, Typed, userVars
<1>4. ASSUME SignalingCloses PROVE Typed'
  <2> DEFINE me == IF relay THEN [page["R"] EXCEPT !.conn = "broken"] ELSE page["R"]
  <2>1. me \in PageType
    BY <1>a DEF PageType
  <2>2. page' \in [Page -> PageType]
    BY <1>4, <1>a, <2>1, BecomeType DEF SignalingCloses
  <2>3. Signal("PEER_LEFT", 0) \in FrameType /\ Signal("PEER_LEFT", 0) \in FramesFor("S")
    BY SignalType DEF Type, FramesFor, Signal, Frame
  <2>4. ASSUME NEW queues \in Closed(net, "R")
        PROVE  [queues EXCEPT !["S"] = Append(@, Signal("PEER_LEFT", 0))] \in NetType
    <3>1. queues \in NetType
      BY <1>a, ClosedType DEF Typed
    <3>2. Append(queues["S"], Signal("PEER_LEFT", 0)) \in Seq(FrameType) \cap Seq(FramesFor("S"))
      BY <1>a, <2>3, <3>1 DEF NetType
    <3>. QED  BY <1>a, <3>1, <3>2 DEF NetType
  <2>5. net' \in NetType
    BY <1>4, <2>4 DEF SignalingCloses, Typed
  <2>6. timer' \in BOOLEAN
    BY <1>4 DEF SignalingCloses
  <2>. QED  BY <1>4, <2>2, <2>5, <2>6 DEF SignalingCloses, Typed, asmVars
<1>5. ASSUME Reconnect PROVE Typed'
  <2> DEFINE me == [page["R"] EXCEPT !.conn = "none", !.keys = 0, !.sentHandshake = FALSE,
                                     !.isCancelled = FALSE]
  <2>1. me \in PageType
    BY <1>a DEF PageType
  <2>2. Start(me, Task("connect", Signal("", 0))) \in PageType
    BY <2>1, SignalType, StartTaskType DEF Kind, Type, Signal, Frame
  <2>3. page' \in [Page -> PageType]
    BY <1>5, <1>a, <2>2, BecomeType DEF Reconnect, Typed
  <2>4. net' \in NetType
    BY <1>5, <1>a, ClosedType DEF Reconnect, Typed
  <2>5. NoChunks \in [Index -> Content]
    BY DEF NoChunks, Content
  <2>6. asm' \in {asm, 0} /\ got' \in {got, NoChunks} /\ finalized' \in {finalized, FALSE}
    BY <1>5 DEF Reconnect, DropReassembler
  <2>. QED  BY <1>5, <2>3, <2>4, <2>5, <2>6 DEF Reconnect, Typed
<1>6. ASSUME net["S"] # <<>>, PeerLeft PROVE Typed'
  <2>1. [page["S"] EXCEPT !.conn = "broken"] \in PageType
    BY <1>a DEF PageType
  <2>2. page' \in [Page -> PageType]
    BY <1>6, <1>a, <2>1, BecomeType DEF PeerLeft
  <2>3. net' \in NetType
    BY <1>6, <1>a, HeadType DEF PeerLeft
  <2>. QED  BY <1>6, <2>2, <2>3 DEF PeerLeft, Typed, fileVars, asmVars, userVars
<1>7. ASSUME NEW t, NewTransport(t) PROVE Typed'
  <2>1. End(page["R"], t) \in PageType
    BY <1>7, <1>a, PendingType DEF NewTransport
  <2>2. [End(page["R"], t) EXCEPT !.conn = "connecting"] \in PageType
    BY <2>1 DEF PageType
  <2>3. page' \in [Page -> PageType]
    BY <1>7, <1>a, <2>2, BecomeType DEF NewTransport
  <2>. QED  BY <1>7, <2>3 DEF NewTransport, Typed, asmVars
<1>. QED  BY <1>1, <1>2, <1>3, <1>4, <1>5, <1>6, <1>7

\* The steps of the two pages, one by one: Next, of whose guards only
\* those are kept that the proofs below need.
LEMMA StepCases ==
  ASSUME Typed, Next
  PROVE  \/ \E p \in Page :
              \/ Open(p) \/ PressCancel(p) \/ PressStartNew(p)
              \/ /\ net[p] # <<>> /\ page[p].conn # "none"
                 /\ \/ ReceiveHandshake(p, Head(net[p])) /\ Head(net[p]).type = "HANDSHAKE"
                    \/ ReceiveControl(p, Head(net[p])) /\ Head(net[p]).type \in Control
              \/ \E t : \/ DeriveKeys(p, t) \/ SendEncrypted(p, t) \/ DecryptFails(p, t)
                       \/ HandleCancel(p, t) \/ FinishCancel(p, t)
         \/ net["R"] # <<>> /\ Head(net["R"]).type = "CHUNK" /\ ReceiveChunk(Head(net["R"]))
         \/ net["S"] # <<>> /\ page["S"].conn # "none" /\ PeerLeft
         \/ \E t : \/ MakeChunker(t) \/ SendManifest(t) \/ HandleManifest(t) \/ HandleAccept(t)
                  \/ HandleComplete(t) \/ HandleDownloadAck(t) \/ StreamStep(t) \/ SendChunk(t)
                  \/ ReadFails(t) \/ StoreChunk(t) \/ Verify(t) \/ SaveFile(t)
                  \/ FinishFinalization(t) \/ NewTransport(t)
         \/ SignalingCloses \/ Reconnect
<1>1. ASSUME NEW p \in Page, net[p] # <<>>
      PROVE  /\ Head(net[p]).type = "CHUNK" => p = "R"
             /\ Head(net[p]).type = "PEER_LEFT" => p = "S"
  BY <1>1, HeadType DEF FramesFor, Page
<1>. QED  BY <1>1 DEF Next, Progress, Deliver

\* Every step keeps the types.
LEMMA TypedStep ==
  ASSUME Typed, Renewing, [Next]_vars
  PROVE  Typed'
<1>1. ASSUME NEW p \in Page,
             \/ Open(p) \/ PressCancel(p) \/ PressStartNew(p)
             \/ /\ net[p] # <<>>
                /\ \/ ReceiveHandshake(p, Head(net[p])) /\ Head(net[p]).type = "HANDSHAKE"
                   \/ ReceiveControl(p, Head(net[p])) /\ Head(net[p]).type \in Control
      PROVE  Typed'
  BY <1>1, ConnectingType, ControlType, UserType
<1>2. ASSUME NEW p \in Page, NEW t,
             \/ DeriveKeys(p, t) \/ SendEncrypted(p, t) \/ DecryptFails(p, t)
             \/ HandleCancel(p, t) \/ FinishCancel(p, t)
      PROVE  Typed'
  BY <1>2, ConnectingType, ControlType, UserType
<1>3. ASSUME NEW t, \/ MakeChunker(t) \/ SendManifest(t) \/ HandleManifest(t) \/ HandleAccept(t)
                    \/ HandleComplete(t) \/ HandleDownloadAck(t) \/ NewTransport(t)
      PROVE  Typed'
  BY <1>3, ConnectingType, ControlType, UserType DEF Page
<1>4. ASSUME NEW t, \/ StreamStep(t) \/ SendChunk(t) \/ ReadFails(t)
                    \/ StoreChunk(t) \/ Verify(t) \/ SaveFile(t) \/ FinishFinalization(t)
      PROVE  Typed'
  BY <1>4, StreamingType, ReceivingType
<1>5. CASE \/ net["R"] # <<>> /\ Head(net["R"]).type = "CHUNK" /\ ReceiveChunk(Head(net["R"]))
           \/ net["S"] # <<>> /\ PeerLeft
           \/ SignalingCloses \/ Reconnect
  BY <1>5, ReceiveChunkType, UserType DEF Page
<1>6. CASE UNCHANGED vars
  BY <1>6 DEF vars, fileVars, asmVars, userVars, Typed
<1>. QED  BY <1>1, <1>2, <1>3, <1>4, <1>5, <1>6, StepCases
------------------------------------------------------------------------------
(* What a step adds: the tasks a page starts, the frames that get into a queue. *)

Frames(queue) == {queue[i] : i \in DOMAIN queue}
Started(p) == page'[p].tasks \ page[p].tasks
Arriving(q) == Frames(net'[q]) \ Frames(net[q])

Streaming(t) == t.kind \in {"loop", "read"}
Accepting(t) == t.kind = "control" /\ t.type = "ACCEPT"

\* Why page p starts a task t.
NewTask(p, t) ==
  \/ t.kind \in {"derive", "package", "hash", "verify"} /\ t.type \in {"HANDSHAKE", ""}
  \/ /\ t.kind \in {"control", "garbled", "chunk"}
     /\ \E frame \in Frames(net[p]) : frame.type = t.type
  \/ p = "S" /\ t.kind = "send" /\ t.type \in {"MANIFEST", "COMPLETE"}
  \/ /\ p = "S" /\ Streaming(t) /\ t.type \in {"CHUNK", ""}
     /\ \E u \in page["S"].tasks : Streaming(u) \/ Accepting(u)
  \/ p = "R" /\ t.kind = "send" /\ t.type = "ACCEPT" /\ page'["R"].approved
  \/ p = "R" /\ t.kind = "save" /\ t.type = "" /\ t.content = "intact"
  \/ /\ p = "R" /\ t.kind = "finish" /\ t.type = "DOWNLOAD_ACK"
     /\ \E u \in Pending("R", "save") : saved' = u.content
  \/ t.kind \in {"finish", "cancel"} /\ t.type = "CANCEL"
  \/ /\ p = "R" /\ t = Task("connect", Signal("", 0))
     /\ timer /\ ~timer' /\ page'["R"].conn = "none"

\* Why a frame gets into the queue of page q.
NewFrame(q, frame) ==
  \/ frame.type \in {"HANDSHAKE", "CANCEL", "PEER_LEFT"}
  \/ \E t \in page[Peer(q)].tasks : t.kind \in {"send", "finish"} /\ frame.type = t.type
  \/ /\ q = "R" /\ frame.type = "CHUNK" /\ page["R"].conn # "none"
     /\ \E t \in page["S"].tasks : Streaming(t)

StepAdds ==
  /\ \A q \in Page : \A t \in Started(q) : NewTask(q, t)
  /\ \A q \in Page : \A frame \in Arriving(q) : NewFrame(q, frame)

\* What no operator of the model changes but where it says so.
Alike(me, now) == now.view = me.view /\ now.conn = me.conn /\ now.approved = me.approved

\* The operators on pages start the task they name and no other.
LEMMA Effects ==
  ASSUME NEW me \in PageType, NEW task
  PROVE  /\ Failed(me).tasks = me.tasks /\ Alike(me, Failed(me))
         /\ \A state : Go(me, state).tasks = me.tasks /\ Alike(me, Go(me, state))
         /\ ResetPage(me).tasks = me.tasks
         /\ ResetPage(me).view = "pairing" /\ ResetPage(me).conn = "none"
         /\ Start(me, task).tasks = me.tasks \cup {task} /\ Alike(me, Start(me, task))
         /\ End(me, task).tasks = me.tasks \ {task} /\ Alike(me, End(me, task))
  BY DEF Failed, Go, ResetPage, Start, End, Alike, PageType

\* SendControl starts the sending of its message, if anything ...
LEMMA SendControlEffect ==
  ASSUME NEW me \in PageType, NEW kind, NEW action
  PROVE  /\ SendControl(me, kind, action).tasks
               \subseteq me.tasks \cup {Task(kind, Signal(action, me.keys))}
         /\ Alike(me, SendControl(me, kind, action))
  BY DEF SendControl, Start, Alike, PageType

\* ... and the streaming loop reads a chunk or sends COMPLETE.
LEMMA StreamEffect ==
  ASSUME NEW me \in PageType
  PROVE  /\ Stream(me).tasks \subseteq me.tasks \cup
               {Task("read", Frame("CHUNK", chunker.next, "intact", chunker.key)),
                Task("send", Signal("COMPLETE", me.keys))}
         /\ Alike(me, Stream(me))
  BY SendControlEffect, Effects DEF Stream, Alike

\* Sending adds at most the frame that is sent; receiving and closing add none.
LEMMA QueueEffects ==
  ASSUME NEW queues \in NetType, NEW p \in Page, NEW q \in Page
  PROVE  /\ \A frame : Frames(Sent(queues, p, frame)[q])
                          \subseteq Frames(queues[q]) \cup (IF q = Peer(p) THEN {frame} ELSE {})
         /\ \A after \in Closed(queues, p) : Frames(after[q]) \subseteq Frames(queues[q])
         /\ queues[p] # <<>> =>
              /\ Head(queues[p]) \in Frames(queues[p])
              /\ Frames([queues EXCEPT ![p] = Tail(@)][q]) \subseteq Frames(queues[q])
<1>0. queues \in [Page -> Seq(FrameType)] /\ Peer(p) \in Page
  BY DEF NetType, Peer, Page
<1>1. ASSUME NEW frame PROVE Frames(Sent(queues, p, frame)[q])
                          \subseteq Frames(queues[q]) \cup (IF q = Peer(p) THEN {frame} ELSE {})
  BY <1>0 DEF Sent, Frames
<1>2. ASSUME NEW after \in Closed(queues, p) PROVE Frames(after[q]) \subseteq Frames(queues[q])
  <2> DEFINE F == Frames(queues[q])
  <2>1. queues[q] \in Seq(F)
    BY <1>0 DEF Frames
  <2>2. after[q] \in Seq(F)
    BY <2>1, ClosedKeeps
  <2>. QED  BY <2>2 DEF Frames
<1>3. ASSUME queues[p] # <<>>
      PROVE  /\ Head(queues[p]) \in Frames(queues[p])
             /\ Frames([queues EXCEPT ![p] = Tail(@)][q]) \subseteq Frames(queues[q])
  BY <1>0, <1>3 DEF Frames
<1>. QED  BY <1>1, <1>2, <1>3

\* What is shown of a step of page p to know what it adds.
LEMMA AddsOnly ==
  ASSUME NEW p \in Page, \A q \in Page \ {p} : page'[q] = page[q],
         \A t \in page'[p].tasks : t \in page[p].tasks \/ NewTask(p, t),
         \A q \in Page : \A frame \in Frames(net'[q]) :
           frame \in Frames(net[q]) \/ NewFrame(q, frame)
  PROVE  StepAdds
  BY DEF StepAdds, Started, Arriving

\* A handler replaces its own page only.
LEMMA BecomeIs ==
  ASSUME Typed, NEW p \in Page, NEW me, Become(p, me)
  PROVE  page'[p] = me /\ \A q \in Page \ {p} : page'[q] = page[q]
  BY DEF Become, Typed

\* Opening, handshakes and key derivation: handshakes and derivations are added.
LEMMA ConnectingAdds ==
  ASSUME Typed, NEW p \in Page
  PROVE  /\ Open(p) => StepAdds
         /\ net[p] # <<>> /\ ReceiveHandshake(p, Head(net[p])) => StepAdds
         /\ \A t : DeriveKeys(p, t) \/ MakeChunker(t) \/ SendManifest(t) => StepAdds
<1>a. page[p] \in PageType /\ net \in NetType /\ "S" \in Page /\ page["S"] \in PageType
  BY DEF Typed, Page
<1>b. \A q \in Page : NewFrame(q, Handshake)
  BY DEF NewFrame, Handshake, Signal, Frame
<1>1. ASSUME Open(p) PROVE StepAdds
  <2> DEFINE me == [page[p] EXCEPT !.conn = "open"]
  <2>0. /\ page'[p] \in {me, [me EXCEPT !.ui = "CONNECTED", !.sentHandshake = TRUE]}
        /\ \A q \in Page \ {p} : page'[q] = page[q]
    BY <1>1, BecomeIs DEF Open
  <2>1. page'[p].tasks = page[p].tasks
    BY <1>a, <2>0 DEF PageType
  <2>2. \A q \in Page : Frames(net'[q]) \subseteq Frames(net[q]) \cup {Handshake}
    BY <1>1, <1>a, QueueEffects DEF Open
  <2>. QED  BY <1>b, <2>0, <2>1, <2>2, AddsOnly
<1>2. ASSUME net[p] # <<>>, ReceiveHandshake(p, Head(net[p])) PROVE StepAdds
  <2> DEFINE key == IF p = "S" THEN Head(net[p]).key ELSE epoch
             task == Task("derive", Signal("HANDSHAKE", key))
             rest == [net EXCEPT ![p] = Tail(@)]
  <2>1. NewTask(p, task)
    BY DEF NewTask, Task, Signal, Frame
  <2> DEFINE me == [page[p] EXCEPT !.peerKey = key, !.sentHandshake = TRUE]
  <2>0. /\ page'[p] \in {Start(me, task), Failed(me)}
        /\ \A q \in Page \ {p} : page'[q] = page[q]
    BY <1>2, BecomeIs DEF ReceiveHandshake
  <2>2. page'[p].tasks \subseteq page[p].tasks \cup {task}
    <3>1. Start(me, task).tasks = page[p].tasks \cup {task}
      <4>. HIDE DEF task, key
      <4>. QED  BY <1>a DEF Start, PageType
    <3>2. Failed(me).tasks = page[p].tasks
      <4>. HIDE DEF key
      <4>. QED  BY <1>a DEF Failed, PageType
    <3>. HIDE DEF me, task
    <3>. QED  BY <2>0, <3>1, <3>2
  <2>3. rest \in NetType
    BY <1>2, HeadType
  <2>4. \A q \in Page : Frames(net'[q]) \subseteq Frames(net[q]) \cup {Handshake}
    BY <1>2, <1>a, <2>3, QueueEffects DEF ReceiveHandshake
  <2>. QED  BY <1>b, <2>0, <2>1, <2>2, <2>4, AddsOnly
<1>3. ASSUME NEW t, DeriveKeys(p, t) PROVE StepAdds
  <2> DEFINE task == Task("package", Signal("", 0))
  <2>1. NewTask(p, task)
    BY DEF NewTask, Task, Signal, Frame
  <2> DEFINE me == End(page[p], t)
  <2>0. /\ \/ \E key : page'[p] \in {[me EXCEPT !.keys = key], Start([me EXCEPT !.keys = key], task)}
           \/ page'[p] = Failed(me)
        /\ \A q \in Page \ {p} : page'[q] = page[q]
    BY <1>3, BecomeIs DEF DeriveKeys
  <2>3. t \in Pending(p, "derive")
    BY <1>3 DEF DeriveKeys
  <2>4. me \in PageType /\ me.tasks \subseteq page[p].tasks
    BY <1>a, <2>3, PendingType, Effects
  <2>2. page'[p].tasks \subseteq page[p].tasks \cup {task}
    <3>. HIDE DEF me, task
    <3>1. \A key : /\ [me EXCEPT !.keys = key].tasks = me.tasks
                   /\ Start([me EXCEPT !.keys = key], task).tasks = me.tasks \cup {task}
      BY <2>4 DEF Start, PageType
    <3>2. Failed(me).tasks = me.tasks
      BY <2>4, Effects
    <3>. QED  BY <2>0, <2>4, <3>1, <3>2
  <2>. QED  BY <1>3, <2>0, <2>1, <2>2, AddsOnly DEF DeriveKeys
<1>4. ASSUME NEW t, MakeChunker(t) PROVE StepAdds
  <2> DEFINE task == Task("hash", Signal("", 0))
  <2>1. NewTask("S", task)
    BY DEF NewTask, Task, Signal, Frame
  <2> DEFINE me == End(page["S"], t)
  <2>0. /\ page'["S"] \in {Failed(me), Start(me, task)}
        /\ \A q \in Page \ {"S"} : page'[q] = page[q]
    BY <1>4, <1>a, BecomeIs DEF MakeChunker
  <2>3. t \in Pending("S", "package")
    BY <1>4 DEF MakeChunker
  <2>4. me \in PageType /\ me.tasks \subseteq page["S"].tasks
    BY <1>a, <2>3, PendingType, Effects
  <2>2. page'["S"].tasks \subseteq page["S"].tasks \cup {task}
    <3>. HIDE DEF me, task
    <3>. QED  BY <2>0, <2>4, Effects
  <2>. QED  BY <1>4, <1>a, <2>0, <2>1, <2>2, AddsOnly DEF MakeChunker
<1>5. ASSUME NEW t, SendManifest(t) PROVE StepAdds
  <2> DEFINE old == End(page["S"], t)
             task == Task("send", Signal("MANIFEST", old.keys))
  <2>1. NewTask("S", task)
    BY DEF NewTask, Task, Signal, Frame
  <2>2. old \in PageType /\ old.tasks \subseteq page["S"].tasks
    BY <1>5, <1>a, PendingType, Effects DEF SendManifest
  <2>3. SendControl(old, "send", "MANIFEST").tasks \subseteq page["S"].tasks \cup {task}
    BY <2>2, SendControlEffect
  <2>4. /\ page'["S"].tasks \subseteq page["S"].tasks \cup {task}
        /\ \A q \in Page \ {"S"} : page'[q] = page[q]
    BY <1>5, <1>a, <2>3, BecomeIs DEF SendManifest
  <2>. QED  BY <1>5, <1>a, <2>1, <2>4, AddsOnly DEF SendManifest
<1>. QED  BY <1>1, <1>2, <1>3, <1>4, <1>5

\* A task that has been resumed is gone, and nothing else of its page has changed.
LEMMA ResumedEffect ==
  ASSUME Typed, NEW p \in Page, NEW kind, NEW t \in Pending(p, kind)
  PROVE  /\ End(page[p], t) \in PageType /\ Alike(page[p], End(page[p], t))
         /\ End(page[p], t).tasks = page[p].tasks \ {t}
  BY PendingType, Effects

\* Resetting a page adds nothing.
LEMMA ResetAdds ==
  ASSUME Typed, NEW p \in Page, NEW me \in PageType, me.tasks \subseteq page[p].tasks, Reset(p, me)
  PROVE  StepAdds
<1>1. page'[p] = ResetPage(me) /\ \A q \in Page \ {p} : page'[q] = page[q]
  BY BecomeIs DEF Reset
<1>2. page'[p].tasks \subseteq page[p].tasks
  BY <1>1, Effects
<1>3. net \in NetType /\ net' \in Closed(net, p)
  BY DEF Reset, Typed
<1>4. \A q \in Page : Frames(net'[q]) \subseteq Frames(net[q])
  BY <1>3, QueueEffects
<1>. QED  BY <1>1, <1>2, <1>4, AddsOnly

\* Control messages.
LEMMA ControlAdds ==
  ASSUME Typed, NEW p \in Page
  PROVE  /\ net[p] # <<>> /\ ReceiveControl(p, Head(net[p])) => StepAdds
         /\ \A t : \/ SendEncrypted(p, t) \/ DecryptFails(p, t) \/ HandleManifest(t)
                  \/ HandleAccept(t) \/ HandleComplete(t) \/ HandleDownloadAck(t)
                  \/ HandleCancel(p, t) => StepAdds
<1>a. /\ page[p] \in PageType /\ net \in NetType /\ "S" \in Page /\ "R" \in Page
      /\ page["S"] \in PageType /\ page["R"] \in PageType
  BY DEF Typed, Page
<1>1. ASSUME net[p] # <<>>, ReceiveControl(p, Head(net[p])) PROVE StepAdds
  <2> DEFINE kinds == {"control", "garbled"}
             frame == Head(net[p])
  <2>1. \A kind \in kinds : NewTask(p, Task(kind, frame))
    BY <1>1, <1>a, QueueEffects DEF NewTask, Task
  <2>2. /\ page'[p] = page[p] \/ \E kind \in kinds : page'[p] = Start(page[p], Task(kind, frame))
        /\ \A q \in Page \ {p} : page'[q] = page[q]
    BY <1>1, BecomeIs DEF ReceiveControl
  <2>3. \A t \in page'[p].tasks : t \in page[p].tasks \/ NewTask(p, t)
    BY <1>a, <2>1, <2>2, Effects
  <2>4. \A q \in Page : Frames(net'[q]) \subseteq Frames(net[q])
    BY <1>1, <1>a, QueueEffects DEF ReceiveControl
  <2>. QED  BY <2>2, <2>3, <2>4, AddsOnly
<1>2. ASSUME NEW t, SendEncrypted(p, t) PROVE StepAdds
  <2> DEFINE me == End(page[p], t)
             frame == Signal(t.type, t.key)
  <2>1. t \in Pending(p, "send")
    BY <1>2 DEF SendEncrypted
  <2>2. /\ page'[p] \in {me, Failed(me)}
        /\ \A q \in Page \ {p} : page'[q] = page[q]
    BY <1>2, BecomeIs DEF SendEncrypted
  <2>3. page'[p].tasks \subseteq page[p].tasks
    BY <2>1, <2>2, ResumedEffect, Effects
  <2>4. t \in page[p].tasks /\ t.kind = "send" /\ frame.type = t.type
    BY <2>1, PendingType DEF Signal, Frame
  <2>5. \A q \in Page : Frames(net'[q]) \subseteq Frames(net[q]) \cup
                              (IF q = Peer(p) THEN {frame} ELSE {})
    BY <1>2, <1>a, QueueEffects DEF SendEncrypted
  <2>6. NewFrame(Peer(p), frame)
    BY <2>4 DEF NewFrame, Peer, Page
  <2>. QED  BY <2>2, <2>3, <2>5, <2>6, AddsOnly
<1>3. ASSUME NEW t, DecryptFails(p, t) PROVE StepAdds
  <2>1. t \in Pending(p, "garbled")
    BY <1>3 DEF DecryptFails
  <2>2. /\ page'[p] = Failed(End(page[p], t))
        /\ \A q \in Page \ {p} : page'[q] = page[q]
    BY <1>3, BecomeIs DEF DecryptFails
  <2>3. page'[p].tasks \subseteq page[p].tasks
    BY <2>1, <2>2, ResumedEffect, Effects
  <2>. QED  BY <1>3, <2>2, <2>3, AddsOnly DEF DecryptFails
<1>4. ASSUME NEW t, HandleManifest(t) PROVE StepAdds
  <2> DEFINE old == End(page["R"], t)
             me == [old EXCEPT !.approved = TRUE]
             now == Go(me, "TRANSFERRING")
             shown == [now EXCEPT !.view = "transfer"]
             after == SendControl(shown, "send", "ACCEPT")
             task == Task("send", Signal("ACCEPT", shown.keys))
  <2>1. t \in Pending("R", "control")
    BY <1>4 DEF HandleManifest
  <2>2. old \in PageType /\ old.tasks \subseteq page["R"].tasks
    BY <1>a, <2>1, ResumedEffect
  <2>3. me \in PageType /\ me.tasks = old.tasks /\ me.approved
    BY <2>2 DEF PageType
  <2>4. now \in PageType /\ now.tasks = me.tasks /\ now.approved
    BY <2>3, GoType, Effects DEF UIState, Alike
  <2>5. shown \in PageType /\ shown.tasks = now.tasks /\ shown.approved
    BY <2>4 DEF PageType
  <2>6. after.tasks \subseteq old.tasks \cup {task} /\ after.approved
    BY <2>3, <2>4, <2>5, SendControlEffect DEF Alike
  <2>7. Failed(me).tasks = old.tasks
    BY <2>3, Effects
  <2>8. /\ page'["R"] \in {Failed(me), now, after}
        /\ \A q \in Page \ {"R"} : page'[q] = page[q]
    BY <1>4, <1>a, BecomeIs DEF HandleManifest
  <2>9. page'["R"].approved => NewTask("R", task)
    BY DEF NewTask, Task, Signal, Frame
  <2>10. \A u \in page'["R"].tasks : u \in page["R"].tasks \/ NewTask("R", u)
    <3>. HIDE DEF old, me, now, shown, after, task
    <3>. QED  BY <2>2, <2>3, <2>4, <2>6, <2>7, <2>8, <2>9
  <2>. QED  BY <1>4, <1>a, <2>8, <2>10, AddsOnly DEF HandleManifest
<1>5. ASSUME NEW t, HandleAccept(t) PROVE StepAdds
  <2> DEFINE old == End(page["S"], t)
             me == [old EXCEPT !.approved = TRUE]
             now == Go(me, "TRANSFERRING")
             shown == [now EXCEPT !.view = "transfer"]
             read == Task("read", Frame("CHUNK", chunker.next, "intact", chunker.key))
             complete == Task("send", Signal("COMPLETE", shown.keys))
  <2>1. t \in Pending("S", "control") /\ t.type = "ACCEPT"
    BY <1>5 DEF HandleAccept
  <2>2. old \in PageType /\ old.tasks \subseteq page["S"].tasks
    BY <1>a, <2>1, ResumedEffect
  <2>3. me \in PageType /\ me.tasks = old.tasks
    BY <2>2 DEF PageType
  <2>4. now \in PageType /\ now.tasks = me.tasks
    BY <2>3, GoType, Effects DEF UIState
  <2>5. shown \in PageType /\ shown.tasks = now.tasks
    BY <2>4 DEF PageType
  <2>6. Stream(shown).tasks \subseteq old.tasks \cup {read, complete}
    BY <2>3, <2>4, <2>5, StreamEffect
  <2>7. /\ page'["S"] \in {now, shown, Stream(shown)}
        /\ \A q \in Page \ {"S"} : page'[q] = page[q]
    BY <1>5, <1>a, BecomeIs DEF HandleAccept
  <2>8. NewTask("S", read) /\ NewTask("S", complete)
    BY <1>a, <2>1, PendingType DEF NewTask, Task, Signal, Frame, Streaming, Accepting
  <2>9. \A u \in page'["S"].tasks : u \in page["S"].tasks \/ NewTask("S", u)
    <3>. HIDE DEF old, me, now, shown, read, complete
    <3>. QED  BY <2>2, <2>3, <2>4, <2>5, <2>6, <2>7, <2>8
  <2>. QED  BY <1>5, <1>a, <2>7, <2>9, AddsOnly DEF HandleAccept
<1>6. ASSUME NEW t, HandleComplete(t) PROVE StepAdds
  <2>1. t \in Pending("R", "control")
    BY <1>6 DEF HandleComplete
  <2>2. page'["R"] = End(page["R"], t) /\ \A q \in Page \ {"R"} : page'[q] = page[q]
    BY <1>6, <1>a, BecomeIs DEF HandleComplete
  <2>3. page'["R"].tasks \subseteq page["R"].tasks
    BY <1>a, <2>1, <2>2, ResumedEffect
  <2>. QED  BY <1>6, <1>a, <2>2, <2>3, AddsOnly DEF HandleComplete
<1>7. ASSUME NEW t, HandleDownloadAck(t) PROVE StepAdds
  <2> DEFINE now == Go(End(page["S"], t), "COMPLETED")
  <2>1. t \in Pending("S", "control")
    BY <1>7 DEF HandleDownloadAck
  <2>2. now \in PageType /\ now.tasks \subseteq page["S"].tasks
    <3>1. End(page["S"], t) \in PageType /\ End(page["S"], t).tasks \subseteq page["S"].tasks
      BY <1>a, <2>1, ResumedEffect
    <3>. QED  BY <3>1, GoType, Effects DEF UIState
  <2>3. [now EXCEPT !.view = "complete"].tasks = now.tasks
    BY <2>2 DEF PageType
  <2>4. /\ page'["S"] \in {now, [now EXCEPT !.view = "complete"]}
        /\ \A q \in Page \ {"S"} : page'[q] = page[q]
    BY <1>7, <1>a, BecomeIs DEF HandleDownloadAck
  <2>5. page'["S"].tasks \subseteq page["S"].tasks
    <3>. HIDE DEF now
    <3>. QED  BY <2>2, <2>3, <2>4
  <2>. QED  BY <1>7, <1>a, <2>4, <2>5, AddsOnly DEF HandleDownloadAck
<1>8. ASSUME NEW t, HandleCancel(p, t) PROVE StepAdds
  <2> DEFINE old == End(page[p], t)
             me == [old EXCEPT !.ui = "CANCELLED"]
  <2>1. t \in Pending(p, "control") /\ Reset(p, me)
    BY <1>8 DEF HandleCancel
  <2>2. old \in PageType /\ old.tasks \subseteq page[p].tasks
    BY <2>1, ResumedEffect
  <2>3. me \in PageType /\ me.tasks = old.tasks
    BY <2>2 DEF PageType, UIState
  <2>. QED  BY <2>1, <2>2, <2>3, ResetAdds
<1>. QED  BY <1>1, <1>2, <1>3, <1>4, <1>5, <1>6, <1>7, <1>8

\* The streaming loop: it reads the next chunk, or ends with a COMPLETE.
LEMMA StreamingAdds ==
  ASSUME Typed, NEW t
  PROVE  StreamStep(t) \/ SendChunk(t) \/ ReadFails(t) => StepAdds
<1>a. net \in NetType /\ "S" \in Page
  BY DEF Typed, Page
<1> DEFINE old == End(page["S"], t)
<1>1. CASE StreamStep(t)
  <2> DEFINE read == Task("read", Frame("CHUNK", chunker.next, "intact", chunker.key))
             complete == Task("send", Signal("COMPLETE", old.keys))
  <2>1. t \in Pending("S", "loop")
    BY <1>1 DEF StreamStep
  <2>2. old \in PageType /\ old.tasks \subseteq page["S"].tasks
    BY <1>a, <2>1, ResumedEffect
  <2>3. page'["S"] = Stream(old) /\ \A q \in Page \ {"S"} : page'[q] = page[q]
    BY <1>1, <1>a, BecomeIs DEF StreamStep
  <2>4. page'["S"].tasks \subseteq old.tasks \cup {read, complete}
    BY <2>2, <2>3, StreamEffect
  <2>5. NewTask("S", read) /\ NewTask("S", complete)
    BY <1>a, <2>1, PendingType DEF NewTask, Task, Signal, Frame, Streaming
  <2>6. \A u \in page'["S"].tasks : u \in page["S"].tasks \/ NewTask("S", u)
    <3>. HIDE DEF old, read, complete
    <3>. QED  BY <2>2, <2>4, <2>5
  <2>. QED  BY <1>1, <1>a, <2>3, <2>6, AddsOnly DEF StreamStep
<1>2. CASE SendChunk(t)
  <2> DEFINE loop == Task("loop", Signal("", 0))
             F == {Frame("CHUNK", t.index, content, t.key) : content \in {"intact", "altered"}}
  <2>1. t \in Pending("S", "read")
    BY <1>2 DEF SendChunk
  <2>2. old \in PageType /\ old.tasks \subseteq page["S"].tasks
    BY <1>a, <2>1, ResumedEffect
  <2>3. /\ page'["S"] \in {Start(old, loop), Failed(old)}
        /\ \A q \in Page \ {"S"} : page'[q] = page[q]
    BY <1>2, <1>a, BecomeIs DEF SendChunk
  <2>4. page'["S"].tasks \subseteq page["S"].tasks \cup {loop}
    <3>. HIDE DEF old, loop
    <3>. QED  BY <2>2, <2>3, Effects
  <2>5. t \in page["S"].tasks /\ Streaming(t)
    BY <1>a, <2>1, PendingType DEF Streaming
  <2>6. NewTask("S", loop)
    BY <2>5 DEF NewTask, Task, Signal, Frame, Streaming
  <2>7. net' = net \/ \E frame \in F : net' = Sent(net, "S", frame)
    BY <1>2 DEF SendChunk
  <2>8. net' # net => page["R"].conn # "none"
    BY <2>7 DEF Sent, Peer
  <2>9. \A frame \in F : page["R"].conn # "none" => NewFrame("R", frame)
    BY <2>5 DEF NewFrame, Frame
  <2>10. \A q \in Page : \A frame \in Frames(net'[q]) :
           frame \in Frames(net[q]) \/ NewFrame(q, frame)
    <3>. HIDE DEF F
    <3>1. CASE net' = net
      BY <3>1
    <3>2. CASE net' # net
      <4>1. PICK frame \in F : net' = Sent(net, "S", frame)
        BY <2>7, <3>2
      <4>2. \A q \in Page : Frames(net'[q]) \subseteq Frames(net[q]) \cup
                              (IF q = "R" THEN {frame} ELSE {})
        BY <1>a, <4>1, QueueEffects DEF Peer
      <4>. QED  BY <2>8, <2>9, <3>2, <4>2
    <3>. QED  BY <3>1, <3>2
  <2>. QED  BY <1>a, <2>3, <2>4, <2>6, <2>10, AddsOnly
<1>3. CASE ReadFails(t)
  <2>1. t \in Pending("S", "read")
    BY <1>3 DEF ReadFails
  <2>2. page'["S"] = Failed(old) /\ \A q \in Page \ {"S"} : page'[q] = page[q]
    BY <1>3, <1>a, BecomeIs DEF ReadFails
  <2>3. page'["S"].tasks \subseteq page["S"].tasks
    BY <1>a, <2>1, <2>2, ResumedEffect, Effects
  <2>. QED  BY <1>3, <1>a, <2>2, <2>3, AddsOnly DEF ReadFails, fileVars
<1>. QED  BY <1>1, <1>2, <1>3

\* Chunks and finalization: a file is only saved when its digest is the expected one,
\* and only acknowledged when it is saved.
LEMMA ReceivingAdds ==
  ASSUME Typed
  PROVE  /\ net["R"] # <<>> /\ ReceiveChunk(Head(net["R"])) => StepAdds
         /\ \A t : StoreChunk(t) \/ Verify(t) \/ SaveFile(t) \/ FinishFinalization(t) => StepAdds
<1>a. net \in NetType /\ "R" \in Page /\ "S" \in Page /\ page["R"] \in PageType
  BY DEF Typed, Page
<1>b. ASSUME NEW me \in PageType, me.tasks \subseteq page["R"].tasks, FinalizeFails(me), UNCHANGED net
      PROVE  StepAdds
  <2> DEFINE task == Task("finish", Signal("CANCEL", Failed(me).keys))
  <2>1. Failed(me) \in PageType /\ Failed(me).tasks = me.tasks
    BY GoType, Effects DEF UIState
  <2>2. SendControl(Failed(me), "finish", "CANCEL").tasks \subseteq me.tasks \cup {task}
    BY <2>1, SendControlEffect
  <2>3. /\ page'["R"] = SendControl(Failed(me), "finish", "CANCEL")
        /\ \A q \in Page \ {"R"} : page'[q] = page[q]
    BY <1>a, <1>b, BecomeIs DEF FinalizeFails
  <2>4. NewTask("R", task)
    BY DEF NewTask, Task, Signal, Frame
  <2>5. \A u \in page'["R"].tasks : u \in page["R"].tasks \/ NewTask("R", u)
    <3>. HIDE DEF task
    <3>. QED  BY <1>b, <2>2, <2>3, <2>4
  <2>. QED  BY <1>a, <1>b, <2>3, <2>5, AddsOnly
<1>1. ASSUME net["R"] # <<>>, ReceiveChunk(Head(net["R"])) PROVE StepAdds
  <2> DEFINE kinds == {"chunk", "garbled"}
             frame == Head(net["R"])
  <2>1. \A kind \in kinds : NewTask("R", Task(kind, frame))
    BY <1>1, <1>a, QueueEffects DEF NewTask, Task
  <2>2. /\ \/ page'["R"] = page["R"]
           \/ \E kind \in kinds : page'["R"] = Start(page["R"], Task(kind, frame))
        /\ \A q \in Page \ {"R"} : page'[q] = page[q]
    BY <1>1, <1>a, BecomeIs DEF ReceiveChunk
  <2>3. \A t \in page'["R"].tasks : t \in page["R"].tasks \/ NewTask("R", t)
    BY <1>a, <2>1, <2>2, Effects
  <2>4. \A q \in Page : Frames(net'[q]) \subseteq Frames(net[q])
    BY <1>1, <1>a, QueueEffects DEF ReceiveChunk
  <2>. QED  BY <1>a, <2>2, <2>3, <2>4, AddsOnly
<1>2. ASSUME NEW t, StoreChunk(t) PROVE StepAdds
  <2> DEFINE me == End(page["R"], t)
             all == IF t.key = asm THEN [got EXCEPT ![t.index] = t.content] ELSE got
             verify == Task("verify", Frame("", 0, Whole(all), asm))
  <2>1. t \in Pending("R", "chunk")
    BY <1>2 DEF StoreChunk
  <2>2. me \in PageType /\ me.tasks \subseteq page["R"].tasks
    BY <1>a, <2>1, ResumedEffect
  <2>3. /\ page'["R"] \in {me, Failed(me), Start(Go(me, "VERIFYING"), verify)}
        /\ \A q \in Page \ {"R"} : page'[q] = page[q]
    BY <1>2, <1>a, BecomeIs DEF StoreChunk
  <2>4. NewTask("R", verify)
    BY DEF NewTask, Task, Frame
  <2>5. \A u \in page'["R"].tasks : u \in page["R"].tasks \/ NewTask("R", u)
    <3>. HIDE DEF me, verify
    <3>1. Go(me, "VERIFYING") \in PageType /\ Go(me, "VERIFYING").tasks = me.tasks
      BY <2>2, GoType, Effects DEF UIState
    <3>2. Start(Go(me, "VERIFYING"), verify).tasks = me.tasks \cup {verify}
      BY <3>1, Effects
    <3>3. Failed(me).tasks = me.tasks
      BY <2>2, Effects
    <3>. QED  BY <2>2, <2>3, <2>4, <3>2, <3>3
  <2>. QED  BY <1>2, <1>a, <2>3, <2>5, AddsOnly DEF StoreChunk
<1>3. ASSUME NEW t, Verify(t) PROVE StepAdds
  <2> DEFINE me == End(page["R"], t)
             save == Task("save", Frame("", 0, t.content, t.key))
  <2>1. t \in Pending("R", "verify")
    BY <1>3 DEF Verify
  <2>2. me \in PageType /\ me.tasks \subseteq page["R"].tasks
    BY <1>a, <2>1, ResumedEffect
  <2>3. CASE t.content = "intact"
    <3>1. page'["R"] = Start(me, save) /\ \A q \in Page \ {"R"} : page'[q] = page[q]
      BY <1>3, <1>a, <2>3, BecomeIs DEF Verify
    <3>2. NewTask("R", save)
      BY <2>3 DEF NewTask, Task, Frame
    <3>3. \A u \in page'["R"].tasks : u \in page["R"].tasks \/ NewTask("R", u)
      <4>. HIDE DEF me, save
      <4>. QED  BY <2>2, <3>1, <3>2, Effects
    <3>. QED  BY <1>3, <1>a, <3>1, <3>3, AddsOnly DEF Verify
  <2>4. CASE t.content # "intact"
    BY <1>3, <1>b, <2>2, <2>4 DEF Verify
  <2>. QED  BY <2>3, <2>4
<1>4. ASSUME NEW t, SaveFile(t) PROVE StepAdds
  <2> DEFINE old == End(page["R"], t)
             me == [old EXCEPT !.view = "complete"]
             now == SendControl(me, "finish", "DOWNLOAD_ACK")
             ack == Task("finish", Signal("DOWNLOAD_ACK", me.keys))
  <2>1. t \in Pending("R", "save")
    BY <1>4 DEF SaveFile
  <2>2. old \in PageType /\ old.tasks \subseteq page["R"].tasks
    BY <1>a, <2>1, ResumedEffect
  <2>3. me \in PageType /\ me.tasks = old.tasks
    BY <2>2 DEF PageType
  <2>4. CASE asm = 0
    BY <1>4, <1>b, <2>2, <2>4 DEF SaveFile
  <2>5. CASE asm # 0
    <3>1. page'["R"] = now /\ \A q \in Page \ {"R"} : page'[q] = page[q]
      BY <1>4, <1>a, <2>5, BecomeIs DEF SaveFile
    <3>2. now.tasks \subseteq me.tasks \cup {ack}
      BY <2>3, SendControlEffect
    <3>3. saved' = t.content
      BY <1>4, <2>5 DEF SaveFile
    <3>4. NewTask("R", ack)
      BY <2>1, <3>3 DEF NewTask, Task, Signal, Frame
    <3>5. \A u \in page'["R"].tasks : u \in page["R"].tasks \/ NewTask("R", u)
      <4>. HIDE DEF old, me, now, ack
      <4>. QED  BY <2>2, <2>3, <3>1, <3>2, <3>4
    <3>. QED  BY <1>4, <1>a, <3>1, <3>5, AddsOnly DEF SaveFile
  <2>. QED  BY <2>4, <2>5
<1>5. ASSUME NEW t, FinishFinalization(t) PROVE StepAdds
  <2> DEFINE frame == Signal(t.type, t.key)
  <2>1. t \in Pending("R", "finish")
    BY <1>5 DEF FinishFinalization
  <2>2. page'["R"] = End(page["R"], t) /\ \A q \in Page \ {"R"} : page'[q] = page[q]
    BY <1>5, <1>a, BecomeIs DEF FinishFinalization
  <2>3. page'["R"].tasks \subseteq page["R"].tasks
    BY <1>a, <2>1, <2>2, ResumedEffect
  <2>4. t \in page["R"].tasks /\ t.kind = "finish" /\ frame.type = t.type
    BY <1>a, <2>1, PendingType DEF Signal, Frame
  <2>5. \A q \in Page : Frames(net'[q]) \subseteq Frames(net[q]) \cup
                              (IF q = "S" THEN {frame} ELSE {})
    BY <1>5, <1>a, QueueEffects DEF FinishFinalization, Peer
  <2>6. NewFrame("S", frame)
    BY <2>4 DEF NewFrame, Peer
  <2>. QED  BY <1>a, <2>2, <2>3, <2>5, <2>6, AddsOnly
<1>. QED  BY <1>1, <1>2, <1>3, <1>4, <1>5

\* The user, and the reconnect: CANCEL and PEER_LEFT, and the task of a new transport.
LEMMA UserAdds ==
  ASSUME Typed, NEW p \in Page
  PROVE  /\ PressCancel(p) \/ PressStartNew(p) => StepAdds
         /\ \A t : FinishCancel(p, t) \/ NewTransport(t) => StepAdds
         /\ SignalingCloses \/ Reconnect => StepAdds
         /\ net["S"] # <<>> /\ PeerLeft => StepAdds
<1>a. /\ page[p] \in PageType /\ net \in NetType /\ "S" \in Page /\ "R" \in Page
      /\ page["S"] \in PageType /\ page["R"] \in PageType
  BY DEF Typed, Page
<1>1. ASSUME PressCancel(p) PROVE StepAdds
  <2> DEFINE me == [page[p] EXCEPT !.isCancelled = TRUE]
             cancel == Task("cancel", Signal("CANCEL", me.keys))
             left == [me EXCEPT !.ui = "CANCELLED"]
  <2>1. /\ me \in PageType /\ me.tasks = page[p].tasks
        /\ left \in PageType /\ left.tasks = page[p].tasks
    BY <1>a DEF PageType, UIState
  <2>2. CASE me.keys # 0 /\ me.conn # "none"
    <3>1. /\ page'[p] = SendControl(me, "cancel", "CANCEL") /\ UNCHANGED net
          /\ \A q \in Page \ {p} : page'[q] = page[q]
      BY <1>1, <2>2, BecomeIs DEF PressCancel
    <3>2. page'[p].tasks \subseteq page[p].tasks \cup {cancel}
      BY <2>1, <3>1, SendControlEffect
    <3>3. NewTask(p, cancel)
      BY DEF NewTask, Task, Signal, Frame
    <3>. QED  BY <3>1, <3>2, <3>3, AddsOnly
  <2>3. CASE ~(me.keys # 0 /\ me.conn # "none")
    <3>1. Reset(p, left)
      BY <1>1, <2>3 DEF PressCancel
    <3>. QED  BY <2>1, <3>1, ResetAdds
  <2>. QED  BY <2>2, <2>3
<1>2. ASSUME PressStartNew(p) PROVE StepAdds
  BY <1>2, <1>a, ResetAdds DEF PressStartNew
<1>3. ASSUME NEW t, FinishCancel(p, t) PROVE StepAdds
  <2> DEFINE me == End(page[p], t)
             left == [me EXCEPT !.ui = "CANCELLED"]
             frame == Signal("CANCEL", t.key)
  <2>1. t \in Pending(p, "cancel")
    BY <1>3 DEF FinishCancel
  <2>2. me \in PageType /\ me.tasks \subseteq page[p].tasks /\ t.key \in 0 .. Mixed
    BY <2>1, ResumedEffect, PendingType DEF TaskType
  <2>3. left \in PageType /\ left.tasks = me.tasks
    BY <2>2 DEF PageType, UIState
  <2>4. page'[p] \in {me, ResetPage(left)} /\ \A q \in Page \ {p} : page'[q] = page[q]
    BY <1>3, BecomeIs DEF FinishCancel
  <2>5. page'[p].tasks \subseteq page[p].tasks
    <3>. HIDE DEF me, left
    <3>. QED  BY <2>2, <2>3, <2>4, Effects
  <2>6. Sent(net, p, frame) \in NetType
    BY <1>a, <2>2, SignalType, SentType DEF Type, Control
  <2>7. net' = net \/ net' \in Closed(Sent(net, p, frame), p)
    BY <1>3 DEF FinishCancel
  <2>8. \A q \in Page : Frames(net'[q]) \subseteq Frames(net[q]) \cup {frame}
    <3>. HIDE DEF frame
    <3>1. \A q \in Page : Frames(Sent(net, p, frame)[q]) \subseteq Frames(net[q]) \cup {frame}
      BY <1>a, QueueEffects
    <3>2. net' \in Closed(Sent(net, p, frame), p) =>
            \A q \in Page : Frames(net'[q]) \subseteq Frames(Sent(net, p, frame)[q])
      BY <2>6, QueueEffects
    <3>. QED  BY <2>7, <3>1, <3>2
  <2>9. \A q \in Page : NewFrame(q, frame)
    BY DEF NewFrame, Signal, Frame
  <2>. QED  BY <2>4, <2>5, <2>8, <2>9, AddsOnly
<1>4. ASSUME SignalingCloses PROVE StepAdds
  <2> DEFINE frame == Signal("PEER_LEFT", 0)
  <2>1. page'["R"].tasks = page["R"].tasks /\ \A q \in Page \ {"R"} : page'[q] = page[q]
    <3>1. /\ page'["R"] \in {page["R"], [page["R"] EXCEPT !.conn = "broken"]}
          /\ \A q \in Page \ {"R"} : page'[q] = page[q]
      BY <1>4, <1>a, BecomeIs DEF SignalingCloses
    <3>. QED  BY <1>a, <3>1 DEF PageType
  <2>2. \/ net' = net
        \/ \E queues \in Closed(net, "R") : net' = [queues EXCEPT !["S"] = Append(@, frame)]
    BY <1>4 DEF SignalingCloses
  <2>3. ASSUME NEW queues \in Closed(net, "R"), net' = [queues EXCEPT !["S"] = Append(@, frame)]
        PROVE  \A q \in Page : Frames(net'[q]) \subseteq Frames(net[q]) \cup {frame}
    <3>1. queues \in NetType /\ \A q \in Page : Frames(queues[q]) \subseteq Frames(net[q])
      BY <1>a, ClosedType, QueueEffects
    <3>2. \A q \in Page : Frames(net'[q]) \subseteq Frames(queues[q]) \cup {frame}
      BY <2>3, <3>1 DEF NetType, Frames
    <3>. QED  BY <3>1, <3>2
  <2>4. \A q \in Page : Frames(net'[q]) \subseteq Frames(net[q]) \cup {frame}
    BY <2>2, <2>3
  <2>5. \A q \in Page : NewFrame(q, frame)
    BY DEF NewFrame, Signal, Frame
  <2>. QED  BY <1>a, <2>1, <2>4, <2>5, AddsOnly
<1>5. ASSUME Reconnect PROVE StepAdds
  <2> DEFINE me == [page["R"] EXCEPT !.conn = "none", !.keys = 0, !.sentHandshake = FALSE,
                                     !.isCancelled = FALSE]
             connect == Task("connect", Signal("", 0))
  <2>1. net' = net \/ net' \in Closed(net, "R")
    BY <1>5 DEF Reconnect
  <2>2. \A q \in Page : Frames(net'[q]) \subseteq Frames(net[q])
    BY <1>a, <2>1, QueueEffects
  <2>3. CASE UNCHANGED page
    BY <1>a, <2>2, <2>3, AddsOnly
  <2>4. CASE ~UNCHANGED page
    <3>1. page'["R"] = Start(me, connect) /\ \A q \in Page \ {"R"} : page'[q] = page[q]
      BY <1>5, <1>a, <2>4, BecomeIs DEF Reconnect
    <3>2. me \in PageType /\ me.tasks = page["R"].tasks /\ me.conn = "none"
      BY <1>a, ZeroInRange DEF PageType
    <3>3. page'["R"].tasks = page["R"].tasks \cup {connect} /\ page'["R"].conn = "none"
      <4>. HIDE DEF me, connect
      <4>. QED  BY <3>1, <3>2, Effects DEF Alike
    <3>4. NewTask("R", connect)
      BY <1>5, <3>3 DEF NewTask, Reconnect
    <3>. QED  BY <1>a, <2>2, <3>1, <3>3, <3>4, AddsOnly
  <2>. QED  BY <2>3, <2>4
<1>6. ASSUME net["S"] # <<>>, PeerLeft PROVE StepAdds
  <2>1. /\ page'["S"] = [page["S"] EXCEPT !.conn = "broken"]
        /\ \A q \in Page \ {"S"} : page'[q] = page[q]
    BY <1>6, <1>a, BecomeIs DEF PeerLeft
  <2>2. page'["S"].tasks = page["S"].tasks
    BY <1>a, <2>1 DEF PageType
  <2>3. \A q \in Page : Frames(net'[q]) \subseteq Frames(net[q])
    BY <1>6, <1>a, QueueEffects DEF PeerLeft
  <2>. QED  BY <1>a, <2>1, <2>2, <2>3, AddsOnly
<1>7. ASSUME NEW t, NewTransport(t) PROVE StepAdds
  <2> DEFINE me == End(page["R"], t)
  <2>1. t \in Pending("R", "connect")
    BY <1>7 DEF NewTransport
  <2>2. me \in PageType /\ me.tasks \subseteq page["R"].tasks
    BY <1>a, <2>1, ResumedEffect
  <2>3. /\ page'["R"] = [me EXCEPT !.conn = "connecting"]
        /\ \A q \in Page \ {"R"} : page'[q] = page[q]
    BY <1>7, <1>a, BecomeIs DEF NewTransport
  <2>4. page'["R"].tasks \subseteq page["R"].tasks
    BY <2>2, <2>3 DEF PageType
  <2>. QED  BY <1>7, <1>a, <2>3, <2>4, AddsOnly DEF NewTransport
<1>. QED  BY <1>1, <1>2, <1>3, <1>4, <1>5, <1>6, <1>7

\* What every step adds.
LEMMA StepAddsOnly ==
  ASSUME Typed, [Next]_vars
  PROVE  StepAdds
<1>1. ASSUME NEW p \in Page,
             \/ Open(p) \/ PressCancel(p) \/ PressStartNew(p)
             \/ /\ net[p] # <<>>
                /\ \/ ReceiveHandshake(p, Head(net[p])) /\ Head(net[p]).type = "HANDSHAKE"
                   \/ ReceiveControl(p, Head(net[p])) /\ Head(net[p]).type \in Control
      PROVE  StepAdds
  BY <1>1, ConnectingAdds, ControlAdds, UserAdds
<1>2. ASSUME NEW p \in Page, NEW t,
             \/ DeriveKeys(p, t) \/ SendEncrypted(p, t) \/ DecryptFails(p, t)
             \/ HandleCancel(p, t) \/ FinishCancel(p, t)
      PROVE  StepAdds
  BY <1>2, ConnectingAdds, ControlAdds, UserAdds
<1>3. ASSUME NEW t, \/ MakeChunker(t) \/ SendManifest(t) \/ HandleManifest(t) \/ HandleAccept(t)
                    \/ HandleComplete(t) \/ HandleDownloadAck(t) \/ NewTransport(t)
      PROVE  StepAdds
  BY <1>3, ConnectingAdds, ControlAdds, UserAdds DEF Page
<1>4. ASSUME NEW t, \/ StreamStep(t) \/ SendChunk(t) \/ ReadFails(t)
                    \/ StoreChunk(t) \/ Verify(t) \/ SaveFile(t) \/ FinishFinalization(t)
      PROVE  StepAdds
  BY <1>4, StreamingAdds, ReceivingAdds
<1>5. CASE \/ net["R"] # <<>> /\ Head(net["R"]).type = "CHUNK" /\ ReceiveChunk(Head(net["R"]))
           \/ net["S"] # <<>> /\ PeerLeft
           \/ SignalingCloses \/ Reconnect
  BY <1>5, ReceivingAdds, UserAdds DEF Page
<1>6. CASE UNCHANGED vars
  BY <1>6 DEF vars, StepAdds, Started, Arriving
<1>. QED  BY <1>1, <1>2, <1>3, <1>4, <1>5, <1>6, StepCases
------------------------------------------------------------------------------
(* What a step does to the view, the approval and the transport of a page, to *)
(* the timer and to the key pair.                                             *)

StepFields ==
  /\ page'["S"].view = "complete" =>
       page["S"].view = "complete" \/ \E t \in page["S"].tasks : t.type = "DOWNLOAD_ACK"
  /\ page["R"].approved =>
       page'["R"].approved \/ (page'["R"].conn = "none" /\ net'["R"] = <<>>)
  /\ page["R"].conn = "none" => page'["R"].conn = "none" \/ \E t : NewTransport(t)
  /\ timer' => timer \/ (page["R"].conn = "open" /\ epoch < MaxEpoch)
  /\ epoch' = epoch \/ \E t : NewTransport(t)

\* A step that leaves these alone.
LEMMA AlikeFields ==
  ASSUME \A q \in Page : Alike(page[q], page'[q]), UNCHANGED <<timer, epoch>>
  PROVE  StepFields
  BY DEF Alike, StepFields, Page

\* A handler that leaves the fields of its page alone.
LEMMA BecomeAlike ==
  ASSUME Typed, NEW p \in Page, NEW me, Become(p, me), Alike(page[p], me), UNCHANGED <<timer, epoch>>
  PROVE  StepFields
<1>1. \A q \in Page : Alike(page[q], page'[q])
  BY BecomeIs DEF Alike
<1>. QED  BY <1>1, AlikeFields

\* Alikeness passes along.
LEMMA AlikeTrans ==
  ASSUME NEW a, NEW b, NEW c, Alike(a, b), Alike(b, c)
  PROVE  Alike(a, c)
  BY DEF Alike

\* Resetting a page cuts it off and empties its queue.
LEMMA ResetFields ==
  ASSUME Typed, NEW p \in Page, NEW me \in PageType, Reset(p, me)
  PROVE  StepFields
<1>1. page'[p] = ResetPage(me) /\ \A q \in Page \ {p} : page'[q] = page[q]
  BY BecomeIs DEF Reset
<1>2. page'[p].conn = "none" /\ page'[p].view = "pairing"
  BY <1>1, Effects
<1>3. net'[p] = <<>>
  BY ClosedKeeps DEF Reset, Typed
<1>4. UNCHANGED <<epoch, timer>>
  BY DEF Reset
<1>5. CASE p = "S"
  <2>1. page'["R"] = page["R"]
    BY <1>1, <1>5 DEF Page
  <2>. QED  BY <1>2, <1>4, <1>5, <2>1 DEF StepFields
<1>6. CASE p = "R"
  <2>1. page'["S"] = page["S"]
    BY <1>1, <1>6 DEF Page
  <2>. QED  BY <1>2, <1>3, <1>4, <1>6, <2>1 DEF StepFields
<1>. QED  BY <1>5, <1>6 DEF Page

\* Most handlers leave the fields alone.
LEMMA HandlerFields ==
  ASSUME Typed, NEW p \in Page
  PROVE  /\ ReceiveHandshake(p, Head(net[p])) \/ ReceiveControl(p, Head(net[p])) => StepFields
         /\ ReceiveChunk(Head(net["R"])) => StepFields
         /\ \A t : \/ DeriveKeys(p, t) \/ MakeChunker(t) \/ SendManifest(t)
                  \/ SendEncrypted(p, t) \/ DecryptFails(p, t) \/ HandleComplete(t)
                  \/ StreamStep(t) \/ SendChunk(t) \/ ReadFails(t) \/ StoreChunk(t)
                  \/ Verify(t) \/ FinishFinalization(t) => StepFields
<1>a. /\ page[p] \in PageType /\ "S" \in Page /\ "R" \in Page
      /\ page["S"] \in PageType /\ page["R"] \in PageType
  BY DEF Typed, Page
<1>f. UNCHANGED fileVars => UNCHANGED <<timer, epoch>>
  BY DEF fileVars, userVars
<1>u. UNCHANGED userVars => UNCHANGED <<timer, epoch>>
  BY DEF userVars
<1>0. \A q \in Page : /\ Alike(page[q], page[q]) /\ Alike(page[q], Failed(page[q]))
                      /\ \A t : Alike(page[q], Start(page[q], t))
  BY Effects DEF Alike, Typed
<1>1. ASSUME ReceiveHandshake(p, Head(net[p])) PROVE StepFields
  <2> DEFINE key == IF p = "S" THEN Head(net[p]).key ELSE epoch
             me == [page[p] EXCEPT !.peerKey = key, !.sentHandshake = TRUE]
  <2>1. Become(p, Start(me, Task("derive", Signal("HANDSHAKE", key)))) \/ Become(p, Failed(me))
    BY <1>1 DEF ReceiveHandshake
  <2>2. /\ Alike(page[p], Start(me, Task("derive", Signal("HANDSHAKE", key))))
        /\ Alike(page[p], Failed(me))
    BY <1>a DEF Alike, Start, Failed, PageType
  <2>3. UNCHANGED <<timer, epoch>>
    BY <1>1, <1>f DEF ReceiveHandshake
  <2>. HIDE DEF me
  <2>. QED  BY <2>1, <2>2, <2>3, BecomeAlike
<1>2. ASSUME ReceiveControl(p, Head(net[p])) PROVE StepFields
  BY <1>2, <1>f, <1>0, BecomeAlike DEF ReceiveControl
<1>3. ASSUME ReceiveChunk(Head(net["R"])) PROVE StepFields
  BY <1>3, <1>a, <1>f, <1>0, BecomeAlike DEF ReceiveChunk
<1>4. ASSUME NEW q \in Page, NEW kind, NEW t \in Pending(q, kind),
             UNCHANGED <<timer, epoch>>
      PROVE  LET me == End(page[q], t)
             IN /\ me \in PageType /\ Alike(page[q], me)
                /\ Become(q, me) \/ Become(q, Failed(me)) => StepFields
                /\ \A u : Become(q, Start(me, u)) => StepFields
                /\ \A k, a : Become(q, SendControl(me, k, a)) => StepFields
                /\ Become(q, Stream(me)) => StepFields
  <2> DEFINE me == End(page[q], t)
  <2>1. me \in PageType /\ Alike(page[q], me)
    BY ResumedEffect
  <2>. HIDE DEF me
  <2>2. /\ Alike(page[q], Failed(me)) /\ Alike(page[q], Stream(me))
        /\ \A u : Alike(page[q], Start(me, u))
        /\ \A k, a : Alike(page[q], SendControl(me, k, a))
    BY <2>1, Effects, SendControlEffect, StreamEffect, AlikeTrans
  <2>3. /\ Become(q, me) \/ Become(q, Failed(me)) => StepFields
        /\ \A u : Become(q, Start(me, u)) => StepFields
        /\ \A k, a : Become(q, SendControl(me, k, a)) => StepFields
        /\ Become(q, Stream(me)) => StepFields
    BY <1>4, <2>1, <2>2, BecomeAlike
  <2>. QED  BY <2>1, <2>3 DEF me
<1>5. ASSUME NEW t, DeriveKeys(p, t) PROVE StepFields
  <2> DEFINE me == End(page[p], t)
             task == Task("package", Signal("", 0))
  <2>1. t \in Pending(p, "derive") /\ UNCHANGED <<timer, epoch>>
    BY <1>5, <1>f DEF DeriveKeys
  <2>2. \/ \E key : \/ Become(p, [me EXCEPT !.keys = key])
                   \/ Become(p, Start([me EXCEPT !.keys = key], task))
        \/ Become(p, Failed(me))
    BY <1>5 DEF DeriveKeys
  <2>3. me \in PageType /\ Alike(page[p], me)
    BY <2>1, ResumedEffect
  <2>4. \A key : /\ Alike(page[p], [me EXCEPT !.keys = key])
                 /\ Alike(page[p], Start([me EXCEPT !.keys = key], task))
    <3>. HIDE DEF me, task
    <3>. QED  BY <2>3 DEF Alike, Start, PageType
  <2>5. Alike(page[p], Failed(me))
    BY <2>3, Effects, AlikeTrans
  <2>. HIDE DEF me, task
  <2>. QED  BY <2>1, <2>2, <2>4, <2>5, BecomeAlike
<1>6. ASSUME NEW t, MakeChunker(t) \/ SendManifest(t) PROVE StepFields
  BY <1>6, <1>a, <1>4, <1>f, <1>u DEF MakeChunker, SendManifest
<1>7. ASSUME NEW t, SendEncrypted(p, t) \/ DecryptFails(p, t) \/ HandleComplete(t)
      PROVE  StepFields
  BY <1>7, <1>a, <1>4, <1>f DEF SendEncrypted, DecryptFails, HandleComplete
<1>8. ASSUME NEW t, StreamStep(t) \/ SendChunk(t) \/ ReadFails(t) PROVE StepFields
  BY <1>8, <1>a, <1>4, <1>f, <1>u DEF StreamStep, SendChunk, ReadFails
<1>9. ASSUME NEW t, StoreChunk(t) PROVE StepFields
  <2> DEFINE me == End(page["R"], t)
             all == IF t.key = asm THEN [got EXCEPT ![t.index] = t.content] ELSE got
             verify == Task("verify", Frame("", 0, Whole(all), asm))
  <2>1. t \in Pending("R", "chunk") /\ UNCHANGED <<timer, epoch>>
    BY <1>9, <1>u DEF StoreChunk
  <2>2. Become("R", me) \/ Become("R", Failed(me)) \/ Become("R", Start(Go(me, "VERIFYING"), verify))
    BY <1>9 DEF StoreChunk
  <2>3. me \in PageType /\ Alike(page["R"], me)
    BY <1>a, <2>1, ResumedEffect
  <2>. HIDE DEF me, verify
  <2>4. Go(me, "VERIFYING") \in PageType /\ Alike(page["R"], Go(me, "VERIFYING"))
    BY <2>3, GoType, Effects, AlikeTrans DEF UIState
  <2>5. Alike(page["R"], Start(Go(me, "VERIFYING"), verify)) /\ Alike(page["R"], Failed(me))
    BY <2>3, <2>4, Effects, AlikeTrans
  <2>. QED  BY <1>a, <2>1, <2>2, <2>3, <2>5, BecomeAlike
<1>10. ASSUME NEW t, Verify(t) PROVE StepFields
  <2> DEFINE me == End(page["R"], t)
  <2>1. t \in Pending("R", "verify") /\ UNCHANGED <<timer, epoch>>
    BY <1>10, <1>u DEF Verify
  <2>2. \/ Become("R", Start(me, Task("save", Frame("", 0, t.content, t.key))))
        \/ Become("R", SendControl(Failed(me), "finish", "CANCEL"))
    BY <1>10 DEF Verify, FinalizeFails
  <2>3. me \in PageType /\ Alike(page["R"], me)
    BY <1>a, <2>1, ResumedEffect
  <2>. HIDE DEF me
  <2>4. Failed(me) \in PageType /\ Alike(page["R"], Failed(me))
    BY <2>3, GoType, Effects, AlikeTrans DEF UIState
  <2>5. Alike(page["R"], SendControl(Failed(me), "finish", "CANCEL"))
    BY <2>4, SendControlEffect, AlikeTrans
  <2>6. \A u : Alike(page["R"], Start(me, u))
    BY <2>3, Effects, AlikeTrans
  <2>. QED  BY <1>a, <2>1, <2>2, <2>5, <2>6, BecomeAlike
<1>11. ASSUME NEW t, FinishFinalization(t) PROVE StepFields
  BY <1>11, <1>a, <1>4, <1>u DEF FinishFinalization
<1>. QED  BY <1>1, <1>2, <1>3, <1>5, <1>6, <1>7, <1>8, <1>9, <1>10, <1>11

\* The other handlers: opening, approval, acknowledgement, saving.
LEMMA ApprovalFields ==
  ASSUME Typed, NEW p \in Page
  PROVE  /\ Open(p) => StepFields
         /\ \A t : \/ HandleManifest(t) \/ HandleAccept(t) \/ HandleDownloadAck(t)
                  \/ SaveFile(t) \/ HandleCancel(p, t) => StepFields
<1>a. /\ page[p] \in PageType /\ "S" \in Page /\ "R" \in Page
      /\ page["S"] \in PageType /\ page["R"] \in PageType
  BY DEF Typed, Page
<1>u. UNCHANGED fileVars \/ UNCHANGED userVars => UNCHANGED <<timer, epoch>>
  BY DEF fileVars, userVars
<1>1. ASSUME Open(p) PROVE StepFields
  <2> DEFINE me == [page[p] EXCEPT !.conn = "open"]
             after == [me EXCEPT !.ui = "CONNECTED", !.sentHandshake = TRUE]
  <2>1. /\ page'[p] \in {me, after} /\ page[p].conn = "connecting"
        /\ \A q \in Page \ {p} : page'[q] = page[q]
    BY <1>1, BecomeIs DEF Open
  <2>2. page'[p].view = page[p].view /\ page'[p].approved = page[p].approved
    BY <1>a, <2>1 DEF PageType
  <2>3. UNCHANGED <<timer, epoch>>
    BY <1>1, <1>u DEF Open
  <2>. QED  BY <1>a, <2>1, <2>2, <2>3 DEF StepFields
<1>2. ASSUME NEW t, HandleManifest(t) PROVE StepFields
  <2> DEFINE old == End(page["R"], t)
             me == [old EXCEPT !.approved = TRUE]
             now == Go(me, "TRANSFERRING")
             shown == [now EXCEPT !.view = "transfer"]
             after == SendControl(shown, "send", "ACCEPT")
  <2>1. t \in Pending("R", "control") /\ UNCHANGED <<timer, epoch>>
    BY <1>2, <1>u DEF HandleManifest
  <2>2. old \in PageType /\ Alike(page["R"], old)
    BY <1>a, <2>1, ResumedEffect
  <2>3. me \in PageType /\ me.conn = old.conn /\ me.approved
    BY <2>2 DEF PageType
  <2>4. now \in PageType /\ now.conn = me.conn /\ now.approved
    BY <2>3, GoType, Effects DEF UIState, Alike
  <2>5. shown \in PageType /\ shown.conn = now.conn /\ shown.approved
    BY <2>4 DEF PageType
  <2>6. after.conn = shown.conn /\ after.approved
    BY <2>5, SendControlEffect DEF Alike
  <2>7. Failed(me).conn = me.conn /\ Failed(me).approved
    BY <2>3, Effects DEF Alike
  <2>8. /\ page'["R"] \in {Failed(me), now, after}
        /\ \A q \in Page \ {"R"} : page'[q] = page[q]
    BY <1>2, <1>a, BecomeIs DEF HandleManifest
  <2>9. page'["R"].approved /\ page'["R"].conn = page["R"].conn /\ page'["S"] = page["S"]
    <3>. HIDE DEF old, me, now, shown, after
    <3>. QED  BY <1>a, <2>2, <2>3, <2>4, <2>5, <2>6, <2>7, <2>8 DEF Alike
  <2>. QED  BY <2>1, <2>9 DEF StepFields
<1>3. ASSUME NEW t, HandleAccept(t) PROVE StepFields
  <2> DEFINE old == End(page["S"], t)
             me == [old EXCEPT !.approved = TRUE]
             now == Go(me, "TRANSFERRING")
             shown == [now EXCEPT !.view = "transfer"]
  <2>1. t \in Pending("S", "control") /\ UNCHANGED <<timer, epoch>>
    BY <1>3, <1>u DEF HandleAccept
  <2>2. old \in PageType /\ Alike(page["S"], old)
    BY <1>a, <2>1, ResumedEffect
  <2>3. me \in PageType /\ me.view = old.view
    BY <2>2 DEF PageType
  <2>4. now \in PageType /\ now.view = me.view
    <3>. HIDE DEF me
    <3>. QED  BY <2>3, GoType, Effects DEF UIState, Alike
  <2>5. shown \in PageType /\ shown.view = "transfer"
    BY <2>4 DEF PageType
  <2>6. Stream(shown).view = "transfer"
    BY <2>5, StreamEffect DEF Alike
  <2>7. /\ page'["S"] \in {now, shown, Stream(shown)}
        /\ \A q \in Page \ {"S"} : page'[q] = page[q]
    BY <1>3, <1>a, BecomeIs DEF HandleAccept
  <2>8. page'["S"].view \in {page["S"].view, "transfer"} /\ page'["R"] = page["R"]
    <3>. HIDE DEF old, me, now, shown
    <3>. QED  BY <1>a, <2>2, <2>3, <2>4, <2>5, <2>6, <2>7 DEF Alike
  <2>. QED  BY <2>1, <2>8 DEF StepFields
<1>4. ASSUME NEW t, HandleDownloadAck(t) PROVE StepFields
  <2>1. /\ t \in page["S"].tasks /\ t.type = "DOWNLOAD_ACK" /\ UNCHANGED <<timer, epoch>>
        /\ page'["R"] = page["R"]
    BY <1>4, <1>a, <1>u, PendingType, BecomeIs DEF HandleDownloadAck, Page
  <2>. QED  BY <2>1 DEF StepFields
<1>5. ASSUME NEW t, SaveFile(t) PROVE StepFields
  <2> DEFINE old == End(page["R"], t)
             me == [old EXCEPT !.view = "complete"]
             now == SendControl(me, "finish", "DOWNLOAD_ACK")
             failed == SendControl(Failed(old), "finish", "CANCEL")
  <2>1. t \in Pending("R", "save") /\ UNCHANGED <<timer, epoch>>
    BY <1>5 DEF SaveFile
  <2>2. old \in PageType /\ Alike(page["R"], old)
    BY <1>a, <2>1, ResumedEffect
  <2>3. me \in PageType /\ me.conn = old.conn /\ me.approved = old.approved
    BY <2>2 DEF PageType
  <2>4. now.conn = me.conn /\ now.approved = me.approved
    <3>. HIDE DEF me
    <3>. QED  BY <2>3, SendControlEffect DEF Alike
  <2>5. failed.conn = old.conn /\ failed.approved = old.approved
    BY <2>2, GoType, Effects, SendControlEffect DEF Alike, UIState
  <2>6. /\ page'["R"] \in {now, failed}
        /\ \A q \in Page \ {"R"} : page'[q] = page[q]
    BY <1>5, <1>a, BecomeIs DEF SaveFile, FinalizeFails
  <2>7. /\ page'["R"].approved = page["R"].approved /\ page'["R"].conn = page["R"].conn
        /\ page'["S"] = page["S"]
    <3>. HIDE DEF old, me, now, failed
    <3>. QED  BY <1>a, <2>2, <2>3, <2>4, <2>5, <2>6 DEF Alike
  <2>. QED  BY <2>1, <2>7 DEF StepFields
<1>6. ASSUME NEW t, HandleCancel(p, t) PROVE StepFields
  <2> DEFINE old == End(page[p], t)
             me == [old EXCEPT !.ui = "CANCELLED"]
  <2>1. t \in Pending(p, "control") /\ Reset(p, me)
    BY <1>6 DEF HandleCancel
  <2>2. old \in PageType
    BY <2>1, ResumedEffect
  <2>3. me \in PageType
    BY <2>2 DEF PageType, UIState
  <2>. QED  BY <2>1, <2>3, ResetFields
<1>. QED  BY <1>1, <1>2, <1>3, <1>4, <1>5, <1>6

\* The user, and the reconnect.
LEMMA UserFields ==
  ASSUME Typed, NEW p \in Page
  PROVE  /\ PressCancel(p) \/ PressStartNew(p) => StepFields
         /\ \A t : FinishCancel(p, t) \/ NewTransport(t) => StepFields
         /\ SignalingCloses \/ Reconnect \/ PeerLeft => StepFields
<1>a. /\ page[p] \in PageType /\ "S" \in Page /\ "R" \in Page /\ net \in NetType
      /\ page["S"] \in PageType /\ page["R"] \in PageType
  BY DEF Typed, Page
<1>u. UNCHANGED fileVars \/ UNCHANGED userVars => UNCHANGED <<timer, epoch>>
  BY DEF fileVars, userVars
<1>1. ASSUME PressCancel(p) PROVE StepFields
  <2> DEFINE me == [page[p] EXCEPT !.isCancelled = TRUE]
             left == [me EXCEPT !.ui = "CANCELLED"]
  <2>1. me \in PageType /\ Alike(page[p], me) /\ left \in PageType
    BY <1>a DEF PageType, UIState, Alike
  <2>2. CASE me.keys # 0 /\ me.conn # "none"
    <3>1. Become(p, SendControl(me, "cancel", "CANCEL")) /\ UNCHANGED <<timer, epoch>>
      BY <1>1, <2>2 DEF PressCancel
    <3>2. Alike(page[p], SendControl(me, "cancel", "CANCEL"))
      BY <2>1, SendControlEffect, AlikeTrans
    <3>. QED  BY <3>1, <3>2, BecomeAlike
  <2>3. CASE ~(me.keys # 0 /\ me.conn # "none")
    <3>1. Reset(p, left)
      BY <1>1, <2>3 DEF PressCancel
    <3>. QED  BY <2>1, <3>1, ResetFields
  <2>. QED  BY <2>2, <2>3
<1>2. ASSUME PressStartNew(p) PROVE StepFields
  BY <1>2, <1>a, ResetFields DEF PressStartNew
<1>3. ASSUME NEW t, FinishCancel(p, t) PROVE StepFields
  <2> DEFINE me == End(page[p], t)
             left == [me EXCEPT !.ui = "CANCELLED"]
             sent == Sent(net, p, Signal("CANCEL", t.key))
  <2>1. t \in Pending(p, "cancel") /\ UNCHANGED <<timer, epoch>>
    BY <1>3, <1>u DEF FinishCancel
  <2>2. me \in PageType /\ Alike(page[p], me) /\ t.key \in 0 .. Mixed
    BY <2>1, ResumedEffect, PendingType DEF TaskType
  <2>3. CASE Become(p, me)
    BY <2>1, <2>2, <2>3, BecomeAlike
  <2>4. CASE Become(p, ResetPage(left)) /\ net' \in Closed(sent, p)
    <3>1. left \in PageType
      BY <2>2 DEF PageType, UIState
    <3>2. page'[p] = ResetPage(left) /\ \A q \in Page \ {p} : page'[q] = page[q]
      BY <2>4, BecomeIs
    <3>3. page'[p].conn = "none" /\ page'[p].view = "pairing"
      BY <3>1, <3>2, Effects
    <3>4. sent \in NetType
      BY <1>a, <2>2, SignalType, SentType DEF Type, Control
    <3>5. net'[p] = <<>>
      BY <2>4, <3>4, ClosedKeeps
    <3>. HIDE DEF me, left, sent
    <3>6. CASE p = "S"
      BY <1>a, <2>1, <3>2, <3>3, <3>6 DEF StepFields
    <3>7. CASE p = "R"
      BY <1>a, <2>1, <3>2, <3>3, <3>5, <3>7 DEF StepFields
    <3>. QED  BY <3>6, <3>7 DEF Page
  <2>. QED  BY <1>3, <2>3, <2>4 DEF FinishCancel
<1>4. ASSUME SignalingCloses PROVE StepFields
  <2>1. /\ page'["R"] \in {page["R"], [page["R"] EXCEPT !.conn = "broken"]}
        /\ \A q \in Page \ {"R"} : page'[q] = page[q]
        /\ page["R"].conn = "open" /\ epoch < MaxEpoch /\ epoch' = epoch
    BY <1>4, <1>a, BecomeIs DEF SignalingCloses
  <2>2. page'["R"].approved = page["R"].approved /\ page'["S"] = page["S"]
    BY <1>a, <2>1 DEF PageType
  <2>. QED  BY <2>1, <2>2 DEF StepFields
<1>5. ASSUME Reconnect PROVE StepFields
  <2> DEFINE me == [page["R"] EXCEPT !.conn = "none", !.keys = 0, !.sentHandshake = FALSE,
                                     !.isCancelled = FALSE]
             connect == Task("connect", Signal("", 0))
  <2>1. me \in PageType /\ me.conn = "none" /\ me.approved = page["R"].approved
    BY <1>a, ZeroInRange DEF PageType
  <2>2. Start(me, connect).conn = "none" /\ Start(me, connect).approved = page["R"].approved
    <3>. HIDE DEF me, connect
    <3>. QED  BY <2>1, Effects DEF Alike
  <2>3. /\ page' = page \/ page'["R"] = Start(me, connect)
        /\ page'["S"] = page["S"] /\ ~timer' /\ epoch' = epoch
    BY <1>5, <1>a, BecomeIs DEF Reconnect
  <2>. HIDE DEF me, connect
  <2>4. /\ page'["R"].approved = page["R"].approved
        /\ page["R"].conn = "none" => page'["R"].conn = "none"
    BY <2>2, <2>3
  <2>. QED  BY <2>3, <2>4 DEF StepFields
<1>6. ASSUME PeerLeft PROVE StepFields
  <2>1. /\ page'["S"] = [page["S"] EXCEPT !.conn = "broken"] /\ page'["R"] = page["R"]
        /\ UNCHANGED <<timer, epoch>>
    BY <1>6, <1>a, <1>u, BecomeIs DEF PeerLeft, Page
  <2>2. page'["S"].view = page["S"].view
    BY <1>a, <2>1 DEF PageType
  <2>. QED  BY <2>1, <2>2 DEF StepFields
<1>7. ASSUME NEW t, NewTransport(t) PROVE StepFields
  <2> DEFINE me == End(page["R"], t)
  <2>1. t \in Pending("R", "connect")
    BY <1>7 DEF NewTransport
  <2>2. me \in PageType /\ Alike(page["R"], me)
    BY <1>a, <2>1, ResumedEffect
  <2>3. /\ page'["R"] = [me EXCEPT !.conn = "connecting"] /\ page'["S"] = page["S"]
        /\ timer' = timer
    BY <1>7, <1>a, BecomeIs DEF NewTransport, Page
  <2>4. page'["R"].approved = page["R"].approved
    <3>. HIDE DEF me
    <3>. QED  BY <2>2, <2>3 DEF Alike, PageType
  <2>. QED  BY <1>7, <2>3, <2>4 DEF StepFields
<1>. QED  BY <1>1, <1>2, <1>3, <1>4, <1>5, <1>6, <1>7

\* What every step does to these fields.
LEMMA StepFieldsOnly ==
  ASSUME Typed, [Next]_vars
  PROVE  StepFields
<1>1. ASSUME NEW p \in Page,
             \/ Open(p) \/ PressCancel(p) \/ PressStartNew(p)
             \/ /\ net[p] # <<>>
                /\ \/ ReceiveHandshake(p, Head(net[p])) /\ Head(net[p]).type = "HANDSHAKE"
                   \/ ReceiveControl(p, Head(net[p])) /\ Head(net[p]).type \in Control
      PROVE  StepFields
  BY <1>1, HandlerFields, ApprovalFields, UserFields
<1>2. ASSUME NEW p \in Page, NEW t,
             \/ DeriveKeys(p, t) \/ SendEncrypted(p, t) \/ DecryptFails(p, t)
             \/ HandleCancel(p, t) \/ FinishCancel(p, t)
      PROVE  StepFields
  BY <1>2, HandlerFields, ApprovalFields, UserFields
<1>3. ASSUME NEW t, \/ MakeChunker(t) \/ SendManifest(t) \/ HandleManifest(t) \/ HandleAccept(t)
                    \/ HandleComplete(t) \/ HandleDownloadAck(t) \/ NewTransport(t)
      PROVE  StepFields
  BY <1>3, HandlerFields, ApprovalFields, UserFields DEF Page
<1>4. ASSUME NEW t, \/ StreamStep(t) \/ SendChunk(t) \/ ReadFails(t)
                    \/ StoreChunk(t) \/ Verify(t) \/ SaveFile(t) \/ FinishFinalization(t)
      PROVE  StepFields
  BY <1>4, HandlerFields, ApprovalFields DEF Page
<1>5. CASE \/ net["R"] # <<>> /\ Head(net["R"]).type = "CHUNK" /\ ReceiveChunk(Head(net["R"]))
           \/ net["S"] # <<>> /\ PeerLeft
           \/ SignalingCloses \/ Reconnect
  BY <1>5, HandlerFields, UserFields DEF Page
<1>6. CASE UNCHANGED vars
  BY <1>6 DEF vars, fileVars, userVars, StepFields
<1>. QED  BY <1>1, <1>2, <1>3, <1>4, <1>5, <1>6, StepCases
------------------------------------------------------------------------------
(* The inductive invariant.  A step starts tasks and sends frames only for the *)
(* reasons above, so each part asks what those reasons are.                    *)

\* Nothing anywhere says that the file has been downloaded.
Untold ==
  /\ page["S"].view # "complete"
  /\ \A q \in Page : /\ \A t \in page[q].tasks : t.type # "DOWNLOAD_ACK"
                     /\ \A frame \in Frames(net[q]) : frame.type # "DOWNLOAD_ACK"

\* What waits to be saved has been verified; until it is, nobody is told.
Saving ==
  /\ \A t \in page["R"].tasks : t.kind = "save" => t.content = "intact"
  /\ saved # "altered"
  /\ saved = "missing" => Untold

\* No acceptance of the transfer has left the receiver, and no loop has started.
Unaccepted ==
  /\ \A t \in page["R"].tasks : t.kind \in {"send", "finish"} => t.type # "ACCEPT"
  /\ \A frame \in Frames(net["S"]) : frame.type # "ACCEPT"
  /\ \A t \in page["S"].tasks : ~Streaming(t) /\ ~Accepting(t)

\* In the first connection there are chunks only for a page that has approved: the
\* others have accepted nothing, or have lost their transport for good.
Gated ==
  epoch = 1 =>
    \/ page["R"].approved
    \/ /\ \A frame \in Frames(net["R"]) : frame.type # "CHUNK"
       /\ page["R"].conn = "none" \/ Unaccepted

SessionInv == Typed /\ Renewing /\ Saving /\ Gated

\* Epochs are counted from 1.
LEMMA EpochRange ==
  /\ 1 \in 1 .. MaxEpoch
  /\ \A n \in 1 .. MaxEpoch : n + 1 # 1 /\ (n < MaxEpoch => n + 1 \in 1 .. MaxEpoch)
<1>1. MaxEpoch \in Nat \ {0}
  BY SessionAssumption
<1>. QED  BY <1>1

\* It holds when the two pages have met.
LEMMA InitInv == Init => SessionInv
<1> SUFFICES ASSUME Init PROVE SessionInv
  OBVIOUS
<1>1. /\ page \in [Page -> PageType]
      /\ \A p \in Page : /\ page[p].tasks = {} /\ page[p].view = "pairing"
                         /\ page[p].conn = "connecting"
  BY ZeroInRange DEF Init, PageType, UIState
<1>2. net \in NetType /\ \A p \in Page : net[p] = <<>>
  <2>1. net = [p \in Page |-> <<>>] /\ \A F : <<>> \in Seq(F)
    BY DEF Init
  <2>. QED  BY <2>1 DEF NetType
<1>3. NoChunks \in [Index -> Content] /\ NoChunker \in ChunkerType
  BY ZeroInRange DEF NoChunks, Content, NoChunker, ChunkerType
<1>4. Typed
  BY <1>1, <1>2, <1>3, ZeroInRange, SessionAssumption DEF Init, Typed, Content
<1>5. \A q \in Page : Frames(net[q]) = {}
  BY <1>2 DEF Frames
<1>6. Renewing
  <2>1. epoch = 1 /\ timer = FALSE /\ page["R"].tasks = {}
    BY <1>1 DEF Init, Page
  <2>. QED  BY <2>1, EpochRange DEF Renewing
<1>. QED  BY <1>1, <1>4, <1>5, <1>6 DEF Init, SessionInv, Saving, Untold, Gated, Unaccepted, Page

\* Key pairs: the timer is the one source of a new transport, and stops for it.
LEMMA RenewingStep ==
  ASSUME Typed, Renewing, [Next]_vars
  PROVE  Renewing'
<1>1. StepAdds /\ StepFields
  BY StepAddsOnly, StepFieldsOnly
<1>2. CASE \E t : NewTransport(t)
  <2>1. PICK t : NewTransport(t)
    BY <1>2
  <2>2. /\ t \in page["R"].tasks /\ t.kind = "connect" /\ epoch' = epoch + 1 /\ timer' = timer
        /\ page'["R"].tasks = page["R"].tasks \ {t}
    <3>1. t \in Pending("R", "connect") /\ "R" \in Page
      BY <2>1 DEF NewTransport, Page
    <3>2. t \in page["R"].tasks /\ t.kind = "connect" /\ page["R"] \in PageType
      BY <3>1, PendingType
    <3>. QED  BY <2>1, <3>1, <3>2 DEF NewTransport, Become, Typed, End, PageType
  <2>3. epoch < MaxEpoch /\ ~timer
    BY <2>2 DEF Renewing
  <2>4. epoch' \in 1 .. MaxEpoch
    BY <2>2, <2>3, EpochRange DEF Renewing
  <2>5. \A u \in page'["R"].tasks : u.kind # "connect"
    BY <2>2 DEF Renewing
  <2>. QED  BY <2>2, <2>3, <2>4, <2>5 DEF Renewing
<1>3. CASE ~\E t : NewTransport(t)
  <2>1. epoch' = epoch /\ (page["R"].conn = "none" => page'["R"].conn = "none")
    BY <1>1, <1>3 DEF StepFields
  <2>2. timer' => timer \/ (page["R"].conn = "open" /\ epoch < MaxEpoch)
    BY <1>1 DEF StepFields
  <2>3. ASSUME NEW t \in page'["R"].tasks, t.kind = "connect"
        PROVE  /\ ~timer' /\ epoch' < MaxEpoch /\ page'["R"].conn = "none"
               /\ t = Task("connect", Signal("", 0))
    <3>1. CASE t \in page["R"].tasks
      BY <2>1, <2>2, <2>3, <3>1 DEF Renewing
    <3>2. CASE t \notin page["R"].tasks
      <4>1. NewTask("R", t)
        BY <1>1, <2>3, <3>2 DEF StepAdds, Started, Page
      <4>2. t = Task("connect", Signal("", 0)) /\ timer /\ ~timer' /\ page'["R"].conn = "none"
        BY <2>3, <4>1 DEF NewTask, Streaming
      <4>. QED  BY <2>1, <4>2 DEF Renewing
    <3>. QED  BY <3>1, <3>2
  <2>. QED  BY <2>1, <2>2, <2>3 DEF Renewing
<1>. QED  BY <1>2, <1>3

\* What a step does to the histories: it downloads what waits to be saved, or it
\* cancels on one page, or it leaves both alone.
SaveStep ==
  /\ \E t \in Pending("R", "save") : saved' = t.content
  /\ UNCHANGED <<net, cancelled>> /\ page'["S"] = page["S"]
CancelStep(p) ==
  /\ cancelled' = cancelled \cup {p} /\ saved' = saved
  /\ Told' => Told

\* A step that adds nothing to what the sender is told.
LEMMA LessTold ==
  ASSUME Typed, Typed', Frames(net'["S"]) \subseteq Frames(net["S"]),
         page'["S"].view \in {page["S"].view, "pairing"},
         \A t \in page'["S"].tasks : t \in page["S"].tasks \/ t.kind # "control"
  PROVE  Told' => Told
<1>1. ASSUME InFlight("S", "DOWNLOAD_ACK")' PROVE InFlight("S", "DOWNLOAD_ACK")
  BY <1>1 DEF InFlight, Frames
<1>. QED  BY <1>1 DEF Told, Pending

\* Resetting a page takes back what was on its way to the sender.
LEMMA ResetTold ==
  ASSUME Typed, Typed', NEW p \in Page, NEW me \in PageType, Reset(p, me),
         me.tasks \subseteq page[p].tasks
  PROVE  Told' => Told
<1>1. page'[p] = ResetPage(me) /\ \A q \in Page \ {p} : page'[q] = page[q]
  BY BecomeIs DEF Reset
<1>2. page'[p].tasks \subseteq page[p].tasks /\ page'[p].view = "pairing"
  BY <1>1, Effects
<1>3. Frames(net'["S"]) \subseteq Frames(net["S"])
  BY QueueEffects DEF Reset, Typed, Page
<1>. QED  BY <1>1, <1>2, <1>3, LessTold DEF Page

\* Every step is one of the three.
LEMMA StepHistory ==
  ASSUME Typed, Typed', [Next]_vars
  PROVE  UNCHANGED <<saved, cancelled>> \/ SaveStep \/ \E p \in Page : CancelStep(p)
<1>u. UNCHANGED fileVars \/ UNCHANGED userVars => UNCHANGED <<saved, cancelled>>
  BY DEF fileVars, userVars
<1>a. "S" \in Page /\ "R" \in Page /\ page["S"] \in PageType /\ page["R"] \in PageType
  BY DEF Typed, Page
<1>1. ASSUME NEW p \in Page, PressCancel(p) PROVE CancelStep(p)
  <2> DEFINE me == [page[p] EXCEPT !.isCancelled = TRUE]
             left == [me EXCEPT !.ui = "CANCELLED"]
             now == SendControl(me, "cancel", "CANCEL")
  <2>1. /\ me \in PageType /\ me.tasks = page[p].tasks /\ me.view = page[p].view
        /\ left \in PageType /\ left.tasks = page[p].tasks
    <3>1. page[p] \in PageType
      BY DEF Typed
    <3>2. me \in PageType /\ me.tasks = page[p].tasks /\ me.view = page[p].view
      BY <3>1 DEF PageType
    <3>. HIDE DEF me
    <3>. QED  BY <3>2 DEF PageType, UIState
  <2>2. CASE me.keys # 0 /\ me.conn # "none"
    <3>1. /\ page'[p] = now /\ UNCHANGED <<net, saved>> /\ cancelled' = cancelled \cup {p}
          /\ \A q \in Page \ {p} : page'[q] = page[q]
      BY <1>1, <2>2, BecomeIs DEF PressCancel
    <3>2. /\ now.view = page[p].view
          /\ now.tasks \subseteq page[p].tasks \cup {Task("cancel", Signal("CANCEL", me.keys))}
      <4>. HIDE DEF me
      <4>. QED  BY <2>1, SendControlEffect DEF Alike
    <3>3. \A t \in now.tasks : t \in page[p].tasks \/ t.kind # "control"
      BY <3>2 DEF Task
    <3>4. Told' => Told
      <4>. HIDE DEF now
      <4>. QED  BY <1>a, <3>1, <3>2, <3>3, LessTold DEF Page
    <3>. QED  BY <3>1, <3>4 DEF CancelStep
  <2>3. CASE ~(me.keys # 0 /\ me.conn # "none")
    <3>1. Reset(p, left) /\ cancelled' = cancelled \cup {p}
      BY <1>1, <2>3 DEF PressCancel
    <3>2. Told' => Told
      BY <2>1, <3>1, ResetTold
    <3>. QED  BY <3>1, <3>2 DEF CancelStep, Reset
  <2>. QED  BY <2>2, <2>3
<1>2. ASSUME NEW p \in Page, NEW t, HandleCancel(p, t) PROVE CancelStep(p)
  <2> DEFINE old == End(page[p], t)
             me == [old EXCEPT !.ui = "CANCELLED"]
  <2>1. t \in Pending(p, "control") /\ Reset(p, me) /\ cancelled' = cancelled \cup {p}
    BY <1>2 DEF HandleCancel
  <2>2. old \in PageType /\ old.tasks \subseteq page[p].tasks
    BY <2>1, ResumedEffect
  <2>3. me \in PageType /\ me.tasks = old.tasks
    BY <2>2 DEF PageType, UIState
  <2>4. Told' => Told
    <3>. HIDE DEF me
    <3>. QED  BY <2>1, <2>2, <2>3, ResetTold
  <2>. QED  BY <2>1, <2>4 DEF CancelStep, Reset
<1>3. ASSUME NEW t, SaveFile(t) PROVE UNCHANGED <<saved, cancelled>> \/ SaveStep
  <2>1. t \in Pending("R", "save") /\ UNCHANGED <<net, cancelled>>
    BY <1>3 DEF SaveFile
  <2>2. page'["S"] = page["S"]
    BY <1>3, <1>a, BecomeIs DEF SaveFile, FinalizeFails, Page
  <2>3. saved' = t.content \/ saved' = saved
    BY <1>3 DEF SaveFile
  <2>. QED  BY <2>1, <2>2, <2>3 DEF SaveStep
<1>4. ASSUME NEW p \in Page,
             \/ Open(p) \/ PressStartNew(p)
             \/ ReceiveHandshake(p, Head(net[p])) \/ ReceiveControl(p, Head(net[p]))
      PROVE  UNCHANGED <<saved, cancelled>>
  BY <1>4, <1>u DEF Open, PressStartNew, Reset, ReceiveHandshake, ReceiveControl
<1>5. ASSUME NEW p \in Page, NEW t,
             DeriveKeys(p, t) \/ SendEncrypted(p, t) \/ DecryptFails(p, t) \/ FinishCancel(p, t)
      PROVE  UNCHANGED <<saved, cancelled>>
  BY <1>5, <1>u DEF DeriveKeys, SendEncrypted, DecryptFails, FinishCancel
<1>6. ASSUME NEW t, \/ MakeChunker(t) \/ SendManifest(t) \/ HandleManifest(t) \/ HandleAccept(t)
                    \/ HandleComplete(t) \/ HandleDownloadAck(t) \/ NewTransport(t)
      PROVE  UNCHANGED <<saved, cancelled>>
  BY <1>6, <1>u DEF MakeChunker, SendManifest, HandleManifest, HandleAccept, HandleComplete,
                    HandleDownloadAck, NewTransport
<1>7. ASSUME NEW t, \/ StreamStep(t) \/ SendChunk(t) \/ ReadFails(t)
                    \/ StoreChunk(t) \/ Verify(t) \/ FinishFinalization(t)
      PROVE  UNCHANGED <<saved, cancelled>>
  BY <1>7, <1>u DEF StreamStep, SendChunk, ReadFails, StoreChunk, Verify, FinishFinalization
<1>8. CASE ReceiveChunk(Head(net["R"])) \/ PeerLeft \/ SignalingCloses \/ Reconnect
  BY <1>8, <1>u DEF ReceiveChunk, PeerLeft, SignalingCloses, Reconnect
<1>9. CASE UNCHANGED vars
  BY <1>9, <1>u DEF vars
<1>. QED  BY <1>1, <1>2, <1>3, <1>4, <1>5, <1>6, <1>7, <1>8, <1>9, StepCases

\* The task of a reconnect is of its own kind, and of no type.
LEMMA ConnectTask ==
  Task("connect", Signal("", 0)).kind = "connect" /\ Task("connect", Signal("", 0)).type = ""
  BY DEF Task, Signal, Frame

\* Only verified content waits to be saved, and only what was saved is acknowledged.
LEMMA SavingStep ==
  ASSUME Typed, Typed', Saving, [Next]_vars
  PROVE  Saving'
<1>1. StepAdds /\ StepFields
  BY StepAddsOnly, StepFieldsOnly
<1>2. /\ saved' = saved \/ saved' = "intact"
      /\ \A u \in Pending("R", "save") : u.content = "intact"
  BY StepHistory DEF SaveStep, CancelStep, Saving, Pending
<1>3. ASSUME NEW t \in page'["R"].tasks, t.kind = "save" PROVE t.content = "intact"
  <2>1. CASE t \in page["R"].tasks
    BY <1>3, <2>1 DEF Saving
  <2>2. CASE t \notin page["R"].tasks
    <3>1. NewTask("R", t)
      BY <1>1, <2>2 DEF StepAdds, Started, Page
    <3>. QED  BY <1>3, <3>1, ConnectTask DEF NewTask, Streaming
  <2>. QED  BY <2>1, <2>2
<1>4. ASSUME saved' = "missing" PROVE Untold'
  <2>1. Untold
    BY <1>2, <1>4 DEF Saving
  <2>2. ASSUME NEW q \in Page, NEW t \in page'[q].tasks PROVE t.type # "DOWNLOAD_ACK"
    <3>1. CASE t \in page[q].tasks
      BY <2>1, <3>1 DEF Untold
    <3>2. CASE t \notin page[q].tasks
      <4>1. NewTask(q, t)
        BY <1>1, <3>2 DEF StepAdds, Started
      <4>2. ~\E u \in Pending("R", "save") : saved' = u.content
        BY <1>2, <1>4
      <4>3. \A frame \in Frames(net[q]) : frame.type # "DOWNLOAD_ACK"
        BY <2>1 DEF Untold
      <4>. QED  BY <4>1, <4>2, <4>3, ConnectTask DEF NewTask
    <3>. QED  BY <3>1, <3>2
  <2>3. ASSUME NEW q \in Page, NEW frame \in Frames(net'[q]) PROVE frame.type # "DOWNLOAD_ACK"
    <3>1. CASE frame \in Frames(net[q])
      BY <2>1, <3>1 DEF Untold
    <3>2. CASE frame \notin Frames(net[q])
      <4>1. NewFrame(q, frame)
        BY <1>1, <3>2 DEF StepAdds, Arriving
      <4>2. \A t \in page[Peer(q)].tasks : t.type # "DOWNLOAD_ACK"
        BY <2>1 DEF Untold, Peer, Page
      <4>. QED  BY <4>1, <4>2 DEF NewFrame
    <3>. QED  BY <3>1, <3>2
  <2>4. page'["S"].view # "complete"
    BY <1>1, <2>1 DEF StepFields, Untold, Page
  <2>. QED  BY <2>2, <2>3, <2>4 DEF Untold
<1>. QED  BY <1>2, <1>3, <1>4 DEF Saving

\* No chunk is sent, in the first connection, to a page that has not approved.
LEMMA GatedStep ==
  ASSUME Typed, Typed', Renewing, Gated, [Next]_vars
  PROVE  Gated'
<1>1. StepAdds /\ StepFields
  BY StepAddsOnly, StepFieldsOnly
<1> SUFFICES ASSUME epoch' = 1, ~page'["R"].approved
             PROVE  /\ \A frame \in Frames(net'["R"]) : frame.type # "CHUNK"
                    /\ page'["R"].conn = "none" \/ Unaccepted'
  BY DEF Gated
<1>2. ~\E t : NewTransport(t)
  BY EpochRange DEF NewTransport, Renewing
<1>3. epoch = 1 /\ (page["R"].conn = "none" => page'["R"].conn = "none")
  BY <1>1, <1>2 DEF StepFields
<1>4. CASE page["R"].approved
  <2>1. page'["R"].conn = "none" /\ net'["R"] = <<>>
    BY <1>1, <1>4 DEF StepFields
  <2>. QED  BY <2>1 DEF Frames
<1>5. CASE ~page["R"].approved
  <2>1. /\ \A frame \in Frames(net["R"]) : frame.type # "CHUNK"
        /\ page["R"].conn = "none" \/ Unaccepted
    BY <1>3, <1>5 DEF Gated
  <2>2. ASSUME NEW frame \in Frames(net'["R"]), frame.type = "CHUNK" PROVE FALSE
    <3>1. NewFrame("R", frame)
      BY <1>1, <2>1, <2>2 DEF StepAdds, Arriving, Page
    <3>2. \A t \in page["S"].tasks : t.kind \in {"send", "finish"} => t.type # "CHUNK"
      BY DEF Typed, PageType, TaskType, Control, Page
    <3>3. page["R"].conn # "none" /\ \E t \in page["S"].tasks : Streaming(t)
      BY <2>2, <3>1, <3>2 DEF NewFrame, Peer
    <3>. QED  BY <2>1, <3>3 DEF Unaccepted
  <2>3. CASE page["R"].conn = "none"
    BY <1>3, <2>2, <2>3
  <2>4. CASE Unaccepted
    <3>1. ASSUME NEW t \in page'["R"].tasks, t.kind \in {"send", "finish"} PROVE t.type # "ACCEPT"
      <4>1. CASE t \in page["R"].tasks
        BY <2>4, <3>1, <4>1 DEF Unaccepted
      <4>2. CASE t \notin page["R"].tasks
        <5>1. NewTask("R", t)
          BY <1>1, <4>2 DEF StepAdds, Started, Page
        <5>. QED  BY <3>1, <5>1, ConnectTask DEF NewTask, Streaming
      <4>. QED  BY <4>1, <4>2
    <3>2. ASSUME NEW frame \in Frames(net'["S"]) PROVE frame.type # "ACCEPT"
      <4>1. CASE frame \in Frames(net["S"])
        BY <2>4, <4>1 DEF Unaccepted
      <4>2. CASE frame \notin Frames(net["S"])
        <5>1. NewFrame("S", frame)
          BY <1>1, <4>2 DEF StepAdds, Arriving, Page
        <5>. QED  BY <2>4, <5>1 DEF NewFrame, Unaccepted, Peer
      <4>. QED  BY <4>1, <4>2
    <3>3. ASSUME NEW t \in page'["S"].tasks PROVE ~Streaming(t) /\ ~Accepting(t)
      <4>1. CASE t \in page["S"].tasks
        BY <2>4, <4>1 DEF Unaccepted
      <4>2. CASE t \notin page["S"].tasks
        <5>1. NewTask("S", t)
          BY <1>1, <4>2 DEF StepAdds, Started, Page
        <5>2. ~Streaming(t)
          BY <2>4, <5>1 DEF NewTask, Unaccepted, Streaming
        <5>3. ~Accepting(t)
          BY <2>4, <5>1 DEF NewTask, Unaccepted, Streaming, Accepting
        <5>. QED  BY <5>2, <5>3
      <4>. QED  BY <4>1, <4>2
    <3>. QED  BY <2>2, <3>1, <3>2, <3>3 DEF Unaccepted
  <2>. QED  BY <2>1, <2>3, <2>4
<1>. QED  BY <1>4, <1>5

\* The inductive invariant.
LEMMA SessionInvariant == Spec => []SessionInv
<1>1. Init => SessionInv
  BY InitInv
<1>2. SessionInv /\ [Next]_vars => SessionInv'
  <2> SUFFICES ASSUME SessionInv, [Next]_vars PROVE SessionInv'
    OBVIOUS
  <2>1. Typed'
    BY TypedStep DEF SessionInv
  <2>2. Renewing'
    BY RenewingStep DEF SessionInv
  <2>3. Saving'
    BY <2>1, SavingStep DEF SessionInv
  <2>4. Gated'
    BY <2>1, GatedStep DEF SessionInv
  <2>. QED  BY <2>1, <2>2, <2>3, <2>4 DEF SessionInv
<1>. QED  BY <1>1, <1>2, PTL DEF Spec
------------------------------------------------------------------------------
(* The first connection.  Three things are passed on from place to place, and  *)
(* are at one place at most: the right to stream (from the receiver's handshake *)
(* over MANIFEST and ACCEPT to the loop), what the receiver derives its keys   *)
(* from (the sender's handshake), and every chunk.                             *)

Chain == [of : {"loop", "keys", "chunk"}, index : Index]

\* Page p has not sent its handshake, and still may.
Unshaken(p) == ~page[p].sentHandshake /\ page[p].conn # "none"

\* The loop has not come to chunk i, and still may.
Unsent(i) == page["S"].conn # "none" /\ chunker.next <= i

\* Where a chain begins ...
Waiting(c) ==
  \/ c.of = "loop" /\ Unshaken("R")
  \/ c.of = "keys" /\ Unshaken("S")
  \/ c.of = "chunk" /\ Unsent(c.index)

\* ... the tasks and frames that carry it on ...
OnTask(c, p, t) ==
  \/ /\ c.of = "loop" /\ p = "S"
     /\ \/ t.kind \in {"derive", "package", "hash"}
        \/ t.kind = "send" /\ t.type = "MANIFEST"
        \/ Accepting(t)
  \/ /\ c.of = "loop" /\ p = "R"
     /\ \/ t.kind = "control" /\ t.type = "MANIFEST"
        \/ t.kind = "send" /\ t.type = "ACCEPT"
  \/ c.of = "keys" /\ p = "R" /\ t.kind = "derive"
  \/ c.of = "chunk" /\ p = "R" /\ t.kind = "chunk" /\ t.index = c.index

OnFrame(c, q, frame) ==
  \/ c.of = "loop" /\ q = "S" /\ frame.type \in {"HANDSHAKE", "ACCEPT"}
  \/ c.of = "loop" /\ q = "R" /\ frame.type = "MANIFEST"
  \/ c.of = "keys" /\ q = "R" /\ frame.type = "HANDSHAKE"
  \/ c.of = "chunk" /\ q = "R" /\ frame.type = "CHUNK" /\ frame.index = c.index

\* ... and where it ends.
Ended(c) ==
  \/ c.of = "loop" /\ \E t \in page["S"].tasks : Streaming(t)
  \/ c.of = "chunk" /\ got[c.index] # "missing"

HasTask(c) == \E p \in Page : \E t \in page[p].tasks : OnTask(c, p, t)
HasFrame(c) == \E q \in Page : \E n \in DOMAIN net[q] : OnFrame(c, q, net[q][n])
Held(c) == Waiting(c) \/ HasTask(c) \/ HasFrame(c)

One(c) ==
  /\ \A p, q \in Page : \A t \in page[p].tasks, u \in page[q].tasks :
       OnTask(c, p, t) /\ OnTask(c, q, u) => p = q /\ t = u
  /\ \A p, q \in Page : \A m \in DOMAIN net[p], n \in DOMAIN net[q] :
       OnFrame(c, p, net[p][m]) /\ OnFrame(c, q, net[q][n]) => p = q /\ m = n
  /\ HasTask(c) => ~HasFrame(c) /\ ~Waiting(c)
  /\ HasFrame(c) => ~Waiting(c)
  /\ Ended(c) => ~Held(c)

Chains == \A c \in Chain : One(c)
OneLoop == \A t, u \in page["S"].tasks : Streaming(t) /\ Streaming(u) => t = u

\* There is one key pair of each page, so one key; and no chunk comes under another.
OneKey ==
  /\ page["S"].keys \in {0, 1} /\ page["R"].keys \in {0, 1} /\ page["S"].peerKey \in {0, 1}
  /\ chunker = NoChunker \/ chunker.key = 1
  /\ asm \in {0, 1}
  /\ \A q \in Page : \A frame \in Frames(net[q]) : frame.type # "PEER_LEFT" => frame.key = 1
  /\ \A p \in Page : \A t \in page[p].tasks :
       t.kind \in {"send", "finish", "cancel", "read", "chunk", "derive"} => t.key = 1
  /\ \A t \in page["S"].tasks : t.kind = "derive" => page["S"].peerKey = 1

\* What the tasks of a page may be about.
Kinds ==
  /\ \A t \in page["S"].tasks : t.kind = "send" => t.type \in {"MANIFEST", "COMPLETE"}
  /\ \A t \in page["R"].tasks : t.kind = "send" => t.type = "ACCEPT"
  /\ \A p \in Page : \A t \in page[p].tasks :
       /\ t.kind # "garbled"
       /\ t.kind = "finish" => t.type \in {"DOWNLOAD_ACK", "CANCEL"}
  /\ \A t \in page["S"].tasks :
       t.kind = "read" /\ page["S"].conn # "none" => t.index = chunker.next /\ chunker.key = 1

Finalization(t) == t.kind \in {"verify", "save"}
Finalizing == saved # "missing" \/ \E t \in page["R"].tasks : Finalization(t)

\* Without keys nothing is received, and without a loop no chunk is sent.
Order ==
  \A c \in Chain :
    Held(c) => /\ c.of = "keys" => page["R"].keys = 0 /\ asm = 0
               /\ c.of = "loop" => \A d \in Chain :
                    d.of = "chunk" => ~HasTask(d) /\ ~HasFrame(d) /\ ~Ended(d)

\* The file is finalized once, when nothing is left to be done for it.
Final ==
  /\ \A t, u \in page["R"].tasks : Finalization(t) /\ Finalization(u) => t = u
  /\ saved # "missing" => \A t \in page["R"].tasks : ~Finalization(t)
  /\ Finalizing => page["R"].ui # "ERROR" /\ \A c \in Chain : ~Held(c)

First == Chains /\ OneLoop /\ OneKey /\ Kinds /\ Order /\ Final
FirstInv == epoch = 1 => First
------------------------------------------------------------------------------
(* What a step of one page does to the chains. *)

\* The queue of page p loses its first s frames, or its end; to that of its peer a
\* frame of new is added, or its end is lost.
Queues(p, s, new) ==
  /\ \A n \in DOMAIN net'[p] : n + s \in DOMAIN net[p] /\ net'[p][n] = net[p][n + s]
  /\ \A n \in DOMAIN net'[Peer(p)] :
       \/ n \in DOMAIN net[Peer(p)] /\ net'[Peer(p)][n] = net[Peer(p)][n]
       \/ n = Len(net'[Peer(p)]) /\ net'[Peer(p)][n] \in new

\* A turn of page p: the tasks in cut are over, those in add are started.
Turn(p, cut, add, s, new) ==
  /\ \A q \in Page \ {p} : page'[q] = page[q]
  /\ page'[p].tasks \subseteq (page[p].tasks \ cut) \cup add
  /\ page'[p].conn # "none" =>
       page[p].conn # "none" /\ (page[p].sentHandshake => page'[p].sentHandshake)
  /\ Queues(p, s, new)

\* A turn sends no handshake twice.
LEMMA LessWaiting ==
  ASSUME NEW c \in Chain, NEW p \in Page, NEW cut, NEW add, NEW s, NEW new,
         Turn(p, cut, add, s, new), c.of = "chunk" => (Unsent(c.index)' => Unsent(c.index))
  PROVE  Waiting(c)' => Waiting(c)
<1>1. \A q \in Page : Unshaken(q)' => Unshaken(q)
  BY DEF Turn, Unshaken
<1>. QED  BY <1>1 DEF Waiting, Page

\* A chain that is not touched, or that loses its place.
LEMMA ChainKept ==
  ASSUME Typed, Typed', NEW c \in Chain, One(c), NEW p \in Page, NEW cut, NEW add,
         NEW s \in {0, 1}, NEW new, Turn(p, cut, add, s, new),
         c.of = "chunk" => (Unsent(c.index)' => Unsent(c.index)),
         \A t \in add : ~OnTask(c, p, t), \A frame \in new : ~OnFrame(c, Peer(p), frame),
         Ended(c)' => Ended(c) \/ ~Held(c)
  PROVE  /\ One(c)' /\ (Held(c)' => Held(c))
         /\ HasTask(c)' => HasTask(c)
         /\ HasFrame(c)' => HasFrame(c)
<1>0. Waiting(c)' => Waiting(c)
  BY LessWaiting
<1>1. /\ \A q \in Page : \A t \in page'[q].tasks : OnTask(c, q, t) => t \in page[q].tasks
      /\ \A n \in DOMAIN net'[p] : OnFrame(c, p, net'[p][n]) =>
           n + s \in DOMAIN net[p] /\ net'[p][n] = net[p][n + s]
      /\ \A n \in DOMAIN net'[Peer(p)] : OnFrame(c, Peer(p), net'[Peer(p)][n]) =>
           n \in DOMAIN net[Peer(p)] /\ net'[Peer(p)][n] = net[Peer(p)][n]
  BY DEF Turn, Queues
<1>n. \A q \in Page : DOMAIN net[q] \subseteq Nat /\ DOMAIN net'[q] \subseteq Nat
  <2>1. \A q \in Page : net[q] \in Seq(FrameType) /\ net'[q] \in Seq(FrameType)
    BY DEF Typed, NetType
  <2>. QED  BY <2>1
<1>p. p \in Page /\ Peer(p) \in Page /\ Page = {p, Peer(p)} /\ p # Peer(p)
  BY DEF Page, Peer
<1>2. HasTask(c)' => HasTask(c)
  BY <1>1 DEF HasTask
<1>3. HasFrame(c)' => HasFrame(c)
  BY <1>1, <1>p DEF HasFrame
<1>4. \A q, r \in Page : \A t \in page'[q].tasks, u \in page'[r].tasks :
        OnTask(c, q, t) /\ OnTask(c, r, u) => q = r /\ t = u
  BY <1>1 DEF One
<1>5. \A q, r \in Page : \A m \in DOMAIN net'[q], n \in DOMAIN net'[r] :
        OnFrame(c, q, net'[q][m]) /\ OnFrame(c, r, net'[r][n]) => q = r /\ m = n
  <2> SUFFICES ASSUME NEW q \in Page, NEW r \in Page,
                      NEW m \in DOMAIN net'[q], NEW n \in DOMAIN net'[r],
                      OnFrame(c, q, net'[q][m]), OnFrame(c, r, net'[r][n])
               PROVE  q = r /\ m = n
    OBVIOUS
  <2> DEFINE a == IF q = p THEN m + s ELSE m
             b == IF r = p THEN n + s ELSE n
  <2>1. /\ a \in DOMAIN net[q] /\ net'[q][m] = net[q][a]
        /\ b \in DOMAIN net[r] /\ net'[r][n] = net[r][b]
    BY <1>1, <1>p
  <2>2. q = r /\ a = b
    BY <2>1 DEF One
  <2>. QED  BY <1>n, <2>2
<1>6. Held(c)' => Held(c)
  BY <1>0, <1>1, <1>2, <1>3 DEF Held
<1>. QED  BY <1>0, <1>2, <1>3, <1>4, <1>5, <1>6 DEF One, Held

\* The place of a chain is a task that is over.
LEMMA TaskOver ==
  ASSUME Typed, Typed', NEW c \in Chain, One(c), NEW p \in Page, NEW t \in page[p].tasks,
         OnTask(c, p, t), NEW add, NEW s \in {0, 1}, NEW new, Turn(p, {t}, add, s, new),
         c.of = "chunk" => (Unsent(c.index)' => Unsent(c.index)),
         \A u \in add : ~OnTask(c, p, u), \A frame \in new : ~OnFrame(c, Peer(p), frame)
  PROVE  One(c)' /\ Held(c) /\ ~Held(c)'
<1>1. HasTask(c) /\ ~HasFrame(c) /\ ~Waiting(c)
  BY DEF HasTask, One
<1>p. p \in Page /\ Peer(p) \in Page /\ Page = {p, Peer(p)} /\ p # Peer(p)
  BY DEF Page, Peer
<1>2. ~HasTask(c)'
  <2>1. \A q \in Page : \A u \in page'[q].tasks : OnTask(c, q, u) =>
          \/ u \in page[q].tasks /\ (q = p => u \notin {t})
          \/ q = p /\ u \in add
    BY DEF Turn
  <2>. QED  BY <2>1 DEF HasTask, One
<1>3. ~HasFrame(c)' /\ ~Waiting(c)'
  <2>0. Waiting(c)' => Waiting(c)
    BY LessWaiting
  <2>1. /\ \A n \in DOMAIN net'[p] : n + s \in DOMAIN net[p] /\ net'[p][n] = net[p][n + s]
        /\ \A n \in DOMAIN net'[Peer(p)] :
              \/ n \in DOMAIN net[Peer(p)] /\ net'[Peer(p)][n] = net[Peer(p)][n]
              \/ n = Len(net'[Peer(p)]) /\ net'[Peer(p)][n] \in new
    BY DEF Turn, Queues
  <2>. QED  BY <1>1, <1>p, <2>0, <2>1 DEF HasFrame
<1>. QED  BY <1>1, <1>2, <1>3 DEF One, Held, HasTask, HasFrame

\* It is a task that is over when the next one starts.
LEMMA TaskToTask ==
  ASSUME Typed, Typed', NEW c \in Chain, One(c), NEW p \in Page, NEW t \in page[p].tasks,
         OnTask(c, p, t), NEW u, NEW s \in {0, 1}, NEW new, Turn(p, {t}, {u}, s, new),
         c.of = "chunk" => (Unsent(c.index)' => Unsent(c.index)),
         \A frame \in new : ~OnFrame(c, Peer(p), frame), Ended(c)' => Ended(c)
  PROVE  One(c)' /\ Held(c)
<1>1. HasTask(c) /\ ~HasFrame(c) /\ ~Waiting(c) /\ ~Ended(c) /\ Held(c)
  BY DEF HasTask, One, Held
<1>p. p \in Page /\ Peer(p) \in Page /\ Page = {p, Peer(p)} /\ p # Peer(p)
  BY DEF Page, Peer
<1>2. \A q \in Page : \A v \in page'[q].tasks : OnTask(c, q, v) => q = p /\ v = u
  <2>1. \A q \in Page : \A v \in page'[q].tasks : OnTask(c, q, v) =>
          \/ v \in page[q].tasks /\ (q = p => v \notin {t})
          \/ q = p /\ v \in {u}
    BY DEF Turn
  <2>. QED  BY <2>1 DEF One
<1>3. ~HasFrame(c)' /\ ~Waiting(c)'
  <2>0. Waiting(c)' => Waiting(c)
    BY LessWaiting
  <2>1. /\ \A n \in DOMAIN net'[p] : n + s \in DOMAIN net[p] /\ net'[p][n] = net[p][n + s]
        /\ \A n \in DOMAIN net'[Peer(p)] :
              \/ n \in DOMAIN net[Peer(p)] /\ net'[Peer(p)][n] = net[Peer(p)][n]
              \/ n = Len(net'[Peer(p)]) /\ net'[Peer(p)][n] \in new
    BY DEF Turn, Queues
  <2>. QED  BY <1>1, <1>p, <2>0, <2>1 DEF HasFrame
<1>4. ~Ended(c)'
  BY <1>1
<1>5. \A q, r \in Page : \A v \in page'[q].tasks, w \in page'[r].tasks :
        OnTask(c, q, v) /\ OnTask(c, r, w) => q = r /\ v = w
  BY <1>2
<1>6. \A q, r \in Page : \A m \in DOMAIN net'[q], n \in DOMAIN net'[r] :
        OnFrame(c, q, net'[q][m]) /\ OnFrame(c, r, net'[r][n]) => q = r /\ m = n
  BY <1>3 DEF HasFrame
<1>. QED  BY <1>1, <1>3, <1>4, <1>5, <1>6 DEF One

\* It is a task that is over when its frame is sent.
LEMMA TaskToFrame ==
  ASSUME Typed, Typed', NEW c \in Chain, One(c), NEW p \in Page, NEW t \in page[p].tasks,
         OnTask(c, p, t), NEW add, NEW frame, Turn(p, {t}, add, 0, {frame}),
         c.of = "chunk" => (Unsent(c.index)' => Unsent(c.index)),
         \A u \in add : ~OnTask(c, p, u), Ended(c)' => Ended(c)
  PROVE  One(c)' /\ Held(c)
<1>1. HasTask(c) /\ ~HasFrame(c) /\ ~Waiting(c) /\ ~Ended(c) /\ Held(c)
  BY DEF HasTask, One, Held
<1>p. p \in Page /\ Peer(p) \in Page /\ Page = {p, Peer(p)} /\ p # Peer(p)
  BY DEF Page, Peer
<1>2. ~HasTask(c)' /\ ~Waiting(c)'
  <2>0. Waiting(c)' => Waiting(c)
    BY LessWaiting
  <2>1. \A q \in Page : \A u \in page'[q].tasks : OnTask(c, q, u) =>
          \/ u \in page[q].tasks /\ (q = p => u \notin {t})
          \/ q = p /\ u \in add
    BY DEF Turn
  <2>. QED  BY <1>1, <2>0, <2>1 DEF HasTask, One
<1>3. \A q \in Page : \A n \in DOMAIN net'[q] : OnFrame(c, q, net'[q][n]) =>
        q = Peer(p) /\ n = Len(net'[q])
  <2>1. /\ \A n \in DOMAIN net'[p] : n + 0 \in DOMAIN net[p] /\ net'[p][n] = net[p][n + 0]
        /\ \A n \in DOMAIN net'[Peer(p)] :
              \/ n \in DOMAIN net[Peer(p)] /\ net'[Peer(p)][n] = net[Peer(p)][n]
              \/ n = Len(net'[Peer(p)]) /\ net'[Peer(p)][n] \in {frame}
    BY DEF Turn, Queues
  <2>. QED  BY <1>1, <1>p, <2>1 DEF HasFrame
<1>5. \A q, r \in Page : \A m \in DOMAIN net'[q], n \in DOMAIN net'[r] :
        OnFrame(c, q, net'[q][m]) /\ OnFrame(c, r, net'[r][n]) => q = r /\ m = n
  BY <1>3
<1>. QED  BY <1>1, <1>2, <1>5 DEF One, Held, HasTask

\* It is a frame that is taken off the queue when its task starts.
LEMMA FrameToTask ==
  ASSUME Typed, Typed', NEW c \in Chain, One(c), NEW p \in Page, net[p] # <<>>,
         NEW head, head = Head(net[p]), OnFrame(c, p, head), NEW u, NEW new, Turn(p, {}, {u}, 1, new),
         c.of = "chunk" => (Unsent(c.index)' => Unsent(c.index)),
         \A frame \in new : ~OnFrame(c, Peer(p), frame), Ended(c)' => Ended(c)
  PROVE  One(c)' /\ Held(c)
<1>p. p \in Page /\ Peer(p) \in Page /\ Page = {p, Peer(p)} /\ p # Peer(p)
  BY DEF Page, Peer
<1>0. net[p] \in Seq(FrameType) /\ net'[p] \in Seq(FrameType)
  BY DEF Typed, NetType
<1>h. 1 \in DOMAIN net[p] /\ OnFrame(c, p, net[p][1])
  BY <1>0
<1>1. HasFrame(c) /\ ~HasTask(c) /\ ~Waiting(c) /\ ~Ended(c) /\ Held(c)
  BY <1>h DEF HasFrame, One, Held
<1>2. \A q \in Page : \A v \in page'[q].tasks : OnTask(c, q, v) => q = p /\ v = u
  <2>1. \A q \in Page : \A v \in page'[q].tasks : v \in page[q].tasks \/ (q = p /\ v \in {u})
    BY DEF Turn
  <2>. QED  BY <1>1, <2>1 DEF HasTask
<1>3. ~HasFrame(c)' /\ ~Waiting(c)'
  <2>0. Waiting(c)' => Waiting(c)
    BY LessWaiting
  <2>1. /\ \A n \in DOMAIN net'[p] : n + 1 \in DOMAIN net[p] /\ net'[p][n] = net[p][n + 1]
        /\ \A n \in DOMAIN net'[Peer(p)] :
              \/ n \in DOMAIN net[Peer(p)] /\ net'[Peer(p)][n] = net[Peer(p)][n]
              \/ n = Len(net'[Peer(p)]) /\ net'[Peer(p)][n] \in new
    BY DEF Turn, Queues
  <2>2. \A n \in DOMAIN net'[p] : n + 1 # 1
    BY <1>0
  <2>. QED  BY <1>1, <1>h, <1>p, <2>0, <2>1, <2>2 DEF HasFrame, One
<1>4. ~Ended(c)'
  BY <1>1
<1>5. \A q, r \in Page : \A v \in page'[q].tasks, w \in page'[r].tasks :
        OnTask(c, q, v) /\ OnTask(c, r, w) => q = r /\ v = w
  BY <1>2
<1>6. \A q, r \in Page : \A m \in DOMAIN net'[q], n \in DOMAIN net'[r] :
        OnFrame(c, q, net'[q][m]) /\ OnFrame(c, r, net'[r][n]) => q = r /\ m = n
  BY <1>3 DEF HasFrame
<1>. QED  BY <1>1, <1>3, <1>4, <1>5, <1>6 DEF One

\* It begins with a frame that is sent.
LEMMA WaitToFrame ==
  ASSUME Typed, Typed', NEW c \in Chain, One(c), Waiting(c), ~Waiting(c)', NEW p \in Page,
         NEW cut, NEW add, NEW s \in {0, 1}, NEW frame, Turn(p, cut, add, s, {frame}),
         \A u \in add : ~OnTask(c, p, u), Ended(c)' => Ended(c)
  PROVE  One(c)' /\ Held(c)
<1>1. ~HasTask(c) /\ ~HasFrame(c) /\ ~Ended(c) /\ Held(c)
  BY DEF One, Held
<1>p. p \in Page /\ Peer(p) \in Page /\ Page = {p, Peer(p)} /\ p # Peer(p)
  BY DEF Page, Peer
<1>2. ~HasTask(c)'
  <2>1. \A q \in Page : \A u \in page'[q].tasks : u \in page[q].tasks \/ (q = p /\ u \in add)
    BY DEF Turn
  <2>. QED  BY <1>1, <2>1 DEF HasTask
<1>3. \A q \in Page : \A n \in DOMAIN net'[q] : OnFrame(c, q, net'[q][n]) =>
        q = Peer(p) /\ n = Len(net'[q])
  <2>1. /\ \A n \in DOMAIN net'[p] : n + s \in DOMAIN net[p] /\ net'[p][n] = net[p][n + s]
        /\ \A n \in DOMAIN net'[Peer(p)] :
              \/ n \in DOMAIN net[Peer(p)] /\ net'[Peer(p)][n] = net[Peer(p)][n]
              \/ n = Len(net'[Peer(p)]) /\ net'[Peer(p)][n] \in {frame}
    BY DEF Turn, Queues
  <2>. QED  BY <1>1, <1>p, <2>1 DEF HasFrame
<1>5. \A q, r \in Page : \A m \in DOMAIN net'[q], n \in DOMAIN net'[r] :
        OnFrame(c, q, net'[q][m]) /\ OnFrame(c, r, net'[r][n]) => q = r /\ m = n
  BY <1>3
<1>. QED  BY <1>1, <1>2, <1>5 DEF One, Held, HasTask

\* The queues when nothing is sent, ...
LEMMA StillQueues ==
  ASSUME Typed, NEW p \in Page, UNCHANGED net, NEW new
  PROVE  Queues(p, 0, new)
<1>1. net[p] \in Seq(FrameType) /\ net[Peer(p)] \in Seq(FrameType)
  BY DEF Typed, NetType, Peer, Page
<1>. QED  BY <1>1 DEF Queues

\* ... a frame is taken, ...
LEMMA TailParts ==
  ASSUME NEW queue \in Seq(FrameType), queue # <<>>
  PROVE  \A n \in DOMAIN Tail(queue) : n + 1 \in DOMAIN queue /\ Tail(queue)[n] = queue[n + 1]
<1>1. /\ DOMAIN Tail(queue) = 1 .. Len(queue) - 1 /\ DOMAIN queue = 1 .. Len(queue)
      /\ Len(queue) \in Nat /\ \A n \in 1 .. Len(queue) - 1 : Tail(queue)[n] = queue[n + 1]
  BY HeadTailProperties
<1>. QED  BY <1>1

\* ... so that its queue loses its head, ...
LEMMA TakenQueues ==
  ASSUME Typed, NEW p \in Page, net[p] # <<>>, net' = [net EXCEPT ![p] = Tail(@)], NEW new
  PROVE  Queues(p, 1, new)
<1>1. /\ net[p] \in Seq(FrameType) /\ net[Peer(p)] \in Seq(FrameType)
      /\ net'[p] = Tail(net[p]) /\ net'[Peer(p)] = net[Peer(p)]
  BY DEF Typed, NetType, Peer, Page
<1>. QED  BY <1>1, TailParts DEF Queues

\* ... or one is sent, ...
LEMMA SentQueues ==
  ASSUME Typed, NEW p \in Page, NEW frame, net' = Sent(net, p, frame)
  PROVE  Queues(p, 0, {frame})
<1>1. /\ net[p] \in Seq(FrameType) /\ net[Peer(p)] \in Seq(FrameType) /\ net'[p] = net[p]
      /\ net'[Peer(p)] \in {net[Peer(p)], Append(net[Peer(p)], frame)}
  BY DEF Sent, Typed, NetType, Peer, Page
<1>2. CASE net'[Peer(p)] = net[Peer(p)]
  BY <1>1, <1>2 DEF Queues
<1>3. CASE net'[Peer(p)] = Append(net[Peer(p)], frame)
  BY <1>1, <1>3 DEF Queues
<1>. QED  BY <1>1, <1>2, <1>3

\* ... or a frame is answered.
LEMMA AppendParts ==
  ASSUME NEW queue \in Seq(FrameType), NEW frame
  PROVE  \A n \in DOMAIN Append(queue, frame) :
           \/ n \in DOMAIN queue /\ Append(queue, frame)[n] = queue[n]
           \/ n = Len(Append(queue, frame)) /\ Append(queue, frame)[n] = frame
  OBVIOUS

\* ... and then a queue loses its head and the other gets the answer.
LEMMA AnsweredQueues ==
  ASSUME Typed, NEW p \in Page, net[p] # <<>>, NEW frame,
         net' = Sent([net EXCEPT ![p] = Tail(@)], p, frame)
  PROVE  Queues(p, 1, {frame})
<1>1. /\ net[p] \in Seq(FrameType) /\ net[Peer(p)] \in Seq(FrameType) /\ net'[p] = Tail(net[p])
      /\ net'[Peer(p)] \in {net[Peer(p)], Append(net[Peer(p)], frame)}
  BY DEF Sent, Typed, NetType, Peer, Page
<1>t. \A n \in DOMAIN net'[p] : n + 1 \in DOMAIN net[p] /\ net'[p][n] = net[p][n + 1]
  BY <1>1, TailParts
<1>2. CASE net'[Peer(p)] = net[Peer(p)]
  BY <1>1, <1>2, <1>t DEF Queues
<1>3. CASE net'[Peer(p)] = Append(net[Peer(p)], frame)
  <2>0. net[Peer(p)] \in Seq(FrameType)
    BY <1>1
  <2>1. \A n \in DOMAIN net'[Peer(p)] :
          \/ n \in DOMAIN net[Peer(p)] /\ net'[Peer(p)][n] = net[Peer(p)][n]
          \/ n = Len(net'[Peer(p)]) /\ net'[Peer(p)][n] \in {frame}
    BY <2>0, <1>3, AppendParts
  <2>. QED  BY <1>t, <2>1 DEF Queues
<1>. QED  BY <1>1, <1>2, <1>3

\* Closing the transport empties a queue and cuts the other short.
LEMMA ClosedParts ==
  ASSUME NEW queues \in NetType, NEW p \in Page, NEW after \in Closed(queues, p)
  PROVE  /\ after[p] = <<>>
         /\ \E n \in 0 .. Len(queues[Peer(p)]) :
              after[Peer(p)] = SubSeq(queues[Peer(p)], 1, n)
<1>1. queues \in [Page -> Seq(FrameType)] /\ Peer(p) \in Page /\ p # Peer(p)
  BY DEF NetType, Peer, Page
<1>. QED  BY <1>1 DEF Closed

\* So a page that closes its transport sends and receives nothing new.
LEMMA ClosedQueues ==
  ASSUME Typed, NEW p \in Page, net' \in Closed(net, p), NEW new
  PROVE  Queues(p, 0, new)
<1>1. PICK n \in 0 .. Len(net[Peer(p)]) :
        net'[p] = <<>> /\ net'[Peer(p)] = SubSeq(net[Peer(p)], 1, n)
  BY ClosedParts DEF Typed
<1>2. net[Peer(p)] \in Seq(FrameType)
  BY DEF Typed, NetType, Peer, Page
<1>. QED  BY <1>1, <1>2 DEF Queues

\* The last frame may be sent just before.
LEMMA LastQueues ==
  ASSUME Typed, NEW p \in Page, NEW frame, NEW sent \in NetType, sent = Sent(net, p, frame),
         net' \in Closed(sent, p)
  PROVE  Queues(p, 0, {frame})
<1>1. PICK n \in 0 .. Len(sent[Peer(p)]) :
        net'[p] = <<>> /\ net'[Peer(p)] = SubSeq(sent[Peer(p)], 1, n)
  BY ClosedParts
<1>2. /\ net[Peer(p)] \in Seq(FrameType) /\ sent[Peer(p)] \in Seq(FrameType)
      /\ sent[Peer(p)] \in {net[Peer(p)], Append(net[Peer(p)], frame)}
  BY DEF Sent, Typed, NetType, Peer, Page
<1>3. CASE sent[Peer(p)] = net[Peer(p)]
  BY <1>1, <1>2, <1>3 DEF Queues
<1>4. CASE sent[Peer(p)] = Append(net[Peer(p)], frame)
  BY <1>1, <1>2, <1>4 DEF Queues
<1>. QED  BY <1>2, <1>3, <1>4

\* What the operators on pages leave alone of the connection and the keys.
Keyed(me, now) ==
  /\ now.conn = me.conn /\ now.sentHandshake = me.sentHandshake
  /\ now.keys = me.keys /\ now.peerKey = me.peerKey

\* Failing, transitions, starting and ending tasks leave them alone; a reset
\* forgets the keys but the peer's.
LEMMA KeyedEffects ==
  ASSUME NEW me \in PageType, NEW task
  PROVE  /\ Keyed(me, Failed(me)) /\ Failed(me).ui = "ERROR"
         /\ \A state : /\ Keyed(me, Go(me, state)) /\ Go(me, state).ui \in {state, "ERROR"}
                       /\ CanGo(me, state) => Go(me, state).ui = state
         /\ ResetPage(me).conn = "none" /\ ResetPage(me).keys = 0
         /\ ResetPage(me).peerKey = me.peerKey /\ ResetPage(me).ui \in {"IDLE", me.ui}
         /\ Keyed(me, Start(me, task)) /\ Start(me, task).ui = me.ui
         /\ Keyed(me, End(me, task)) /\ End(me, task).ui = me.ui
  BY DEF Failed, Go, ResetPage, Start, End, Keyed, PageType

\* So do sending a message, which is under the page's keys, and streaming.
LEMMA KeyedSending ==
  ASSUME NEW me \in PageType
  PROVE  /\ \A kind, action : /\ Keyed(me, SendControl(me, kind, action))
                              /\ SendControl(me, kind, action).ui = me.ui
                              /\ SendControl(me, kind, action).tasks \subseteq me.tasks \cup
                                   (IF me.keys = 0 THEN {} ELSE {Task(kind, Signal(action, me.keys))})
         /\ Keyed(me, Stream(me))
<1>1. \A kind, action : /\ Keyed(me, SendControl(me, kind, action))
                        /\ SendControl(me, kind, action).ui = me.ui
  BY DEF SendControl, Start, Keyed, PageType
<1>2. \A kind, action : SendControl(me, kind, action).tasks \subseteq me.tasks \cup
                                   (IF me.keys = 0 THEN {} ELSE {Task(kind, Signal(action, me.keys))})
  BY DEF SendControl, Start, PageType
<1>3. Keyed(me, Stream(me))
  BY <1>1, KeyedEffects DEF Stream, Keyed
<1>. QED  BY <1>1, <1>2, <1>3

\* Leaving alone is transitive.
LEMMA KeyedTrans ==
  ASSUME NEW a, NEW b, NEW c, Keyed(a, b), Keyed(b, c)
  PROVE  Keyed(a, c)
  BY DEF Keyed
------------------------------------------------------------------------------
(* What a turn must leave alone for each part of First. *)

\* The frames on their way after a turn.
LEMMA TurnFrames ==
  ASSUME NEW p \in Page, NEW cut, NEW add, NEW s, NEW new, Turn(p, cut, add, s, new),
         NEW q \in Page, NEW frame \in Frames(net'[q])
  PROVE  frame \in Frames(net[q]) \/ (q = Peer(p) /\ frame \in new)
<1>1. q = p \/ q = Peer(p)
  BY DEF Page, Peer
<1>. QED  BY <1>1 DEF Turn, Queues, Frames

\* One key: what is started or sent is under it.
LEMMA OneKeyKept ==
  ASSUME Typed, Typed', OneKey, NEW p \in Page, NEW cut, NEW add, NEW s, NEW new,
         Turn(p, cut, add, s, new), page'[p].keys \in {0, 1},
         page'["S"].peerKey = page["S"].peerKey \/ page'["S"].peerKey = 1,
         chunker' \in {chunker, NoChunker} \/ chunker'.key = 1, asm' \in {0, 1},
         \A frame \in new : frame.type # "PEER_LEFT" => frame.key = 1,
         \A t \in add :
           /\ t.kind \in {"send", "finish", "cancel", "read", "chunk", "derive"} => t.key = 1
           /\ p = "S" /\ t.kind = "derive" => page'["S"].peerKey = 1
  PROVE  OneKey'
<1>1. \A q \in Page : \A frame \in Frames(net'[q]) : frame.type # "PEER_LEFT" => frame.key = 1
  BY TurnFrames DEF OneKey
<1>2. \A q \in Page : \A t \in page'[q].tasks : t \in page[q].tasks \/ (q = p /\ t \in add)
  BY DEF Turn
<1>3. \A q \in Page : page'[q].keys \in {0, 1}
  BY DEF Turn, OneKey, Page
<1>4. \A q \in Page : \A t \in page'[q].tasks :
        t.kind \in {"send", "finish", "cancel", "read", "chunk", "derive"} => t.key = 1
  BY <1>2 DEF OneKey
<1>5. \A t \in page'["S"].tasks : t.kind = "derive" => page'["S"].peerKey = 1
  BY <1>2 DEF OneKey, Page
<1>6. page'["S"].peerKey \in {0, 1} /\ (chunker' = NoChunker \/ chunker'.key = 1)
  BY DEF OneKey
<1>. QED  BY <1>1, <1>3, <1>4, <1>5, <1>6 DEF OneKey, Page

\* The kinds of tasks a page may start.
Fits(p, t) ==
  /\ t.kind # "garbled"
  /\ t.kind = "finish" => t.type \in {"DOWNLOAD_ACK", "CANCEL"}
  /\ t.kind = "send" => t.type \in (IF p = "S" THEN {"MANIFEST", "COMPLETE"} ELSE {"ACCEPT"})
  /\ t.kind = "read" /\ p = "S" /\ page'["S"].conn # "none" =>
       t.index = chunker'.next /\ chunker'.key = 1

\* Tasks stay of these kinds if the new ones fit, and the chunk that is being read
\* stays the next one.
LEMMA KindsKept ==
  ASSUME Kinds, NEW p \in Page, NEW cut, NEW add, NEW s, NEW new, Turn(p, cut, add, s, new),
         \A t \in add : Fits(p, t),
         \/ chunker' = chunker \/ page'["S"].conn = "none"
         \/ \A t \in page'["S"].tasks : t.kind # "read"
  PROVE  Kinds'
<1>1. \A q \in Page : \A t \in page'[q].tasks : t \in page[q].tasks \/ (q = p /\ t \in add)
  BY DEF Turn
<1>2. \A q \in Page : page'[q].conn # "none" => page[q].conn # "none"
  BY DEF Turn
<1>3. \A t \in page'["S"].tasks : t.kind = "send" => t.type \in {"MANIFEST", "COMPLETE"}
  BY <1>1 DEF Kinds, Fits, Page
<1>4. \A t \in page'["R"].tasks : t.kind = "send" => t.type = "ACCEPT"
  BY <1>1 DEF Kinds, Fits, Page
<1>5. \A q \in Page : \A t \in page'[q].tasks :
        t.kind # "garbled" /\ (t.kind = "finish" => t.type \in {"DOWNLOAD_ACK", "CANCEL"})
  BY <1>1 DEF Kinds, Fits
<1>6. \A t \in page'["S"].tasks : t.kind = "read" /\ page'["S"].conn # "none" =>
        t.index = chunker'.next /\ chunker'.key = 1
  BY <1>1, <1>2 DEF Kinds, Fits, Page
<1>. QED  BY <1>3, <1>4, <1>5, <1>6 DEF Kinds

\* One loop, unless another one starts.
LEMMA OneLoopKept ==
  ASSUME OneLoop, NEW p \in Page, NEW cut, NEW add, NEW s, NEW new, Turn(p, cut, add, s, new),
         \A t \in add : p = "S" => ~Streaming(t)
  PROVE  OneLoop'
  BY DEF OneLoop, Turn, Page

\* Nothing new is held, and nothing is finalized that was not.
LEMMA FinalKept ==
  ASSUME Final, \A c \in Chain : Held(c)' => Held(c),
         NEW p \in Page, NEW cut, NEW add, NEW s, NEW new, Turn(p, cut, add, s, new),
         \A t \in add : p = "R" => ~Finalization(t), saved' = saved,
         page'["R"].ui = "ERROR" => page["R"].ui = "ERROR" \/ ~Finalizing
  PROVE  Final'
<1>1. \A t \in page'["R"].tasks : Finalization(t) => t \in page["R"].tasks
  BY DEF Turn, Page
<1>2. Finalizing' => Finalizing
  BY <1>1 DEF Finalizing
<1>3. \A t, u \in page'["R"].tasks : Finalization(t) /\ Finalization(u) => t = u
  BY <1>1 DEF Final
<1>4. saved' # "missing" => \A t \in page'["R"].tasks : ~Finalization(t)
  BY <1>1 DEF Final
<1>5. Finalizing' => page'["R"].ui # "ERROR" /\ \A c \in Chain : ~Held(c)'
  BY <1>2 DEF Final
<1>. QED  BY <1>3, <1>4, <1>5 DEF Final

\* A chunk that is on its way, or is stored.
Chunked(d) == d.of = "chunk" /\ (HasTask(d) \/ HasFrame(d) \/ Ended(d))

\* The order stays if no chain is held anew, and a chunk is on its way or stored anew
\* only when the right to stream has been used.
LEMMA OrderKept ==
  ASSUME Order, \A c \in Chain : Held(c)' => Held(c),
         \A c \in Chain : c.of = "keys" /\ Held(c)' =>
           page'["R"].keys \in {0, page["R"].keys} /\ asm' \in {0, asm},
         \A c \in Chain : c.of = "loop" /\ Held(c)' => \A d \in Chain : Chunked(d)' => Chunked(d)
  PROVE  Order'
<1>1. ASSUME NEW c \in Chain, Held(c)', c.of = "keys"
      PROVE  page'["R"].keys = 0 /\ asm' = 0
  BY <1>1 DEF Order
<1>2. ASSUME NEW c \in Chain, Held(c)', c.of = "loop", NEW d \in Chain, d.of = "chunk"
      PROVE  ~HasTask(d)' /\ ~HasFrame(d)' /\ ~Ended(d)'
  <2>1. ~Chunked(d)
    BY <1>2 DEF Order, Chunked
  <2>. QED  BY <1>2, <2>1 DEF Chunked
<1>. QED  BY <1>1, <1>2 DEF Order
------------------------------------------------------------------------------
(* A turn keeps First, if what it starts and sends is in order and the chains   *)
(* that it passes on, those of M, are.                                          *)

\* What is started and sent is under the one key, and fits the page.
Proper(p, add, new) ==
  /\ page'[p].keys \in {0, 1} /\ page'["S"].peerKey \in {page["S"].peerKey, 1}
  /\ asm' \in {0, 1}
  /\ \A frame \in new : frame.type # "PEER_LEFT" => frame.key = 1
  /\ \A t \in add :
       /\ t.kind \in {"send", "finish", "cancel", "read", "chunk", "derive"} => t.key = 1
       /\ p = "S" /\ t.kind = "derive" => page'["S"].peerKey = 1
       /\ Fits(p, t)
  /\ \/ chunker' = chunker
     \/ chunker' = NoChunker /\ page'["S"].conn = "none"
     \/ chunker'.key = 1 /\ \A t \in page'["S"].tasks : t.kind # "read"

\* A turn that does not touch the chain.
Spares(p, add, new, c) ==
  /\ \A t \in add : ~OnTask(c, p, t)
  /\ \A frame \in new : ~OnFrame(c, Peer(p), frame)
  /\ c.of = "chunk" => (Unsent(c.index)' => Unsent(c.index))
  /\ Ended(c)' => Ended(c) \/ ~Held(c)

\* Each chain keeps to one place, and their order, if this holds of those passed on.
LEMMA ChainsKept ==
  ASSUME Typed, Typed', Chains, Order, NEW p \in Page, NEW cut, NEW add, NEW s \in {0, 1},
         NEW new, Turn(p, cut, add, s, new), NEW M,
         \A c \in Chain : c \in M => One(c)' /\ (c.of # "chunk" => Held(c)),
         \A c \in Chain : c \notin M => Spares(p, add, new, c),
         \A c \in Chain : c.of = "keys" /\ Held(c)' =>
           page'["R"].keys \in {0, page["R"].keys} /\ asm' \in {0, asm},
         \/ \A c \in Chain : c.of = "chunk" =>
              /\ Ended(c)' => Ended(c)
              /\ c \in M => (HasTask(c)' => HasTask(c)) /\ (HasFrame(c)' => HasFrame(c))
         \/ \A c \in Chain : c.of = "loop" => ~Held(c)
  PROVE  Chains' /\ Order' /\ \A c \in Chain : Held(c)' => Held(c) \/ (c \in M /\ c.of = "chunk")
<1>1. ASSUME NEW c \in Chain, c \notin M
      PROVE  /\ One(c)' /\ (Held(c)' => Held(c))
             /\ HasTask(c)' => HasTask(c)
             /\ HasFrame(c)' => HasFrame(c)
  BY <1>1, ChainKept DEF Spares, Chains
<1>2. Chains'
  BY <1>1 DEF Chains
<1>3. \A c \in Chain : Held(c)' => Held(c) \/ (c \in M /\ c.of = "chunk")
  BY <1>1
<1>4. ASSUME NEW c \in Chain, Held(c)', c.of = "keys" PROVE page'["R"].keys = 0 /\ asm' = 0
  BY <1>3, <1>4 DEF Order
<1>5. ASSUME NEW c \in Chain, Held(c)', c.of = "loop", NEW d \in Chain, d.of = "chunk"
      PROVE  ~HasTask(d)' /\ ~HasFrame(d)' /\ ~Ended(d)'
  <2>1. Held(c) /\ ~HasTask(d) /\ ~HasFrame(d) /\ ~Ended(d)
    BY <1>3, <1>5 DEF Order
  <2>2. Ended(d)' => Ended(d)
    BY <1>5, <2>1
  <2>3. (HasTask(d)' => HasTask(d)) /\ (HasFrame(d)' => HasFrame(d))
    BY <1>1, <1>5, <2>1
  <2>. QED  BY <2>1, <2>2, <2>3
<1>6. Order'
  BY <1>4, <1>5 DEF Order
<1>. QED  BY <1>2, <1>3, <1>6

\* Where nothing is being finalized, nothing is at risk.
LEMMA FinalIdle ==
  ASSUME ~Finalizing, NEW p \in Page, NEW cut, NEW add, NEW s, NEW new,
         Turn(p, cut, add, s, new), \A t \in add : p = "R" => ~Finalization(t), saved' = saved
  PROVE  Final' /\ ~Finalizing'
<1>1. ~Finalizing'
  BY DEF Finalizing, Turn, Page
<1>. QED  BY <1>1 DEF Final, Finalizing

\* What is being finalized holds no chain.
LEMMA HeldIdle ==
  ASSUME First, NEW c \in Chain, Held(c)
  PROVE  ~Finalizing
  BY DEF First, Final

\* A turn that passes on M.
LEMMA PassedOn ==
  ASSUME Typed, Typed', First, NEW p \in Page, NEW cut, NEW add, NEW s \in {0, 1},
         NEW new, Turn(p, cut, add, s, new), Proper(p, add, new), NEW M,
         \A c \in Chain : c \in M => One(c)' /\ (c.of # "chunk" => Held(c)),
         \A c \in Chain : c \notin M => Spares(p, add, new, c),
         \A c \in Chain : c.of = "keys" /\ Held(c)' =>
           page'["R"].keys \in {0, page["R"].keys} /\ asm' \in {0, asm},
         \/ \A c \in Chain : c.of = "chunk" =>
              /\ Ended(c)' => Ended(c)
              /\ c \in M => (HasTask(c)' => HasTask(c)) /\ (HasFrame(c)' => HasFrame(c))
         \/ \A c \in Chain : c.of = "loop" => ~Held(c),
         Final', OneLoop'
  PROVE  First'
<1>1. Chains' /\ Order'
  BY ChainsKept DEF First
<1>2. OneKey'
  BY OneKeyKept DEF Proper, First
<1>3. Kinds'
  BY KindsKept DEF Proper, First
<1>. QED  BY <1>1, <1>2, <1>3 DEF First

\* Tasks and frames that belong to no chain.
PlainTask(p, t) ==
  \/ t.kind = "finish" /\ t.type \in {"DOWNLOAD_ACK", "CANCEL"} /\ t.key = 1
  \/ t.kind = "cancel" /\ t.key = 1
  \/ t.kind = "connect"
  \/ p = "S" /\ t.kind = "send" /\ t.type = "COMPLETE" /\ t.key = 1
  \/ t.kind = "control" /\ t.type # (IF p = "S" THEN "ACCEPT" ELSE "MANIFEST")
  \/ p = "R" /\ Finalization(t)
PlainFrame(frame) ==
  \/ frame.type = "PEER_LEFT"
  \/ frame.type \in {"CANCEL", "DOWNLOAD_ACK", "COMPLETE"} /\ frame.key = 1

\* What such a turn does to the rest of the page: it may forget the transfer.
PlainRest(p) ==
  /\ page'[p].keys \in {0, page[p].keys} \/ (p = "S" /\ page'[p].keys = 1)
  /\ page'[p].peerKey \in {page[p].peerKey, 1}
  /\ \/ chunker' = chunker
     \/ chunker' = NoChunker /\ page'["S"].conn = "none"
     \/ /\ chunker'.key = 1 /\ chunker'.next = chunker.next + 1
        /\ \A t \in page'["S"].tasks : t.kind # "read"
  /\ asm' \in {0, asm} /\ got' \in {got, NoChunks}

\* Such a turn adds no place to any chain.
LEMMA PlainChains ==
  ASSUME Typed, Typed', First, NEW p \in Page, NEW cut, NEW add, NEW s \in {0, 1},
         NEW new, Turn(p, cut, add, s, new), PlainRest(p),
         \A t \in add : PlainTask(p, t), \A frame \in new : PlainFrame(frame)
  PROVE  (\A c \in Chain : Held(c)' => Held(c)) /\ (Final' => First')
<1>1. \A t \in add : (\A c \in Chain : ~OnTask(c, p, t)) /\ ~Streaming(t)
  BY DEF PlainTask, OnTask, Accepting, Finalization, Streaming, Page
<1>2. \A frame \in new : \A c \in Chain : ~OnFrame(c, Peer(p), frame)
  BY DEF PlainFrame, OnFrame
<1>3. /\ page'["S"].peerKey \in {page["S"].peerKey, 1}
      /\ page'["R"].keys \in {0, page["R"].keys} /\ asm' \in {0, asm}
  BY DEF Turn, PlainRest, Page
<1>4. Proper(p, add, new)
  <2>1. page'[p].keys \in {0, 1} /\ asm' \in {0, 1}
    BY DEF First, OneKey, PlainRest, Page
  <2>2. \A t \in add : Fits(p, t) /\ t.kind # "derive"
    BY DEF PlainTask, Fits, Finalization
  <2>3. \A t \in add : t.kind \in {"send", "finish", "cancel", "read", "chunk", "derive"} => t.key = 1
    BY DEF PlainTask, Finalization
  <2>4. \A frame \in new : frame.type # "PEER_LEFT" => frame.key = 1
    BY DEF PlainFrame
  <2>. QED  BY <1>3, <2>1, <2>2, <2>3, <2>4 DEF Proper, PlainRest
<1>5. \A c \in Chain : /\ Ended(c)' => Ended(c)
                       /\ c.of = "chunk" => (Unsent(c.index)' => Unsent(c.index))
  <2>1. \A t \in page'["S"].tasks : Streaming(t) => t \in page["S"].tasks
    BY <1>1 DEF Turn, Page
  <2>2. \A c \in Chain : got'[c.index] # "missing" => got[c.index] # "missing"
    BY DEF NoChunks, Chain, PlainRest
  <2>3. page'["S"].conn # "none" => page["S"].conn # "none"
    BY DEF Turn, Page
  <2>4. ASSUME NEW c \in Chain, Unsent(c.index)' PROVE Unsent(c.index)
    <3>1. chunker.next \in Nat /\ c.index \in Nat
      BY SessionAssumption DEF Typed, ChunkerType, Chain, Index
    <3>2. chunker.next <= chunker'.next
      BY <2>4, <3>1 DEF PlainRest, Unsent
    <3>3. chunker'.next <= c.index /\ chunker'.next \in Nat
      BY <2>4 DEF Unsent, Typed, ChunkerType
    <3>. QED  BY <2>3, <2>4, <3>1, <3>2, <3>3 DEF Unsent
  <2>. QED  BY <2>1, <2>2, <2>4 DEF Ended
<1>m. PICK M : M = {}
  OBVIOUS
<1>6. /\ \A c \in Chain : c \in M => One(c)' /\ (c.of # "chunk" => Held(c))
      /\ \A c \in Chain : c \notin M => Spares(p, add, new, c)
      /\ \A c \in Chain : c.of = "keys" /\ Held(c)' =>
           page'["R"].keys \in {0, page["R"].keys} /\ asm' \in {0, asm}
      /\ \A c \in Chain : c.of = "chunk" =>
           /\ Ended(c)' => Ended(c)
           /\ c \in M => (HasTask(c)' => HasTask(c)) /\ (HasFrame(c)' => HasFrame(c))
  <2>1. \A c \in Chain : Spares(p, add, new, c)
    BY <1>1, <1>2, <1>5 DEF Spares
  <2>. QED  BY <1>m, <1>3, <1>5, <2>1
<1>7. \A c \in Chain : Held(c)' => Held(c)
  <2>1. \A c \in Chain : Held(c)' => Held(c) \/ (c \in M /\ c.of = "chunk")
    BY <1>6, ChainsKept DEF First
  <2>. QED  BY <1>m, <2>1
<1>8. OneLoop'
  BY <1>1, OneLoopKept DEF First
<1>. QED  BY <1>4, <1>6, <1>7, <1>8, PassedOn

\* A turn of nothing else.
LEMMA PlainTurn ==
  ASSUME Typed, Typed', First, NEW p \in Page, NEW cut, NEW add, NEW s \in {0, 1},
         NEW new, Turn(p, cut, add, s, new), PlainRest(p),
         \A t \in add : PlainTask(p, t) /\ ~Finalization(t),
         \A frame \in new : PlainFrame(frame), saved' = saved,
         p = "R" /\ page'["R"].ui = "ERROR" => page["R"].ui = "ERROR" \/ ~Finalizing
  PROVE  First'
<1>1. (\A c \in Chain : Held(c)' => Held(c)) /\ (Final' => First')
  BY PlainChains
<1>2. page'["R"].ui = "ERROR" => page["R"].ui = "ERROR" \/ ~Finalizing
  BY DEF Turn, Page
<1>. QED  BY <1>1, <1>2, FinalKept DEF First
------------------------------------------------------------------------------
(* The steps that pass nothing on. *)

\* A handler is a turn of its page.
LEMMA TurnOf ==
  ASSUME Typed, NEW p \in Page, NEW me, Become(p, me), NEW cut, NEW add, NEW s, NEW new,
         me.tasks \subseteq (page[p].tasks \ cut) \cup add,
         me.conn # "none" =>
           page[p].conn # "none" /\ (page[p].sentHandshake => me.sentHandshake),
         Queues(p, s, new)
  PROVE  Turn(p, cut, add, s, new) /\ page'[p] = me
  BY BecomeIs DEF Turn

\* Under the one key a message is sent under it.
LEMMA OneSending ==
  ASSUME NEW me \in PageType, me.keys \in {0, 1}, NEW kind, NEW action
  PROVE  /\ Keyed(me, SendControl(me, kind, action)) /\ SendControl(me, kind, action).ui = me.ui
         /\ SendControl(me, kind, action).tasks \subseteq
              me.tasks \cup {Task(kind, Signal(action, 1))}
<1>1. SendControl(me, kind, action).tasks \subseteq me.tasks \cup
        (IF me.keys = 0 THEN {} ELSE {Task(kind, Signal(action, me.keys))})
  BY KeyedSending
<1>. QED  BY <1>1, KeyedSending

\* What such a message is.
LEMMA SignalParts ==
  ASSUME NEW kind, NEW type, NEW key
  PROVE  /\ Signal(type, key).type = type /\ Signal(type, key).key = key
         /\ Task(kind, Signal(type, key)).kind = kind
         /\ Task(kind, Signal(type, key)).type = type
         /\ Task(kind, Signal(type, key)).key = key
         /\ \A frame : /\ Task(kind, frame).kind = kind /\ Task(kind, frame).type = frame.type
                       /\ Task(kind, frame).index = frame.index
                       /\ Task(kind, frame).content = frame.content
                       /\ Task(kind, frame).key = frame.key
  BY DEF Signal, Frame, Task

\* A step that ends a task, if any, and leaves the variables of the file alone.
LEMMA QuietTurn ==
  ASSUME Typed, Typed', First, NEW p \in Page, NEW cut, NEW add, NEW s \in {0, 1}, NEW new,
         Turn(p, cut, add, s, new), \A t \in add : PlainTask(p, t) /\ ~Finalization(t),
         \A frame \in new : PlainFrame(frame),
         page'[p].keys \in {0, page[p].keys} \/ (p = "S" /\ page'[p].keys = 1),
         page'[p].peerKey \in {page[p].peerKey, 1},
         UNCHANGED <<chunker, asm, got, saved>>,
         p = "R" /\ page'["R"].ui = "ERROR" => page["R"].ui = "ERROR" \/ ~Finalizing
  PROVE  First'
<1>1. PlainRest(p)
  BY DEF PlainRest
<1>. QED  BY <1>1, PlainTurn

\* A reset of a page that is not in error.
LEMMA ResetFirst ==
  ASSUME Typed, Typed', First, NEW p \in Page, NEW me \in PageType, Reset(p, me),
         me.tasks \subseteq page[p].tasks, me.peerKey = page[p].peerKey,
         me.ui = "ERROR" => page[p].ui = "ERROR"
  PROVE  First'
<1>1. page'[p] = ResetPage(me) /\ Become(p, ResetPage(me))
  BY BecomeIs DEF Reset
<1>2. /\ ResetPage(me).tasks = me.tasks /\ ResetPage(me).conn = "none"
      /\ ResetPage(me).keys = 0 /\ ResetPage(me).peerKey = me.peerKey
      /\ ResetPage(me).ui \in {"IDLE", me.ui}
  BY Effects, KeyedEffects
<1>3. Queues(p, 0, {})
  BY ClosedQueues DEF Reset
<1>4. Turn(p, {}, {}, 0, {})
  BY <1>1, <1>2, <1>3, TurnOf
<1>5. PlainRest(p) /\ saved' = saved
  BY <1>1, <1>2 DEF PlainRest, Reset, ForgetTransfer, DropReassembler, asmVars, Page
<1>. QED  BY <1>1, <1>2, <1>4, <1>5, PlainTurn

\* COMPLETE, DOWNLOAD_ACK and CANCEL arrive.
LEMMA EndingFirst ==
  ASSUME Typed, Typed', First, NEW p \in Page, NEW t
  PROVE  /\ HandleComplete(t) => First'
         /\ HandleDownloadAck(t) => First'
         /\ HandleCancel(p, t) => First'
         /\ ReadFails(t) => First'
<1>a. page["S"] \in PageType /\ page["R"] \in PageType /\ page[p] \in PageType
      /\ "S" \in Page /\ "R" \in Page
  BY DEF Typed, Page
<1>b. (Queues("S", 0, {}) /\ Queues("R", 0, {})) \/ ~UNCHANGED net
  BY <1>a, StillQueues
<1>1. ASSUME HandleComplete(t) PROVE First'
  <2>1. /\ Become("R", End(page["R"], t)) /\ Queues("R", 0, {})
        /\ UNCHANGED <<chunker, asm, got, saved>>
    BY <1>1, <1>b DEF HandleComplete, fileVars, asmVars, userVars
  <2>2. /\ End(page["R"], t).tasks \subseteq (page["R"].tasks \ {t}) \cup {}
        /\ Keyed(page["R"], End(page["R"], t)) /\ End(page["R"], t).ui = page["R"].ui
    BY <1>a, Effects, KeyedEffects
  <2>3. Turn("R", {t}, {}, 0, {}) /\ page'["R"] = End(page["R"], t)
    BY <1>a, <2>1, <2>2, TurnOf DEF Keyed
  <2>. QED  BY <1>a, <2>1, <2>2, <2>3, QuietTurn DEF Keyed
<1>2. ASSUME HandleDownloadAck(t) PROVE First'
  <2> DEFINE now == Go(End(page["S"], t), "COMPLETED")
             me == IF now.ui = "ERROR" THEN now ELSE [now EXCEPT !.view = "complete"]
  <2>1. /\ Become("S", me) /\ Queues("S", 0, {}) /\ UNCHANGED <<chunker, asm, got, saved>>
    BY <1>2, <1>b DEF HandleDownloadAck, fileVars, asmVars, userVars
  <2>2. End(page["S"], t) \in PageType
    BY <1>2, <1>a, PendingType DEF HandleDownloadAck
  <2>3. now \in PageType /\ now.tasks = page["S"].tasks \ {t} /\ Keyed(page["S"], now)
    <3>1. now \in PageType /\ now.tasks = End(page["S"], t).tasks /\ Keyed(End(page["S"], t), now)
      BY <2>2, GoType, Effects, KeyedEffects DEF UIState
    <3>2. End(page["S"], t).tasks = page["S"].tasks \ {t} /\ Keyed(page["S"], End(page["S"], t))
      BY <1>a, Effects, KeyedEffects
    <3>. QED  BY <3>1, <3>2, KeyedTrans
  <2>4. me.tasks \subseteq (page["S"].tasks \ {t}) \cup {} /\ Keyed(page["S"], me)
    BY <2>3 DEF PageType, Keyed
  <2> HIDE DEF me
  <2>5. Turn("S", {t}, {}, 0, {}) /\ page'["S"] = me
    BY <1>a, <2>1, <2>4, TurnOf DEF Keyed
  <2>. QED  BY <1>a, <2>1, <2>4, <2>5, QuietTurn DEF Keyed
<1>3. ASSUME HandleCancel(p, t) PROVE First'
  <2> DEFINE me == [End(page[p], t) EXCEPT !.ui = "CANCELLED"]
  <2>1. End(page[p], t) \in PageType
    BY <1>3, PendingType DEF HandleCancel
  <2>2. /\ me \in PageType /\ me.tasks = End(page[p], t).tasks
        /\ me.peerKey = End(page[p], t).peerKey /\ me.ui = "CANCELLED"
    BY <2>1 DEF PageType, UIState
  <2>3. End(page[p], t).tasks \subseteq page[p].tasks /\ End(page[p], t).peerKey = page[p].peerKey
    BY <1>a DEF End, PageType
  <2>. QED  BY <1>3, <2>2, <2>3, ResetFirst DEF HandleCancel
<1>4. ASSUME ReadFails(t) PROVE First'
  <2> DEFINE me == Failed(End(page["S"], t))
  <2>1. /\ Become("S", me) /\ Queues("S", 0, {}) /\ UNCHANGED <<chunker, asm, got, saved>>
    BY <1>4, <1>b DEF ReadFails, fileVars, asmVars, userVars
  <2>2. End(page["S"], t) \in PageType
    BY <1>4, <1>a, PendingType DEF ReadFails
  <2>3. me.tasks \subseteq (page["S"].tasks \ {t}) \cup {} /\ Keyed(page["S"], me)
    BY <1>a, <2>2, Effects, KeyedEffects, KeyedTrans
  <2>4. Turn("S", {t}, {}, 0, {}) /\ page'["S"] = me
    BY <1>a, <2>1, <2>3, TurnOf DEF Keyed
  <2>. QED  BY <1>a, <2>1, <2>3, <2>4, QuietTurn DEF Keyed
<1>. QED  BY <1>1, <1>2, <1>3, <1>4

\* A relayed transport that has closed tells the peer so.
LEMMA LeftQueues ==
  ASSUME Typed, NEW p \in Page, NEW frame, NEW queues \in Closed(net, p),
         net' = [queues EXCEPT ![Peer(p)] = Append(@, frame)]
  PROVE  Queues(p, 0, {frame})
<1>0. net \in NetType /\ Peer(p) \in Page /\ p # Peer(p)
  BY DEF Typed, Peer, Page
<1>1. PICK n \in 0 .. Len(net[Peer(p)]) :
        queues[p] = <<>> /\ queues[Peer(p)] = SubSeq(net[Peer(p)], 1, n)
  BY <1>0, ClosedParts
<1>2. queues \in [Page -> Seq(FrameType)]
  BY <1>0, ClosedKeeps
<1>3. net'[p] = <<>> /\ net'[Peer(p)] = Append(SubSeq(net[Peer(p)], 1, n), frame)
  BY <1>0, <1>1, <1>2
<1>4. net[Peer(p)] \in Seq(FrameType) /\ SubSeq(net[Peer(p)], 1, n) \in Seq(FrameType)
  BY <1>0, <1>1, <1>2 DEF NetType
<1>5. \A m \in DOMAIN SubSeq(net[Peer(p)], 1, n) :
        m \in DOMAIN net[Peer(p)] /\ SubSeq(net[Peer(p)], 1, n)[m] = net[Peer(p)][m]
  BY <1>4
<1>6. \A m \in DOMAIN net'[Peer(p)] :
        \/ m \in DOMAIN net[Peer(p)] /\ net'[Peer(p)][m] = net[Peer(p)][m]
        \/ m = Len(net'[Peer(p)]) /\ net'[Peer(p)][m] \in {frame}
  BY <1>3, <1>4, <1>5, AppendParts
<1>. QED  BY <1>3, <1>6 DEF Queues

\* The messages that belong to no chain.
LEMMA PlainSignals ==
  ASSUME NEW p
  PROVE  /\ \A type \in {"DOWNLOAD_ACK", "CANCEL"} :
              /\ PlainTask(p, Task("finish", Signal(type, 1)))
              /\ ~Finalization(Task("finish", Signal(type, 1)))
              /\ PlainFrame(Signal(type, 1))
         /\ PlainTask(p, Task("cancel", Signal("CANCEL", 1)))
         /\ ~Finalization(Task("cancel", Signal("CANCEL", 1)))
         /\ PlainTask(p, Task("connect", Signal("", 0)))
         /\ ~Finalization(Task("connect", Signal("", 0)))
         /\ PlainFrame(Signal("PEER_LEFT", 0))
<1>1. ASSUME NEW type \in {"DOWNLOAD_ACK", "CANCEL"}
      PROVE  /\ PlainTask(p, Task("finish", Signal(type, 1)))
             /\ ~Finalization(Task("finish", Signal(type, 1)))
             /\ PlainFrame(Signal(type, 1))
  BY DEF PlainTask, PlainFrame, Finalization, Task, Signal, Frame
<1>2. /\ PlainTask(p, Task("cancel", Signal("CANCEL", 1)))
      /\ ~Finalization(Task("cancel", Signal("CANCEL", 1)))
      /\ PlainTask(p, Task("connect", Signal("", 0)))
      /\ ~Finalization(Task("connect", Signal("", 0)))
  BY DEF PlainTask, Finalization, Task, Signal, Frame
<1>3. PlainFrame(Signal("PEER_LEFT", 0))
  BY DEF PlainFrame, Signal, Frame
<1>. QED  BY <1>1, <1>2, <1>3

\* The Cancel button and "Start New Transfer".
LEMMA CancellingFirst ==
  ASSUME Typed, Typed', First, NEW p \in Page
  PROVE  /\ PressCancel(p) => First'
         /\ \A t : FinishCancel(p, t) => First'
         /\ PressStartNew(p) => First'
<1>a. page[p] \in PageType
  BY DEF Typed
<1>1. ASSUME PressCancel(p) PROVE First'
  <2> DEFINE me == [page[p] EXCEPT !.isCancelled = TRUE]
             now == SendControl(me, "cancel", "CANCEL")
             task == Task("cancel", Signal("CANCEL", 1))
             gone == [me EXCEPT !.ui = "CANCELLED"]
  <2>1. /\ me \in PageType /\ me.tasks = page[p].tasks /\ Keyed(page[p], me) /\ me.ui = page[p].ui
        /\ gone \in PageType /\ gone.tasks = page[p].tasks
        /\ gone.peerKey = page[p].peerKey /\ gone.ui = "CANCELLED"
    BY <1>a DEF PageType, UIState, Keyed
  <2>2. CASE me.keys # 0 /\ me.conn # "none"
    <3> HIDE DEF me
    <3>1. me.keys \in {0, 1}
      BY <2>1 DEF First, OneKey, Keyed, Page
    <3>2. /\ now.tasks \subseteq (page[p].tasks \ {}) \cup {task}
          /\ Keyed(page[p], now) /\ now.ui = page[p].ui
      BY <2>1, <3>1, OneSending, KeyedTrans
    <3>3. Become(p, now) /\ UNCHANGED <<net, chunker, asm, got, saved>>
      BY <1>1, <2>2 DEF PressCancel, asmVars, me
    <3>4. PlainTask(p, task) /\ ~Finalization(task)
      BY PlainSignals
    <3>5. Queues(p, 0, {})
      BY <3>3, StillQueues
    <3> HIDE DEF now, task
    <3>6. Turn(p, {}, {task}, 0, {}) /\ page'[p] = now
      BY <3>2, <3>3, <3>5, TurnOf DEF Keyed
    <3>7. /\ page'[p].keys = page[p].keys /\ page'[p].peerKey = page[p].peerKey
          /\ page'[p].ui = page[p].ui /\ UNCHANGED <<chunker, asm, got, saved>>
      BY <3>2, <3>3, <3>6 DEF Keyed
    <3>. QED  BY <3>4, <3>6, <3>7, QuietTurn
  <2>3. CASE ~(me.keys # 0 /\ me.conn # "none")
    <3>1. Reset(p, gone)
      BY <1>1, <2>3 DEF PressCancel
    <3>. QED  BY <2>1, <3>1, ResetFirst
  <2>. QED  BY <2>2, <2>3
<1>2. ASSUME NEW t, FinishCancel(p, t) PROVE First'
  <2> DEFINE me == End(page[p], t)
             gone == [me EXCEPT !.ui = "CANCELLED"]
             frame == Signal("CANCEL", t.key)
  <2>1. t \in Pending(p, "cancel") /\ t \in page[p].tasks /\ t.kind = "cancel" /\ me \in PageType
    BY <1>2, PendingType DEF FinishCancel
  <2>2. t.key = 1 /\ PlainFrame(frame)
    <3>1. t.key = 1
      BY <2>1 DEF First, OneKey
    <3>. QED  BY <3>1, PlainSignals
  <2>3. me.tasks = page[p].tasks \ {t} /\ Keyed(page[p], me) /\ me.ui = page[p].ui
    BY <1>a, Effects, KeyedEffects
  <2>4. /\ gone \in PageType /\ gone.tasks = me.tasks
        /\ gone.peerKey = me.peerKey /\ gone.ui = "CANCELLED"
    BY <2>1 DEF PageType, UIState
  <2>5. saved' = saved
    BY <1>2 DEF FinishCancel, userVars
  <2>6. CASE MayThrow(p) /\ Become(p, me) /\ UNCHANGED <<net, chunker, asmVars>>
    <3>1. Queues(p, 0, {})
      BY <2>6, StillQueues
    <3>2. Turn(p, {t}, {}, 0, {}) /\ page'[p] = me
      BY <2>3, <2>6, <3>1, TurnOf DEF Keyed
    <3>. QED  BY <2>3, <2>5, <2>6, <3>2, QuietTurn DEF Keyed, asmVars
  <2>7. CASE /\ Become(p, ResetPage(gone)) /\ ForgetTransfer(p)
             /\ net' \in Closed(Sent(net, p, frame), p)
    <3>1. /\ ResetPage(gone).tasks = gone.tasks /\ ResetPage(gone).conn = "none"
          /\ ResetPage(gone).keys = 0 /\ ResetPage(gone).peerKey = gone.peerKey
          /\ ResetPage(gone).ui \in {"IDLE", gone.ui}
      BY <2>4, Effects, KeyedEffects
    <3>2. frame \in FramesFor(Peer(p))
      <4>1. t.key \in 0 .. Mixed /\ "CANCEL" \in Type /\ "CANCEL" \in Control
        BY <2>1, <1>a DEF PageType, TaskType, Type, Control
      <4>. QED  BY <4>1, SignalType
    <3>3. Sent(net, p, frame) \in NetType
      BY <3>2, SentType DEF Typed
    <3>4. Queues(p, 0, {frame})
      BY <2>7, <3>3, LastQueues
    <3> HIDE DEF frame, gone, me
    <3>5. Turn(p, {t}, {}, 0, {frame}) /\ page'[p] = ResetPage(gone)
      BY <2>3, <2>4, <2>7, <3>1, <3>4, TurnOf
    <3>6. PlainRest(p)
      BY <2>3, <2>4, <2>7, <3>1, <3>5
         DEF PlainRest, ForgetTransfer, DropReassembler, asmVars, Page, Keyed
    <3>. QED  BY <2>2, <2>4, <2>5, <3>1, <3>5, <3>6, PlainTurn
  <2>. QED  BY <1>2, <2>6, <2>7 DEF FinishCancel
<1>3. ASSUME PressStartNew(p) PROVE First'
  BY <1>3, <1>a, ResetFirst DEF PressStartNew
<1>. QED  BY <1>1, <1>2, <1>3

\* Reconnecting, up to the new transport.
LEMMA LeavingFirst ==
  ASSUME Typed, Typed', First
  PROVE  /\ SignalingCloses => First'
         /\ net["S"] # <<>> /\ page["S"].conn # "none" /\ PeerLeft => First'
         /\ Reconnect => First'
<1>a. page["R"] \in PageType /\ page["S"] \in PageType /\ "R" \in Page /\ "S" \in Page
      /\ Peer("R") = "S"
  BY DEF Typed, Page, Peer
<1>1. ASSUME SignalingCloses PROVE First'
  <2> DEFINE me == IF relay THEN [page["R"] EXCEPT !.conn = "broken"] ELSE page["R"]
             frame == Signal("PEER_LEFT", 0)
  <2>1. /\ Become("R", me) /\ page["R"].conn = "open" /\ UNCHANGED <<chunker, asm, got, saved>>
    BY <1>1 DEF SignalingCloses, asmVars
  <2>2. /\ me.tasks \subseteq (page["R"].tasks \ {}) \cup {}
        /\ me.sentHandshake = page["R"].sentHandshake /\ me.ui = page["R"].ui
        /\ me.keys = page["R"].keys /\ me.peerKey = page["R"].peerKey
    BY <1>a DEF PageType
  <2>3. Queues("R", 0, {frame})
    <3>1. CASE relay
      <4>1. PICK queues \in Closed(net, "R") :
              net' = [queues EXCEPT !["S"] = Append(@, frame)]
        BY <1>1, <3>1 DEF SignalingCloses
      <4>. QED  BY <1>a, <4>1, LeftQueues
    <3>2. CASE ~relay
      BY <1>1, <1>a, <3>2, StillQueues DEF SignalingCloses
    <3>. QED  BY <3>1, <3>2
  <2>4. PlainFrame(frame)
    BY PlainSignals
  <2> HIDE DEF me, frame
  <2>5. Turn("R", {}, {}, 0, {frame}) /\ page'["R"] = me
    BY <1>a, <2>1, <2>2, <2>3, TurnOf
  <2>. QED  BY <1>a, <2>1, <2>2, <2>4, <2>5, QuietTurn
<1>2. ASSUME net["S"] # <<>>, page["S"].conn # "none", PeerLeft PROVE First'
  <2> DEFINE me == [page["S"] EXCEPT !.conn = "broken"]
  <2>1. Become("S", me) /\ UNCHANGED <<chunker, asm, got, saved>>
    BY <1>2 DEF PeerLeft, fileVars, asmVars, userVars
  <2>2. /\ me.tasks \subseteq (page["S"].tasks \ {}) \cup {}
        /\ me.sentHandshake = page["S"].sentHandshake /\ me.ui = page["S"].ui
        /\ me.keys = page["S"].keys /\ me.peerKey = page["S"].peerKey
    BY <1>a DEF PageType
  <2>3. Queues("S", 1, {})
    BY <1>2, <1>a, TakenQueues DEF PeerLeft
  <2> HIDE DEF me
  <2>4. Turn("S", {}, {}, 1, {}) /\ page'["S"] = me
    BY <1>2, <1>a, <2>1, <2>2, <2>3, TurnOf
  <2>. QED  BY <1>a, <2>1, <2>2, <2>4, QuietTurn
<1>3. ASSUME Reconnect PROVE First'
  <2>1. CASE ~MayReconnect(page["R"])
    <3>1. page' = page /\ UNCHANGED <<net, chunker, asm, got, saved>>
      BY <1>3, <2>1 DEF Reconnect
    <3>2. Turn("R", {}, {}, 0, {})
      BY <1>a, <3>1, StillQueues DEF Turn
    <3>. QED  BY <1>a, <3>1, <3>2, QuietTurn
  <2>2. CASE MayReconnect(page["R"])
    <3> DEFINE me == [page["R"] EXCEPT !.conn = "none", !.keys = 0, !.sentHandshake = FALSE,
                                       !.isCancelled = FALSE]
               task == Task("connect", Signal("", 0))
               now == Start(me, task)
    <3>1. /\ me \in PageType /\ me.tasks = page["R"].tasks /\ me.conn = "none" /\ me.keys = 0
          /\ me.peerKey = page["R"].peerKey /\ me.ui = page["R"].ui
      BY <1>a, ZeroInRange DEF PageType
    <3> HIDE DEF me
    <3>2. /\ now.tasks \subseteq (page["R"].tasks \ {}) \cup {task} /\ now.conn = "none"
          /\ now.keys = 0 /\ now.peerKey = page["R"].peerKey /\ now.ui = page["R"].ui
      <4> HIDE DEF task
      <4>1. now.tasks = me.tasks \cup {task}
        BY <3>1, Effects
      <4>2. Keyed(me, now) /\ now.ui = me.ui
        BY <3>1, KeyedEffects
      <4>. QED  BY <3>1, <4>1, <4>2 DEF Keyed
    <3>3. Become("R", now) /\ DropReassembler /\ UNCHANGED <<chunker, saved>>
      BY <1>3, <2>2 DEF Reconnect, me
    <3>4. Queues("R", 0, {})
      BY <1>3, <2>2, <1>a, StillQueues, ClosedQueues DEF Reconnect
    <3> HIDE DEF now, task
    <3>5. Turn("R", {}, {task}, 0, {}) /\ page'["R"] = now
      BY <1>a, <3>2, <3>3, <3>4, TurnOf
    <3>6. PlainRest("R")
      BY <3>2, <3>3, <3>5 DEF PlainRest, DropReassembler
    <3>7. PlainTask("R", task) /\ ~Finalization(task)
      BY PlainSignals DEF task
    <3>. QED  BY <1>a, <3>2, <3>3, <3>5, <3>6, <3>7, PlainTurn
  <2>. QED  BY <2>1, <2>2
<1>. QED  BY <1>1, <1>2, <1>3
------------------------------------------------------------------------------
(* The steps that pass on the right to stream, or the sender's handshake. *)

\* A turn that passes on some chains, and leaves the others alone.
LEMMA MovedChains ==
  ASSUME Typed, Typed', First, NEW p \in Page, NEW cut, NEW add, NEW s \in {0, 1},
         NEW new, Turn(p, cut, add, s, new), Proper(p, add, new), OneLoop',
         UNCHANGED chunker, got' \in {got, NoChunks},
         \A c \in Chain : c.of = "keys" /\ Held(c)' =>
           page'["R"].keys \in {0, page["R"].keys} /\ asm' \in {0, asm},
         \A c \in Chain :
           \/ c.of # "chunk" /\ One(c)' /\ Held(c)
           \/ /\ \A t \in add : ~OnTask(c, p, t)
              /\ \A frame \in new : ~OnFrame(c, Peer(p), frame)
              /\ c.of = "loop" /\ Ended(c)' => Ended(c)
  PROVE  (\A c \in Chain : Held(c)' => Held(c)) /\ (Final' => First')
<1>1. PICK M : M = {c \in Chain : c.of # "chunk" /\ One(c)' /\ Held(c)}
  OBVIOUS
<1>2. \A c \in Chain : c.of = "chunk" => (Ended(c)' => Ended(c)) /\ c \notin M
  <2>1. \A c \in Chain : got'[c.index] # "missing" => got[c.index] # "missing"
    BY DEF NoChunks, Chain
  <2>. QED  BY <1>1, <2>1 DEF Ended
<1>3. \A i : Unsent(i)' => Unsent(i)
  BY DEF Unsent, Turn, Page
<1>4. \A c \in Chain : c \notin M => Spares(p, add, new, c)
  <2>1. ASSUME NEW c \in Chain, c \notin M PROVE Ended(c)' => Ended(c)
    BY <1>1, <1>2, <2>1 DEF Chain, Ended
  <2>2. ASSUME NEW c \in Chain, c \notin M
        PROVE  /\ \A t \in add : ~OnTask(c, p, t)
               /\ \A frame \in new : ~OnFrame(c, Peer(p), frame)
    BY <1>1, <2>2
  <2>. QED  BY <1>3, <2>1, <2>2 DEF Spares
<1>5. /\ \A c \in Chain : c \in M => One(c)' /\ (c.of # "chunk" => Held(c))
      /\ \A c \in Chain : c.of = "chunk" =>
           /\ Ended(c)' => Ended(c)
           /\ c \in M => (HasTask(c)' => HasTask(c)) /\ (HasFrame(c)' => HasFrame(c))
  BY <1>1, <1>2
<1>6. \A c \in Chain : Held(c)' => Held(c)
  <2>1. \A c \in Chain : Held(c)' => Held(c) \/ (c \in M /\ c.of = "chunk")
    BY <1>4, <1>5, ChainsKept DEF First
  <2>. QED  BY <1>2, <2>1
<1>. QED  BY <1>4, <1>5, <1>6, PassedOn

\* It is before anything is finalized.
LEMMA MovedTurn ==
  ASSUME Typed, Typed', First, NEW p \in Page, NEW cut, NEW add, NEW s \in {0, 1},
         NEW new, Turn(p, cut, add, s, new), Proper(p, add, new),
         \A t \in add : ~Finalization(t) /\ ~Streaming(t),
         UNCHANGED <<chunker, saved>>, got' \in {got, NoChunks}, ~Finalizing,
         \A c \in Chain : c.of = "keys" /\ Held(c)' =>
           page'["R"].keys \in {0, page["R"].keys} /\ asm' \in {0, asm},
         \A c \in Chain :
           \/ c.of # "chunk" /\ One(c)' /\ Held(c)
           \/ /\ \A t \in add : ~OnTask(c, p, t)
              /\ \A frame \in new : ~OnFrame(c, Peer(p), frame)
  PROVE  First'
<1>1. OneLoop'
  BY OneLoopKept DEF First
<1>2. \A c \in Chain : c.of = "loop" /\ Ended(c)' => Ended(c)
  BY DEF Ended, Turn, Page
<1>3. Final' => First'
  BY <1>1, <1>2, MovedChains
<1>. QED  BY <1>3, FinalIdle

\* The chain of page p that its handshake begins, and its peer's ends.
Own(p) == IF p = "R" THEN "loop" ELSE "keys"

\* A handshake begins its sender's chain, and ends the way of the other.
LEMMA HandshakeChains ==
  ASSUME NEW p \in Page, NEW key, NEW frame, frame.type = "HANDSHAKE", NEW c \in Chain
  PROVE  /\ OnFrame(c, p, frame) <=> c.of = Own(Peer(p))
         /\ OnFrame(c, Peer(p), frame) <=> c.of = Own(p)
         /\ OnTask(c, p, Task("derive", Signal("HANDSHAKE", key))) <=> c.of = Own(Peer(p))
         /\ c.of = Own(p) => (Waiting(c) <=> Unshaken(p)) /\ (Waiting(c)' <=> Unshaken(p)')
         /\ Own(p) # Own(Peer(p)) /\ Own(p) \in {"loop", "keys"} /\ Peer(Peer(p)) = p
<1>1. /\ Own(p) # Own(Peer(p)) /\ Own(p) \in {"loop", "keys"} /\ Peer(Peer(p)) = p
      /\ Peer(p) \in Page
  BY DEF Own, Peer, Page
<1>2. OnFrame(c, p, frame) <=> c.of = Own(Peer(p))
  BY DEF Own, OnFrame, Peer, Page
<1>3. OnFrame(c, Peer(p), frame) <=> c.of = Own(p)
  BY DEF Own, OnFrame, Peer, Page
<1>4. OnTask(c, p, Task("derive", Signal("HANDSHAKE", key))) <=> c.of = Own(Peer(p))
  BY DEF Own, OnTask, Peer, Page, Task, Signal, Frame, Accepting
<1>5. c.of = Own(p) => (Waiting(c) <=> Unshaken(p)) /\ (Waiting(c)' <=> Unshaken(p)')
  BY DEF Own, Waiting, Page
<1>. QED  BY <1>1, <1>2, <1>3, <1>4, <1>5

\* Opening begins the page's own chain.
LEMMA OpenFirst ==
  ASSUME Typed, Typed', First, epoch = 1, NEW p \in Page, Open(p)
  PROVE  First'
<1> DEFINE me == [page[p] EXCEPT !.conn = "open"]
           now == [me EXCEPT !.ui = "CONNECTED", !.sentHandshake = TRUE]
<1>a. page[p] \in PageType /\ page[p].conn = "connecting" /\ UNCHANGED <<chunker, asm, got, saved>>
  BY DEF Typed, Open, fileVars, asmVars, userVars
<1>b. /\ me.tasks = page[p].tasks /\ me.conn = "open" /\ me.ui = page[p].ui
      /\ me.sentHandshake = page[p].sentHandshake
      /\ me.keys = page[p].keys /\ me.peerKey = page[p].peerKey
      /\ now.tasks = page[p].tasks /\ now.conn = "open" /\ now.ui = "CONNECTED"
      /\ now.sentHandshake = TRUE
      /\ now.keys = page[p].keys /\ now.peerKey = page[p].peerKey
  BY <1>a DEF PageType
<1>1. CASE Become(p, me) /\ UNCHANGED net
  <2>1. Queues(p, 0, {})
    BY <1>1, StillQueues
  <2> HIDE DEF me
  <2>2. Turn(p, {}, {}, 0, {}) /\ page'[p] = me
    BY <1>1, <1>a, <1>b, <2>1, TurnOf
  <2>. QED  BY <1>a, <1>b, <2>2, QuietTurn
<1>2. CASE Become(p, now) /\ page[p].sentHandshake /\ UNCHANGED net
  <2>1. Queues(p, 0, {})
    BY <1>2, StillQueues
  <2> HIDE DEF now
  <2>2. Turn(p, {}, {}, 0, {}) /\ page'[p] = now
    BY <1>2, <1>a, <1>b, <2>1, TurnOf
  <2>. QED  BY <1>a, <1>b, <2>2, QuietTurn
<1>3. CASE Become(p, now) /\ ~page[p].sentHandshake /\ net' = Sent(net, p, Handshake)
  <2>0. PICK frame : frame = Handshake /\ frame.type = "HANDSHAKE" /\ frame.key = 1
    <3>1. Handshake.type = "HANDSHAKE" /\ Handshake.key = 1
      BY DEF Handshake, Signal, Frame
    <3>. QED  BY <3>1
  <2>1. Queues(p, 0, {frame})
    BY <1>3, <2>0, SentQueues
  <2> HIDE DEF now
  <2>2. Turn(p, {}, {}, 0, {frame}) /\ page'[p] = now
    BY <1>3, <1>a, <1>b, <2>1, TurnOf
  <2>3. Unshaken(p) /\ ~Unshaken(p)'
    BY <1>3, <1>a, <1>b, <2>2 DEF Unshaken
  <2>4. ASSUME NEW c \in Chain, c.of = Own(p) PROVE One(c)' /\ Held(c) /\ c.of # "chunk"
    <3>1. Waiting(c) /\ ~Waiting(c)' /\ c.of \in {"loop", "keys"}
      BY <2>3, <2>4, <2>0, HandshakeChains
    <3>2. Ended(c)' => Ended(c)
      <4>1. CASE p = "S"
        BY <1>a, <1>b, <2>2, <4>1 DEF Ended
      <4>2. CASE p # "S"
        <5>1. page'["S"] = page["S"]
          BY <2>2, <4>2 DEF Turn, Page
        <5>. QED  BY <1>a, <5>1 DEF Ended
      <4>. QED  BY <4>1, <4>2
    <3>3. One(c)
      BY DEF First, Chains
    <3>4. PICK none, add : none = {} /\ add = {} /\ Turn(p, none, add, 0, {frame})
      BY <2>2
    <3>5. (\A u \in add : ~OnTask(c, p, u)) /\ 0 \in {0, 1}
      BY <3>4
    <3>6. One(c)' /\ Held(c)
      BY <3>1, <3>2, <3>3, <3>4, <3>5, WaitToFrame
    <3>. QED  BY <3>1, <3>6
  <2>5. ASSUME NEW c \in Chain, c.of # Own(p) PROVE ~OnFrame(c, Peer(p), frame)
    BY <2>0, <2>5, HandshakeChains
  <2>6. ~Finalizing
    <3>1. [of |-> Own(p), index |-> 0] \in Chain
      BY ZeroInRange DEF Chain, Own
    <3>. QED  BY <2>4, <3>1, HeldIdle
  <2>7. Proper(p, {}, {frame})
    BY <1>a, <1>b, <2>0, <2>2 DEF Proper, First, OneKey, Turn, Page
  <2>8. page'["R"].keys = page["R"].keys
    BY <1>b, <2>2 DEF Turn, Page
  <2>9. \A c \in Chain :
          \/ c.of # "chunk" /\ One(c)' /\ Held(c)
          \/ /\ \A t \in {} : ~OnTask(c, p, t)
             /\ \A f \in {frame} : ~OnFrame(c, Peer(p), f)
    BY <2>4, <2>5
  <2>. QED  BY <1>a, <2>2, <2>6, <2>7, <2>8, <2>9, MovedTurn
<1>. QED  BY <1>1, <1>2, <1>3 DEF Open

\* A handshake that arrives ends its chain's way, and is answered if it is the first.
LEMMA HandshakeFirst ==
  ASSUME Typed, Typed', First, NEW p \in Page
  PROVE  /\ epoch = 1 /\ page[p].conn # "none" /\ net[p] # <<>>
         /\ Head(net[p]).type = "HANDSHAKE" /\ ReceiveHandshake(p, Head(net[p]))
         => First'
<1>0. SUFFICES ASSUME epoch = 1, page[p].conn # "none", net[p] # <<>>,
                      Head(net[p]).type = "HANDSHAKE", ReceiveHandshake(p, Head(net[p]))
               PROVE  First'
  OBVIOUS
<1> DEFINE me == [page[p] EXCEPT !.peerKey = 1, !.sentHandshake = TRUE]
           task == Task("derive", Signal("HANDSHAKE", 1))
           rest == [net EXCEPT ![p] = Tail(@)]
<1>a. /\ page[p] \in PageType /\ UNCHANGED <<chunker, asm, got, saved>>
      /\ page["S"].keys \in {0, 1} /\ page["R"].keys \in {0, 1} /\ asm \in {0, 1}
  BY <1>0 DEF Typed, ReceiveHandshake, fileVars, asmVars, userVars, First, OneKey
<1>b. PICK head : head = Head(net[p]) /\ head.type = "HANDSHAKE"
  BY <1>0
<1>c. PICK answer : answer = Handshake /\ answer.type = "HANDSHAKE" /\ answer.key = 1
  <2>1. Handshake.type = "HANDSHAKE" /\ Handshake.key = 1
    BY <1>0 DEF Handshake, Signal, Frame
  <2>. QED  BY <2>1
<1>d. (IF p = "S" THEN Head(net[p]).key ELSE epoch) = 1
  <2>1. Head(net[p]) \in Frames(net[p])
    BY <1>0, QueueEffects DEF Typed
  <2>. QED  BY <1>0, <2>1 DEF First, OneKey
<1>e. \/ /\ Become(p, Start(me, task))
         /\ net' = IF page[p].sentHandshake THEN rest ELSE Sent(rest, p, Handshake)
      \/ ~page[p].sentHandshake /\ Become(p, Failed(me)) /\ net' = rest
  BY <1>0, <1>d DEF ReceiveHandshake
<1>f. /\ me \in PageType /\ me.tasks = page[p].tasks /\ me.conn = page[p].conn
      /\ me.ui = page[p].ui /\ me.keys = page[p].keys /\ me.sentHandshake = TRUE /\ me.peerKey = 1
  BY <1>a, EpochRange, ZeroInRange DEF PageType
<1>g. /\ task.kind = "derive" /\ task.key = 1
      /\ Fits(p, task) /\ ~Finalization(task) /\ ~Streaming(task)
  BY SignalParts DEF Fits, Finalization, Streaming
<1>h. ~Finalizing
  <2>1. [of |-> Own(Peer(p)), index |-> 0] \in Chain
    BY ZeroInRange DEF Chain, Own
  <2>2. PICK c \in Chain : c.of = Own(Peer(p))
    BY <2>1
  <2>3. net[p] \in Seq(FrameType)
    BY DEF Typed, NetType
  <2>4. 1 \in DOMAIN net[p] /\ net[p][1] = head
    BY <1>0, <1>b, <2>3
  <2>5. OnFrame(c, p, head)
    BY <1>b, <2>2, HandshakeChains
  <2>6. Held(c)
    BY <2>4, <2>5 DEF Held, HasFrame
  <2>. QED  BY <2>6, HeldIdle
<1> HIDE DEF me
<1>1. CASE Become(p, Failed(me)) /\ net' = rest
  <2>1. Queues(p, 1, {})
    BY <1>0, <1>1, TakenQueues
  <2>2. /\ Failed(me).tasks \subseteq (page[p].tasks \ {}) \cup {}
        /\ Failed(me).conn = page[p].conn
        /\ Failed(me).sentHandshake = TRUE /\ Failed(me).keys = page[p].keys
        /\ Failed(me).peerKey = 1
    BY <1>f, Effects, KeyedEffects DEF Keyed
  <2>3. Turn(p, {}, {}, 1, {}) /\ page'[p] = Failed(me)
    BY <1>0, <1>1, <2>1, <2>2, TurnOf
  <2>4. page'[p].keys = page[p].keys /\ page'[p].peerKey = 1
    BY <2>2, <2>3
  <2>5. UNCHANGED <<chunker, asm, got, saved>>
    BY <1>a
  <2>. QED  BY <1>h, <2>3, <2>4, <2>5, QuietTurn
<1>2. CASE /\ Become(p, Start(me, task))
           /\ net' = IF page[p].sentHandshake THEN rest ELSE Sent(rest, p, Handshake)
  <2>1. /\ Start(me, task).tasks \subseteq (page[p].tasks \ {}) \cup {task}
        /\ Start(me, task).conn = page[p].conn
        /\ Start(me, task).sentHandshake = TRUE /\ Start(me, task).keys = page[p].keys
        /\ Start(me, task).peerKey = 1
    BY <1>f, Effects, KeyedEffects DEF Keyed
  <2>2. PICK new : /\ Turn(p, {}, {task}, 1, new) /\ page'[p] = Start(me, task)
                   /\ new = IF page[p].sentHandshake THEN {} ELSE {answer}
    <3>1. CASE page[p].sentHandshake
      <4>1. Queues(p, 1, {})
        BY <1>0, <1>2, <3>1, TakenQueues
      <4>. QED  BY <1>0, <1>2, <2>1, <3>1, <4>1, TurnOf
    <3>2. CASE ~page[p].sentHandshake
      <4>0. net' = Sent(rest, p, answer)
        BY <1>2, <1>c, <3>2 DEF Sent
      <4>1. Queues(p, 1, {answer})
        BY <1>0, <4>0, AnsweredQueues
      <4>. QED  BY <1>0, <1>2, <2>1, <3>2, <4>1, TurnOf
    <3>. QED  BY <3>1, <3>2
  <2> HIDE DEF task
  <2>3. Proper(p, {task}, new)
    BY <1>a, <1>c, <1>g, <2>1, <2>2 DEF Proper, Turn, Page
  <2>4. page'["R"].keys = page["R"].keys
    BY <2>1, <2>2 DEF Turn, Page
  <2>5. ASSUME NEW c \in Chain PROVE Ended(c)' => Ended(c)
    BY <1>a, <1>g, <2>2 DEF Ended, Turn, Page
  <2>6. ASSUME NEW c \in Chain PROVE One(c)
    BY DEF First, Chains
  <2>7. ASSUME NEW c \in Chain, c.of = Own(Peer(p)) PROVE One(c)' /\ Held(c)
    <3>1. OnFrame(c, p, head) /\ \A frame \in new : ~OnFrame(c, Peer(p), frame)
      BY <1>b, <1>c, <2>2, <2>7, HandshakeChains
    <3>2. c.of \in {"loop", "keys"}
      BY <2>7 DEF Own
    <3>3. PICK cut : cut = {} /\ Turn(p, cut, {task}, 1, new)
      BY <2>2
    <3>. QED  BY <1>0, <1>b, <2>2, <2>5, <2>6, <3>1, <3>2, FrameToTask
  <2>8. ASSUME NEW c \in Chain, c.of = Own(p), ~page[p].sentHandshake PROVE One(c)' /\ Held(c)
    <3>1. Waiting(c) /\ ~Waiting(c)'
      BY <1>0, <1>b, <2>1, <2>2, <2>8, HandshakeChains DEF Unshaken
    <3>2. ~OnTask(c, p, task)
      BY <1>b, <2>8, HandshakeChains DEF task
    <3>3. Turn(p, {}, {task}, 1, {answer})
      BY <2>2, <2>8
    <3>. QED  BY <2>5, <2>6, <3>1, <3>2, <3>3, WaitToFrame
  <2>9. \A c \in Chain :
          \/ c.of # "chunk" /\ One(c)' /\ Held(c)
          \/ /\ \A t \in {task} : ~OnTask(c, p, t)
             /\ \A frame \in new : ~OnFrame(c, Peer(p), frame)
    <3> SUFFICES ASSUME NEW c \in Chain, c.of # Own(Peer(p)), c.of # Own(p) \/ page[p].sentHandshake
                 PROVE  /\ ~OnTask(c, p, task)
                        /\ \A frame \in new : ~OnFrame(c, Peer(p), frame)
      BY <2>7, <2>8 DEF Own
    <3>1. ~OnTask(c, p, task)
      BY <1>b, HandshakeChains DEF task
    <3>2. \A frame \in new : ~OnFrame(c, Peer(p), frame)
      BY <1>c, <2>2, HandshakeChains
    <3>. QED  BY <3>1, <3>2
  <2>g. \A t \in {task} : ~Finalization(t) /\ ~Streaming(t)
    BY <1>g
  <2>u. UNCHANGED <<chunker, saved>> /\ UNCHANGED <<got, asm>>
    BY <1>a
  <2>k. \A c \in Chain : c.of = "keys" /\ Held(c)' =>
          page'["R"].keys \in {0, page["R"].keys} /\ asm' \in {0, asm}
    BY <2>4, <2>u
  <2>t. Turn(p, {}, {task}, 1, new) /\ got' \in {got, NoChunks} /\ UNCHANGED <<chunker, saved>>
    BY <2>2, <2>u
  <2>. QED  BY <1>h, <2>3, <2>9, <2>g, <2>k, <2>t, MovedTurn
<1>. QED  BY <1>1, <1>2, <1>e

\* Who has a task of the loop's chain holds the right to stream: nobody streams,
\* nothing is finalized, and no chunk has been sent.
LEMMA LoopHeld ==
  ASSUME First, NEW p \in Page, NEW t \in page[p].tasks,
         \A c \in Chain : c.of = "loop" => OnTask(c, p, t)
  PROVE  /\ ~Finalizing /\ \A u \in page["S"].tasks : ~Streaming(u)
         /\ \A c \in Chain : c.of = "loop" => One(c) /\ Held(c)
         /\ \A d \in Chain : d.of = "chunk" => ~HasTask(d) /\ ~HasFrame(d) /\ ~Ended(d)
<1>1. PICK l \in Chain : l.of = "loop"
  <2>1. [of |-> "loop", index |-> 0] \in Chain
    BY ZeroInRange DEF Chain
  <2>. QED  BY <2>1
<1>2. \A c \in Chain : c.of = "loop" => One(c) /\ Held(c)
  BY DEF First, Chains, Held, HasTask
<1>3. ~Finalizing
  BY <1>1, <1>2, HeldIdle
<1>4. ~Ended(l)
  BY <1>1, <1>2 DEF One
<1>5. \A u \in page["S"].tasks : ~Streaming(u)
  BY <1>1, <1>4 DEF Ended
<1>6. \A d \in Chain : d.of = "chunk" => ~HasTask(d) /\ ~HasFrame(d) /\ ~Ended(d)
  BY <1>1, <1>2 DEF First, Order
<1>. QED  BY <1>2, <1>3, <1>5, <1>6

\* The right to stream goes from one task of a page to the next.
LEMMA LoopTask ==
  ASSUME Typed, Typed', First, NEW p \in Page, NEW t \in page[p].tasks,
         \A c \in Chain : c.of = "loop" => OnTask(c, p, t),
         NEW u, Turn(p, {t}, {u}, 0, {}), Proper(p, {u}, {}),
         ~Finalization(u), ~Streaming(u), \A c \in Chain : c.of # "loop" => ~OnTask(c, p, u),
         UNCHANGED <<chunker, saved>>, got' \in {got, NoChunks},
         \A c \in Chain : c.of = "keys" /\ Held(c)' =>
           page'["R"].keys \in {0, page["R"].keys} /\ asm' \in {0, asm}
  PROVE  First'
<1>1. ~Finalizing /\ \A c \in Chain : c.of = "loop" => One(c) /\ Held(c)
  BY LoopHeld
<1>2. PICK new : new = {} /\ Turn(p, {t}, {u}, 0, new) /\ Proper(p, {u}, new)
  OBVIOUS
<1>3. ASSUME NEW c \in Chain, c.of = "loop" PROVE One(c)' /\ Held(c)
  <2>1. Ended(c)' => Ended(c)
    BY <1>3 DEF Ended, Turn, Page
  <2>2. OnTask(c, p, t) /\ One(c) /\ \A frame \in new : ~OnFrame(c, Peer(p), frame)
    BY <1>1, <1>2, <1>3
  <2>. QED  BY <1>1, <1>2, <1>3, <2>1, <2>2, TaskToTask
<1>4. \A c \in Chain :
        \/ c.of # "chunk" /\ One(c)' /\ Held(c)
        \/ /\ \A v \in {u} : ~OnTask(c, p, v)
           /\ \A frame \in new : ~OnFrame(c, Peer(p), frame)
  BY <1>2, <1>3
<1>5. \A v \in {u} : ~Finalization(v) /\ ~Streaming(v)
  OBVIOUS
<1>. QED  BY <1>1, <1>2, <1>4, <1>5, MovedTurn

\* The tasks that hold the right to stream.
LEMMA LoopTasks ==
  ASSUME NEW c \in Chain, NEW t
  PROVE  /\ t.kind \in {"derive", "package", "hash"} => (OnTask(c, "S", t) <=> c.of = "loop")
         /\ t.kind = "send" => (OnTask(c, "S", t) <=> c.of = "loop" /\ t.type = "MANIFEST")
         /\ t.kind = "send" => (OnTask(c, "R", t) <=> c.of = "loop" /\ t.type = "ACCEPT")
         /\ t.kind = "control" => (OnTask(c, "S", t) <=> c.of = "loop" /\ t.type = "ACCEPT")
         /\ t.kind = "control" => (OnTask(c, "R", t) <=> c.of = "loop" /\ t.type = "MANIFEST")
         /\ t.kind = "derive" => (OnTask(c, "R", t) <=> c.of = "keys")
<1>1. t.kind \in {"derive", "package", "hash"} => (OnTask(c, "S", t) <=> c.of = "loop")
  BY DEF OnTask, Accepting
<1>2. t.kind = "send" => (OnTask(c, "S", t) <=> c.of = "loop" /\ t.type = "MANIFEST")
  BY DEF OnTask, Accepting
<1>3. t.kind = "send" => (OnTask(c, "R", t) <=> c.of = "loop" /\ t.type = "ACCEPT")
  BY DEF OnTask, Accepting
<1>4. t.kind = "control" => (OnTask(c, "S", t) <=> c.of = "loop" /\ t.type = "ACCEPT")
  BY DEF OnTask, Accepting
<1>5. t.kind = "control" => (OnTask(c, "R", t) <=> c.of = "loop" /\ t.type = "MANIFEST")
  BY DEF OnTask, Accepting
<1>6. t.kind = "derive" => (OnTask(c, "R", t) <=> c.of = "keys")
  BY DEF OnTask, Accepting
<1>. QED  BY <1>1, <1>2, <1>3, <1>4, <1>5, <1>6

\* Deriving: the sender goes on to its file, the receiver waits.
LEMMA DeriveFirst ==
  ASSUME Typed, Typed', First, epoch = 1, NEW p \in Page, NEW t, DeriveKeys(p, t)
  PROVE  First'
<1> DEFINE me == End(page[p], t)
           keyed == [me EXCEPT !.keys = 1]
           task == Task("package", Signal("", 0))
<1>a. /\ t \in Pending(p, "derive") /\ t \in page[p].tasks /\ t.kind = "derive" /\ me \in PageType
      /\ page[p] \in PageType
  BY PendingType DEF DeriveKeys
<1>b. t.key = 1 /\ (p = "S" => page[p].peerKey = 1)
  BY <1>a DEF First, OneKey
<1>c. /\ me.tasks = page[p].tasks \ {t} /\ Keyed(page[p], me) /\ me.ui = page[p].ui
  BY <1>a, Effects, KeyedEffects
<1>d. \/ Become(p, IF p = "S" /\ me.conn # "none" THEN Start(keyed, task) ELSE keyed)
      \/ Become(p, Failed(me))
  BY <1>b, <1>c DEF DeriveKeys, Keyed
<1>e. UNCHANGED <<chunker, asm, got, saved>> /\ Queues(p, 0, {})
  BY StillQueues DEF DeriveKeys, fileVars, asmVars, userVars
<1>f. /\ keyed \in PageType /\ keyed.tasks = me.tasks /\ keyed.conn = me.conn /\ keyed.ui = me.ui
      /\ keyed.sentHandshake = me.sentHandshake /\ keyed.keys = 1 /\ keyed.peerKey = me.peerKey
  BY <1>a, EpochRange, ZeroInRange DEF PageType
<1>g. p = "R" => ~Finalizing
  <2> SUFFICES ASSUME p = "R" PROVE ~Finalizing
    OBVIOUS
  <2>1. PICK c \in Chain : c.of = "keys"
    <3>1. [of |-> "keys", index |-> 0] \in Chain
      BY ZeroInRange DEF Chain
    <3>. QED  BY <3>1
  <2>2. Held(c)
    BY <1>a, <2>1, LoopTasks DEF Held, HasTask
  <2>. QED  BY <2>2, HeldIdle
<1> HIDE DEF keyed, me, task
<1>1. CASE Become(p, Failed(me))
  <2>1. /\ Failed(me).tasks \subseteq (page[p].tasks \ {t}) \cup {} /\ Keyed(me, Failed(me))
    BY <1>a, <1>c, Effects, KeyedEffects
  <2>2. Turn(p, {t}, {}, 0, {}) /\ page'[p] = Failed(me)
    BY <1>1, <1>c, <1>e, <2>1, TurnOf DEF Keyed
  <2>3. page'[p].keys = page[p].keys /\ page'[p].peerKey = page[p].peerKey
    BY <1>c, <2>1, <2>2 DEF Keyed
  <2>. QED  BY <1>e, <1>g, <2>2, <2>3, QuietTurn
<1>2. CASE Become(p, keyed) /\ p = "S"
  <2>1. Turn(p, {t}, {}, 0, {}) /\ page'[p] = keyed
    BY <1>2, <1>c, <1>e, <1>f, TurnOf DEF Keyed
  <2>2. page'[p].keys = 1 /\ page'[p].peerKey = page[p].peerKey
    BY <1>c, <1>f, <2>1 DEF Keyed
  <2>. QED  BY <1>2, <1>e, <2>1, <2>2, QuietTurn
<1>3. CASE Become(p, keyed) /\ p = "R"
  <2>1. PICK none : none = {} /\ Turn(p, {t}, none, 0, none) /\ page'[p] = keyed
    <3>1. Turn(p, {t}, {}, 0, {}) /\ page'[p] = keyed
      BY <1>3, <1>c, <1>e, <1>f, TurnOf DEF Keyed
    <3>. QED  BY <3>1
  <2>2. ASSUME NEW c \in Chain, c.of = "keys" PROVE One(c)' /\ Held(c) /\ ~Held(c)'
    <3>1. OnTask(c, p, t) /\ One(c)
      BY <1>3, <1>a, <2>2, LoopTasks DEF First, Chains
    <3>2. /\ \A u \in none : ~OnTask(c, p, u)
          /\ \A frame \in none : ~OnFrame(c, Peer(p), frame)
          /\ c.of = "chunk" => (Unsent(c.index)' => Unsent(c.index))
      BY <2>1, <2>2
    <3>3. t \in page[p].tasks /\ Turn(p, {t}, none, 0, none)
      BY <1>a, <2>1
    <3>. QED  BY <3>1, <3>2, <3>3, TaskOver
  <2>3. \A c \in Chain :
          \/ c.of # "chunk" /\ One(c)' /\ Held(c)
          \/ /\ \A v \in none : ~OnTask(c, p, v)
             /\ \A frame \in none : ~OnFrame(c, Peer(p), frame)
    BY <2>1
  <2>4. \A c \in Chain : c.of = "keys" /\ Held(c)' =>
           page'["R"].keys \in {0, page["R"].keys} /\ asm' \in {0, asm}
    BY <2>2
  <2>5. Proper(p, none, none)
    BY <1>3, <1>e, <1>f, <2>1 DEF Proper, First, OneKey, Turn, Page
  <2>6. \A v \in none : ~Finalization(v) /\ ~Streaming(v)
    BY <2>1
  <2>. QED  BY <1>3, <1>e, <1>g, <2>1, <2>3, <2>4, <2>5, <2>6, MovedTurn
<1>4. CASE Become(p, Start(keyed, task)) /\ p = "S"
  <2>1. /\ Start(keyed, task).tasks \subseteq (page[p].tasks \ {t}) \cup {task}
        /\ Keyed(keyed, Start(keyed, task))
    BY <1>c, <1>f, Effects, KeyedEffects
  <2>2. Turn(p, {t}, {task}, 0, {}) /\ page'[p] = Start(keyed, task)
    BY <1>4, <1>c, <1>e, <1>f, <2>1, TurnOf DEF Keyed
  <2>3. task.kind = "package" /\ ~Finalization(task) /\ ~Streaming(task) /\ Fits(p, task)
    <3>1. task.kind = "package"
      BY SignalParts DEF task
    <3>. QED  BY <3>1 DEF Finalization, Streaming, Fits
  <2>4. page'["S"].keys = 1 /\ page'["S"].peerKey = page["S"].peerKey
    BY <1>4, <1>c, <1>f, <2>1, <2>2 DEF Keyed
  <2>5. page'["R"].keys = page["R"].keys
    BY <1>4, <2>2 DEF Turn, Page
  <2>6. Proper(p, {task}, {})
    BY <1>4, <1>e, <2>2, <2>3, <2>4 DEF Proper, First, OneKey, Turn, Page
  <2>7. \A c \in Chain : /\ c.of = "loop" => OnTask(c, p, t)
                         /\ c.of # "loop" => ~OnTask(c, p, task)
    BY <1>4, <1>a, <2>3, LoopTasks
  <2>. QED  BY <1>a, <1>e, <2>2, <2>3, <2>5, <2>6, <2>7, LoopTask
<1>. QED  BY <1>1, <1>2, <1>3, <1>4, <1>d DEF Page

\* The chunker starts at the first chunk again, when none has been sent.
LEMMA ChunkerFirst ==
  ASSUME Typed, Typed', First, NEW t, MakeChunker(t)
  PROVE  First'
<1> DEFINE me == End(page["S"], t)
           task == Task("hash", Signal("", 0))
<1>a. /\ "S" \in Page /\ t \in page["S"].tasks /\ t.kind = "package" /\ me \in PageType
      /\ page["S"] \in PageType
  BY PendingType DEF MakeChunker, Page
<1>c. /\ me.tasks = page["S"].tasks \ {t} /\ Keyed(page["S"], me) /\ me.ui = page["S"].ui
  BY <1>a, Effects, KeyedEffects
<1>e. UNCHANGED <<asm, got, saved, net>> /\ Queues("S", 0, {})
  BY <1>a, StillQueues DEF MakeChunker, asmVars, userVars
<1>f. \/ Become("S", Failed(me)) /\ UNCHANGED chunker
      \/ me.keys # 0 /\ Become("S", Start(me, task)) /\ chunker' = [next |-> 0, key |-> me.keys]
  BY DEF MakeChunker
<1>g. page["S"].keys \in {0, 1}
  BY DEF First, OneKey
<1> HIDE DEF me, task
<1>1. CASE Become("S", Failed(me)) /\ UNCHANGED chunker
  <2>1. Failed(me).tasks \subseteq (page["S"].tasks \ {t}) \cup {} /\ Keyed(me, Failed(me))
    BY <1>a, <1>c, Effects, KeyedEffects
  <2>2. Turn("S", {t}, {}, 0, {}) /\ page'["S"] = Failed(me)
    BY <1>1, <1>a, <1>c, <1>e, <2>1, TurnOf DEF Keyed
  <2>3. page'["S"].keys = page["S"].keys /\ page'["S"].peerKey = page["S"].peerKey
    BY <1>c, <2>1, <2>2 DEF Keyed
  <2>. QED  BY <1>1, <1>a, <1>e, <2>2, <2>3, QuietTurn
<1>2. CASE /\ me.keys # 0 /\ Become("S", Start(me, task))
           /\ chunker' = [next |-> 0, key |-> me.keys]
  <2>1. /\ Start(me, task).tasks \subseteq (page["S"].tasks \ {t}) \cup {task}
        /\ Keyed(me, Start(me, task))
    BY <1>a, <1>c, Effects, KeyedEffects
  <2>2. PICK none : /\ none = {} /\ Turn("S", {t}, {task}, 0, none) /\ page'["S"] = Start(me, task)
    <3>1. Turn("S", {t}, {task}, 0, {}) /\ page'["S"] = Start(me, task)
      BY <1>2, <1>a, <1>c, <1>e, <2>1, TurnOf DEF Keyed
    <3>. QED  BY <3>1
  <2>3. task.kind = "hash" /\ ~Finalization(task) /\ ~Streaming(task) /\ Fits("S", task)
    <3>1. task.kind = "hash"
      BY SignalParts DEF task
    <3>. QED  BY <3>1 DEF Finalization, Streaming, Fits
  <2>4. \A c \in Chain : /\ c.of = "loop" <=> OnTask(c, "S", t)
                         /\ c.of = "loop" <=> OnTask(c, "S", task)
    BY <1>a, <2>3, LoopTasks
  <2>5. /\ ~Finalizing /\ \A u \in page["S"].tasks : ~Streaming(u)
        /\ \A c \in Chain : c.of = "loop" => One(c) /\ Held(c)
        /\ \A d \in Chain : d.of = "chunk" => ~HasTask(d) /\ ~HasFrame(d) /\ ~Ended(d)
    BY <1>a, <2>4, LoopHeld
  <2>6. /\ page'["S"].keys = page["S"].keys /\ page'["S"].peerKey = page["S"].peerKey
        /\ page'["R"] = page["R"]
    BY <1>c, <2>1, <2>2 DEF Keyed, Turn, Page
  <2>7. chunker'.key = 1 /\ \A u \in page'["S"].tasks : ~Streaming(u)
    BY <1>2, <1>c, <1>g, <2>2, <2>3, <2>5 DEF Turn, Keyed
  <2>8. Proper("S", {task}, none)
    <3>1. \A u \in page'["S"].tasks : u.kind # "read"
      BY <2>7 DEF Streaming
    <3>2. page'["S"].keys \in {0, 1} /\ asm' \in {0, 1}
      BY <1>e, <1>g, <2>6 DEF First, OneKey
    <3>. QED  BY <2>2, <2>3, <2>6, <2>7, <3>1, <3>2 DEF Proper
  <2>9. ASSUME NEW c \in Chain, c.of = "loop" PROVE One(c)' /\ Held(c)
    <3>1. Ended(c)' => Ended(c)
      BY <2>7, <2>9 DEF Ended
    <3>2. OnTask(c, "S", t) /\ One(c) /\ \A frame \in none : ~OnFrame(c, Peer("S"), frame)
      BY <2>2, <2>4, <2>5, <2>9
    <3>. QED  BY <1>a, <2>2, <2>9, <3>1, <3>2, TaskToTask
  <2>10. ASSUME NEW c \in Chain, c.of = "chunk"
         PROVE  One(c)' /\ ~HasTask(c)' /\ ~HasFrame(c)' /\ ~Ended(c)'
    <3>1. ~HasTask(c) /\ ~HasFrame(c) /\ ~Ended(c)
      BY <2>5, <2>10
    <3>2. ~Ended(c)'
      BY <1>e, <2>10, <3>1 DEF Ended
    <3>3. ~HasFrame(c)'
      BY <1>e, <3>1 DEF HasFrame
    <3>4. ~HasTask(c)'
      BY <2>4, <2>2, <2>10, <3>1 DEF HasTask, Turn, Page
    <3>. QED  BY <3>2, <3>3, <3>4 DEF One, HasTask, HasFrame
  <2>11. PICK M : M = {c \in Chain : c.of # "keys"}
    OBVIOUS
  <2>12. /\ \A c \in Chain : c \in M => One(c)' /\ (c.of # "chunk" => Held(c))
         /\ \A c \in Chain : c \notin M => Spares("S", {task}, none, c)
         /\ \A c \in Chain : c.of = "keys" /\ Held(c)' =>
              page'["R"].keys \in {0, page["R"].keys} /\ asm' \in {0, asm}
         /\ \A c \in Chain : c.of = "chunk" =>
              /\ Ended(c)' => Ended(c)
              /\ c \in M => (HasTask(c)' => HasTask(c)) /\ (HasFrame(c)' => HasFrame(c))
    <3>1. \A c \in Chain : c \in M => One(c)' /\ (c.of # "chunk" => Held(c))
      BY <2>9, <2>10, <2>11 DEF Chain
    <3>2. \A c \in Chain : c \notin M => Spares("S", {task}, none, c)
      BY <2>2, <2>4, <2>11 DEF Spares, Ended
    <3>. QED  BY <1>e, <2>6, <2>10, <3>1, <3>2
  <2>13. Final'
    <3>1. \A u \in {task} : "S" = "R" => ~Finalization(u)
      OBVIOUS
    <3>. QED  BY <1>a, <1>e, <2>2, <2>5, <3>1, FinalIdle
  <2>14. OneLoop'
    BY <2>7 DEF OneLoop
  <2>. QED  BY <1>a, <2>2, <2>8, <2>12, <2>13, <2>14, PassedOn
<1>. QED  BY <1>1, <1>2, <1>f

\* MANIFEST, once the file is hashed.
LEMMA ManifestFirst ==
  ASSUME Typed, Typed', First, NEW t, SendManifest(t)
  PROVE  First'
<1> DEFINE me == End(page["S"], t)
           now == SendControl(me, "send", "MANIFEST")
           task == Task("send", Signal("MANIFEST", 1))
<1>a. /\ "S" \in Page /\ t \in page["S"].tasks /\ t.kind = "hash" /\ me \in PageType
      /\ page["S"] \in PageType
  BY PendingType DEF SendManifest, Page
<1>b. page["S"].keys \in {0, 1}
  BY DEF First, OneKey
<1>c. me.tasks = page["S"].tasks \ {t} /\ Keyed(page["S"], me)
  BY <1>a, Effects, KeyedEffects
<1>d. now.tasks \subseteq (page["S"].tasks \ {t}) \cup {task} /\ Keyed(page["S"], now)
  <2>1. me.keys \in {0, 1}
    BY <1>b, <1>c DEF Keyed
  <2>2. now.tasks \subseteq me.tasks \cup {task} /\ Keyed(me, now)
    BY <1>a, <2>1, OneSending
  <2>. QED  BY <1>c, <2>2, KeyedTrans
<1>e. UNCHANGED <<chunker, asm, got, saved>> /\ Queues("S", 0, {})
  BY <1>a, StillQueues DEF SendManifest, fileVars, asmVars, userVars
<1>f. Become("S", now)
  BY DEF SendManifest
<1>g. task.kind = "send" /\ task.type = "MANIFEST" /\ task.key = 1
  BY SignalParts
<1> HIDE DEF now, me, task
<1>1. Turn("S", {t}, {task}, 0, {}) /\ page'["S"] = now
  BY <1>a, <1>d, <1>e, <1>f, TurnOf DEF Keyed
<1>2. ~Finalization(task) /\ ~Streaming(task) /\ Fits("S", task)
  BY <1>g DEF Finalization, Streaming, Fits
<1>3. page'["S"].keys = page["S"].keys /\ page'["S"].peerKey = page["S"].peerKey
  BY <1>d, <1>1 DEF Keyed
<1>4. page'["R"] = page["R"]
  BY <1>1 DEF Turn, Page
<1>5. Proper("S", {task}, {})
  BY <1>b, <1>e, <1>g, <1>2, <1>3 DEF Proper, First, OneKey
<1>6. \A c \in Chain : /\ c.of = "loop" => OnTask(c, "S", t)
                       /\ c.of # "loop" => ~OnTask(c, "S", task)
  BY <1>a, <1>g, LoopTasks
<1>. QED  BY <1>a, <1>e, <1>1, <1>2, <1>4, <1>5, <1>6, LoopTask

\* A message is sent: MANIFEST and ACCEPT pass the right to stream to the peer.
LEMMA SendFirst ==
  ASSUME Typed, Typed', First, NEW p \in Page, NEW t, SendEncrypted(p, t)
  PROVE  First'
<1> DEFINE me == End(page[p], t)
<1>a. t \in page[p].tasks /\ t.kind = "send" /\ me \in PageType /\ page[p] \in PageType
  BY PendingType DEF SendEncrypted
<1>b. t.key = 1 /\ t.type \in (IF p = "S" THEN {"MANIFEST", "COMPLETE"} ELSE {"ACCEPT"})
  BY <1>a DEF First, OneKey, Kinds, Page
<1>c. me.tasks = page[p].tasks \ {t} /\ Keyed(page[p], me) /\ me.ui = page[p].ui
  BY <1>a, Effects, KeyedEffects
<1>d. PICK frame : frame = Signal(t.type, 1) /\ frame.type = t.type /\ frame.key = 1
  BY SignalParts
<1>e. UNCHANGED <<chunker, asm, got, saved>>
  BY DEF SendEncrypted, fileVars, asmVars, userVars
<1>f. \/ Become(p, me) /\ net' = Sent(net, p, frame)
      \/ Become(p, Failed(me)) /\ UNCHANGED net
  BY <1>b, <1>d DEF SendEncrypted
<1>g. t.type # "COMPLETE" => \A c \in Chain : c.of = "loop" <=> OnTask(c, p, t)
  BY <1>a, <1>b, LoopTasks DEF Page
<1> HIDE DEF me
<1>1. CASE Become(p, Failed(me)) /\ UNCHANGED net
  <2>1. Failed(me).tasks \subseteq (page[p].tasks \ {t}) \cup {} /\ Keyed(me, Failed(me))
    BY <1>a, <1>c, Effects, KeyedEffects
  <2>2. Queues(p, 0, {})
    BY <1>1, StillQueues
  <2>3. Turn(p, {t}, {}, 0, {}) /\ page'[p] = Failed(me)
    BY <1>1, <1>a, <1>c, <2>1, <2>2, TurnOf DEF Keyed
  <2>4. page'[p].keys = page[p].keys /\ page'[p].peerKey = page[p].peerKey
    BY <1>c, <2>1, <2>3 DEF Keyed
  <2>5. p = "R" => ~Finalizing
    BY <1>a, <1>b, <1>g, LoopHeld
  <2>. QED  BY <1>e, <2>3, <2>4, <2>5, QuietTurn
<1>2. CASE Become(p, me) /\ net' = Sent(net, p, frame)
  <2>1. Queues(p, 0, {frame})
    BY <1>2, SentQueues
  <2>2. PICK none : none = {} /\ Turn(p, {t}, none, 0, {frame}) /\ page'[p] = me
    <3>1. Turn(p, {t}, {}, 0, {frame}) /\ page'[p] = me
      BY <1>2, <1>c, <2>1, TurnOf DEF Keyed
    <3>. QED  BY <3>1
  <2>3. /\ page'[p].keys = page[p].keys /\ page'[p].peerKey = page[p].peerKey
        /\ page'[p].ui = page[p].ui
    BY <1>c, <2>2 DEF Keyed
  <2>4. CASE t.type = "COMPLETE"
    <3>1. PlainFrame(frame) /\ p = "S"
      BY <1>b, <1>d, <2>4 DEF PlainFrame
    <3>. QED  BY <1>e, <2>2, <2>3, <3>1, QuietTurn
  <2>5. CASE t.type # "COMPLETE"
    <3>1. ~Finalizing /\ \A c \in Chain : c.of = "loop" => One(c) /\ Held(c) /\ OnTask(c, p, t)
      BY <1>a, <1>g, <2>5, LoopHeld
    <3>2. ASSUME NEW c \in Chain, c.of = "loop" PROVE One(c)' /\ Held(c)
      <4>1. Ended(c)' => Ended(c)
        BY <2>2, <3>2 DEF Ended, Turn, Page
      <4>2. \A u \in none : ~OnTask(c, p, u)
        BY <2>2
      <4>. QED  BY <1>a, <2>2, <3>1, <3>2, <4>1, <4>2, TaskToFrame
    <3>3. ASSUME NEW c \in Chain, c.of # "loop" PROVE ~OnFrame(c, Peer(p), frame)
      BY <1>b, <1>d, <3>3 DEF OnFrame
    <3>4. /\ \A c \in Chain :
                \/ c.of # "chunk" /\ One(c)' /\ Held(c)
                \/ /\ \A u \in none : ~OnTask(c, p, u)
                   /\ \A f \in {frame} : ~OnFrame(c, Peer(p), f)
          /\ \A u \in none : ~Finalization(u) /\ ~Streaming(u)
      BY <2>2, <3>2, <3>3
    <3>5. page'["R"].keys = page["R"].keys
      BY <2>2, <2>3 DEF Turn, Page
    <3>6. page'["S"].peerKey = page["S"].peerKey
      BY <2>2, <2>3 DEF Turn, Page
    <3>7. Proper(p, none, {frame})
      BY <1>d, <1>e, <2>2, <2>3, <3>6 DEF Proper, First, OneKey, Page
    <3>. QED  BY <1>e, <2>2, <3>1, <3>4, <3>5, <3>7, MovedTurn
  <2>. QED  BY <2>4, <2>5
<1>. QED  BY <1>1, <1>2, <1>f

\* A control frame arrives: MANIFEST and ACCEPT bring the right to stream along.
LEMMA ControlFirst ==
  ASSUME Typed, Typed', First, NEW p \in Page
  PROVE  /\ net[p] # <<>> /\ Head(net[p]).type \in Control /\ ReceiveControl(p, Head(net[p]))
         => First'
<1>0. SUFFICES ASSUME net[p] # <<>>, Head(net[p]).type \in Control, ReceiveControl(p, Head(net[p]))
               PROVE  First'
  OBVIOUS
<1>a. page[p] \in PageType /\ page[p].keys \in {0, 1}
  BY DEF Typed, First, OneKey, Page
<1>b. PICK head : head = Head(net[p]) /\ head.type \in Control /\ head.key = 1
  <2>1. Head(net[p]) \in Frames(net[p])
    BY <1>0, QueueEffects DEF Typed
  <2>. QED  BY <1>0, <2>1 DEF First, OneKey, Control
<1>c. PICK task : task = Task("control", head)
  OBVIOUS
<1>d. task.kind = "control" /\ task.type = head.type
  BY <1>c DEF Task
<1>e. /\ UNCHANGED <<chunker, asm, got, saved>>
      /\ Become(p, IF page[p].keys = 0 THEN page[p] ELSE Start(page[p], task))
  <2>1. 1 # Mixed
    BY SessionAssumption DEF Mixed
  <2>. QED  BY <1>0, <1>a, <1>b, <1>c, <2>1 DEF ReceiveControl, fileVars, asmVars, userVars
<1>f. PICK none : none = {} /\ Queues(p, 1, none)
  <2>1. Queues(p, 1, {})
    BY <1>0, TakenQueues DEF ReceiveControl
  <2>. QED  BY <2>1
<1>g. /\ Start(page[p], task).tasks \subseteq (page[p].tasks \ {}) \cup {task}
      /\ Keyed(page[p], Start(page[p], task)) /\ Start(page[p], task).ui = page[p].ui
  BY <1>a, Effects, KeyedEffects
<1>1. CASE page[p].keys = 0
  <2>1. Turn(p, {}, none, 1, none) /\ page'[p] = page[p]
    BY <1>1, <1>e, <1>f, TurnOf
  <2>2. /\ \A u \in none : PlainTask(p, u) /\ ~Finalization(u)
        /\ \A frame \in none : PlainFrame(frame)
    BY <1>f
  <2>. QED  BY <1>e, <2>1, <2>2, QuietTurn
<1>2. CASE page[p].keys # 0
  <2>1. Turn(p, {}, {task}, 1, none) /\ page'[p] = Start(page[p], task)
    BY <1>2, <1>e, <1>f, <1>g, TurnOf DEF Keyed
  <2>2. /\ page'[p].keys = page[p].keys /\ page'[p].peerKey = page[p].peerKey
        /\ page'[p].ui = page[p].ui
    BY <1>g, <2>1 DEF Keyed
  <2>3. ~Finalization(task) /\ ~Streaming(task) /\ Fits(p, task)
    BY <1>d DEF Finalization, Streaming, Fits
  <2>4. CASE head.type # (IF p = "S" THEN "ACCEPT" ELSE "MANIFEST")
    <3>1. PlainTask(p, task)
      BY <1>d, <2>4 DEF PlainTask
    <3>2. \A frame \in none : PlainFrame(frame)
      BY <1>f
    <3>. QED  BY <1>e, <2>1, <2>2, <2>3, <3>1, <3>2, QuietTurn
  <2>5. CASE head.type = (IF p = "S" THEN "ACCEPT" ELSE "MANIFEST")
    <3>1. \A c \in Chain : /\ c.of = "loop" <=> OnTask(c, p, task)
                           /\ c.of = "loop" => OnFrame(c, p, head)
      BY <1>d, <2>5, LoopTasks DEF OnFrame, Page
    <3>2. ASSUME NEW c \in Chain, c.of = "loop" PROVE One(c)' /\ Held(c)
      <4>1. Ended(c)' => Ended(c)
        BY <2>1, <2>3, <3>2 DEF Ended, Turn, Page
      <4>2. One(c) /\ OnFrame(c, p, head) /\ \A frame \in none : ~OnFrame(c, Peer(p), frame)
        BY <1>f, <3>1, <3>2 DEF First, Chains
      <4>. QED  BY <1>0, <1>b, <2>1, <3>2, <4>1, <4>2, FrameToTask
    <3>3. ~Finalizing
      <4>1. [of |-> "loop", index |-> 0] \in Chain
        BY ZeroInRange DEF Chain
      <4>. QED  BY <3>2, <4>1, HeldIdle
    <3>4. /\ \A c \in Chain :
                \/ c.of # "chunk" /\ One(c)' /\ Held(c)
                \/ /\ \A u \in {task} : ~OnTask(c, p, u)
                   /\ \A frame \in none : ~OnFrame(c, Peer(p), frame)
          /\ \A u \in {task} : ~Finalization(u) /\ ~Streaming(u)
      BY <1>f, <2>3, <3>1, <3>2
    <3>5. page'["R"].keys = page["R"].keys /\ page'["S"].peerKey = page["S"].peerKey
      BY <2>1, <2>2 DEF Turn, Page
    <3>6. Proper(p, {task}, none)
      BY <1>a, <1>d, <1>e, <1>f, <2>2, <2>3, <3>5 DEF Proper, First, OneKey
    <3>7. /\ \A c \in Chain : c.of = "keys" /\ Held(c)' =>
               page'["R"].keys \in {0, page["R"].keys} /\ asm' \in {0, asm}
          /\ UNCHANGED <<chunker, saved>> /\ got' \in {got, NoChunks}
      BY <1>e, <3>5
    <3>. QED  BY <2>1, <3>3, <3>4, <3>6, <3>7, MovedTurn
  <2>. QED  BY <2>4, <2>5
<1>. QED  BY <1>1, <1>2

\* MANIFEST: ACCEPT is to be sent.
LEMMA AcceptFirst ==
  ASSUME Typed, Typed', First, NEW t, HandleManifest(t)
  PROVE  First'
<1> DEFINE me == [End(page["R"], t) EXCEPT !.approved = TRUE]
           now == Go(me, "TRANSFERRING")
           shown == [now EXCEPT !.view = "transfer"]
           after == IF now.ui = "ERROR" THEN now ELSE SendControl(shown, "send", "ACCEPT")
           task == Task("send", Signal("ACCEPT", 1))
<1>a. /\ "R" \in Page /\ t \in page["R"].tasks /\ t.kind = "control" /\ t.type = "MANIFEST"
      /\ page["R"] \in PageType /\ End(page["R"], t) \in PageType
  BY PendingType DEF HandleManifest, Page
<1>b. page["R"].keys \in {0, 1}
  BY DEF First, OneKey
<1>c. me \in PageType /\ me.tasks = page["R"].tasks \ {t} /\ Keyed(page["R"], me)
  <2>1. End(page["R"], t).tasks = page["R"].tasks \ {t} /\ Keyed(page["R"], End(page["R"], t))
    BY <1>a, Effects, KeyedEffects
  <2>. QED  BY <1>a, <2>1 DEF PageType, Keyed
<1>d. now \in PageType /\ now.tasks = page["R"].tasks \ {t} /\ Keyed(page["R"], now)
  <2> HIDE DEF me
  <2>1. now \in PageType /\ now.tasks = me.tasks /\ Keyed(me, now)
    BY <1>c, GoType, Effects, KeyedEffects DEF UIState
  <2>. QED  BY <1>c, <2>1, KeyedTrans
<1>e. after.tasks \subseteq (page["R"].tasks \ {t}) \cup {task} /\ Keyed(page["R"], after)
  <2> HIDE DEF now, task
  <2>1. shown \in PageType /\ shown.tasks = page["R"].tasks \ {t} /\ Keyed(page["R"], shown)
    BY <1>d DEF PageType, Keyed
  <2> HIDE DEF shown
  <2>2. /\ SendControl(shown, "send", "ACCEPT").tasks \subseteq shown.tasks \cup {task}
        /\ Keyed(shown, SendControl(shown, "send", "ACCEPT"))
    BY <1>b, <2>1, OneSending DEF Keyed, task
  <2>. QED  BY <1>d, <2>1, <2>2, KeyedTrans
<1>f. /\ UNCHANGED <<chunker, saved, net>> /\ Queues("R", 0, {})
      /\ \/ Become("R", Failed(me)) /\ UNCHANGED <<asm, got>>
         \/ me.keys # 0 /\ asm' = me.keys /\ got' = NoChunks /\ Become("R", after)
  BY <1>a, StillQueues DEF HandleManifest, userVars
<1>g. task.kind = "send" /\ task.type = "ACCEPT" /\ task.key = 1
  BY SignalParts
<1>h. \A c \in Chain : /\ c.of = "loop" => OnTask(c, "R", t)
                       /\ c.of # "loop" => ~OnTask(c, "R", task)
  BY <1>a, <1>g, LoopTasks
<1> HIDE DEF me, now, shown, after, task
<1>1. CASE Become("R", Failed(me)) /\ UNCHANGED <<asm, got>>
  <2>1. Failed(me).tasks \subseteq (page["R"].tasks \ {t}) \cup {} /\ Keyed(me, Failed(me))
    BY <1>c, Effects, KeyedEffects
  <2>2. Turn("R", {t}, {}, 0, {}) /\ page'["R"] = Failed(me)
    BY <1>1, <1>a, <1>c, <1>f, <2>1, TurnOf DEF Keyed
  <2>3. page'["R"].keys = page["R"].keys /\ page'["R"].peerKey = page["R"].peerKey
    BY <1>c, <2>1, <2>2 DEF Keyed
  <2>4. ~Finalizing
    BY <1>a, <1>h, LoopHeld
  <2>5. UNCHANGED <<chunker, asm, got, saved>>
    BY <1>1, <1>f
  <2>. QED  BY <1>a, <2>2, <2>3, <2>4, <2>5, QuietTurn
<1>2. CASE me.keys # 0 /\ asm' = me.keys /\ got' = NoChunks /\ Become("R", after)
  <2>1. Turn("R", {t}, {task}, 0, {}) /\ page'["R"] = after
    BY <1>2, <1>a, <1>e, <1>f, TurnOf DEF Keyed
  <2>2. page["R"].keys = 1 /\ asm' = 1 /\ page'["R"].keys = 1
    BY <1>2, <1>b, <1>c, <1>e, <2>1 DEF Keyed
  <2>3. ~Finalization(task) /\ ~Streaming(task) /\ Fits("R", task)
    BY <1>g DEF Finalization, Streaming, Fits
  <2>4. page'["S"] = page["S"]
    BY <2>1 DEF Turn, Page
  <2>5. Proper("R", {task}, {})
    BY <1>f, <1>g, <2>2, <2>3, <2>4 DEF Proper, First, OneKey
  <2>6. ASSUME NEW c \in Chain, c.of = "keys" PROVE ~Held(c)'
    <3>1. PICK none : none = {} /\ Turn("R", {t}, {task}, 0, none)
      BY <2>1
    <3>2. /\ \A u \in {task} : ~OnTask(c, "R", u)
          /\ \A frame \in none : ~OnFrame(c, Peer("R"), frame)
          /\ One(c) /\ ~Ended(c)'
      BY <1>h, <2>6, <3>1 DEF Ended, First, Chains
    <3>3. Held(c)' => Held(c)
      BY <1>a, <2>6, <3>1, <3>2, ChainKept
    <3>. QED  BY <2>2, <2>6, <3>3 DEF First, Order
  <2>. QED  BY <1>a, <1>f, <1>h, <1>2, <2>1, <2>3, <2>5, <2>6, LoopTask
<1>. QED  BY <1>1, <1>2, <1>f
------------------------------------------------------------------------------
(* The loop, and the chunks. *)

\* The loop reads a chunk, or is over.
LEMMA StreamOne ==
  ASSUME OneKey, NEW me \in PageType, me.keys \in {0, 1}
  PROVE  /\ Keyed(me, Stream(me))
         /\ \/ Stream(me).tasks \subseteq me.tasks \cup {Task("send", Signal("COMPLETE", 1))}
            \/ \E u : /\ Stream(me).tasks \subseteq me.tasks \cup {u}
                      /\ u.kind = "read" /\ u.index = chunker.next /\ u.key = 1 /\ chunker.key = 1
<1>1. Keyed(me, Stream(me))
  BY KeyedSending
<1>2. CASE chunker = NoChunker \/ me.isCancelled
  <2>1. Stream(me).tasks = me.tasks
    BY <1>2, Effects DEF Stream
  <2>. QED  BY <1>1, <2>1
<1>3. CASE chunker # NoChunker /\ ~me.isCancelled /\ chunker.next < NumChunks
  <2>1. PICK u : u = Task("read", Frame("CHUNK", chunker.next, "intact", chunker.key))
    OBVIOUS
  <2>2. u.kind = "read" /\ u.index = chunker.next /\ u.key = chunker.key
    BY <2>1 DEF Task, Frame
  <2>3. Stream(me) = Start(me, u)
    BY <1>3, <2>1 DEF Stream
  <2>4. Stream(me).tasks \subseteq me.tasks \cup {u}
    BY <2>3, Effects
  <2>5. chunker.key = 1
    BY <1>3 DEF OneKey
  <2>. QED  BY <1>1, <2>2, <2>4, <2>5
<1>4. CASE chunker # NoChunker /\ ~me.isCancelled /\ ~(chunker.next < NumChunks)
  <2>1. Stream(me) = SendControl(me, "send", "COMPLETE")
    BY <1>4 DEF Stream
  <2>. QED  BY <1>1, <2>1, OneSending
<1>. QED  BY <1>2, <1>3, <1>4

\* An acceptance or the loop itself is followed by the reading of a chunk.
LEMMA ReadStarts ==
  ASSUME Typed, Typed', First, NEW t \in page["S"].tasks, Accepting(t) \/ t.kind = "loop",
         NEW u, Turn("S", {t}, {u}, 0, {}), UNCHANGED <<chunker, asm, got, saved>>,
         page'["S"].keys = page["S"].keys, page'["S"].peerKey = page["S"].peerKey,
         u.kind = "read", u.index = chunker.next, u.key = 1, chunker.key = 1
  PROVE  First'
<1>a. "S" \in Page /\ page'["R"] = page["R"]
  BY DEF Turn, Page
<1>1. PICK none : none = {} /\ Turn("S", {t}, {u}, 0, none)
  OBVIOUS
<1>2. ~Finalization(u) /\ Fits("S", u) /\ \A c \in Chain : ~OnTask(c, "S", u)
  BY DEF Finalization, Fits, OnTask, Accepting
<1>3. Proper("S", {u}, none)
  BY <1>1, <1>2 DEF Proper, First, OneKey
<1>4. \A v \in page["S"].tasks : Streaming(v) => v = t
  <2>1. CASE Accepting(t)
    <3>1. \A c \in Chain : c.of = "loop" => OnTask(c, "S", t)
      BY <2>1 DEF OnTask
    <3>. QED  BY <1>a, <3>1, LoopHeld
  <2>2. CASE t.kind = "loop"
    BY <2>2 DEF First, OneLoop, Streaming
  <2>. QED  BY <2>1, <2>2
<1>5. OneLoop'
  BY <1>1, <1>4 DEF OneLoop, Turn
<1>6. ASSUME NEW c \in Chain, c.of = "loop", Accepting(t) PROVE One(c)' /\ Held(c)
  <2>1. OnTask(c, "S", t) /\ One(c)
    BY <1>6 DEF OnTask, First, Chains
  <2>2. /\ \A v \in {u} : ~OnTask(c, "S", v)
        /\ \A frame \in none : ~OnFrame(c, Peer("S"), frame)
    BY <1>1, <1>2
  <2>. QED  BY <1>a, <1>1, <1>6, <2>1, <2>2, TaskOver
<1>7. \A c \in Chain :
        \/ c.of # "chunk" /\ One(c)' /\ Held(c)
        \/ /\ \A v \in {u} : ~OnTask(c, "S", v)
           /\ \A frame \in none : ~OnFrame(c, Peer("S"), frame)
           /\ c.of = "loop" /\ Ended(c)' => Ended(c)
  <2> SUFFICES ASSUME NEW c \in Chain, c.of = "loop" => ~Accepting(t)
               PROVE  c.of = "loop" /\ Ended(c)' => Ended(c)
    BY <1>1, <1>2, <1>6
  <2>. QED  BY DEF Ended, Streaming
<1>8. (\A c \in Chain : Held(c)' => Held(c)) /\ (Final' => First')
  BY <1>a, <1>1, <1>3, <1>5, <1>7, MovedChains
<1>9. Final'
  BY <1>a, <1>1, <1>8, FinalKept DEF First
<1>. QED  BY <1>8, <1>9

\* An acceptance starts the loop, or it goes on.
LEMMA LoopGoes ==
  ASSUME Typed, Typed', First, NEW t \in page["S"].tasks, Accepting(t) \/ t.kind = "loop",
         NEW now, Become("S", now), Keyed(page["S"], now),
         UNCHANGED <<net, chunker, asm, got, saved>>,
         \/ now.tasks \subseteq (page["S"].tasks \ {t}) \cup {Task("send", Signal("COMPLETE", 1))}
         \/ \E u : /\ now.tasks \subseteq (page["S"].tasks \ {t}) \cup {u}
                   /\ u.kind = "read" /\ u.index = chunker.next /\ u.key = 1 /\ chunker.key = 1
  PROVE  First'
<1>a. "S" \in Page /\ Queues("S", 0, {})
  BY StillQueues DEF Page
<1>b. page'["S"] = now
  BY <1>a, BecomeIs
<1>c. page'["S"].keys = page["S"].keys /\ page'["S"].peerKey = page["S"].peerKey
  BY <1>b DEF Keyed
<1>1. CASE now.tasks \subseteq (page["S"].tasks \ {t}) \cup {Task("send", Signal("COMPLETE", 1))}
  <2>1. PICK u : u = Task("send", Signal("COMPLETE", 1))
    OBVIOUS
  <2>2. PlainTask("S", u) /\ ~Finalization(u)
    BY <2>1 DEF Task, Signal, Frame, PlainTask, Finalization
  <2>3. Turn("S", {t}, {u}, 0, {})
    BY <1>1, <1>a, <2>1, TurnOf DEF Keyed
  <2>. QED  BY <1>a, <1>c, <2>2, <2>3, QuietTurn
<1>2. ASSUME NEW u, now.tasks \subseteq (page["S"].tasks \ {t}) \cup {u},
             u.kind = "read", u.index = chunker.next, u.key = 1, chunker.key = 1
      PROVE  First'
  <2>1. Turn("S", {t}, {u}, 0, {})
    BY <1>2, <1>a, TurnOf DEF Keyed
  <2>. QED  BY <1>2, <1>c, <2>1, ReadStarts
<1>. QED  BY <1>1, <1>2

\* ACCEPT, and the loop after its pause.
LEMMA LoopFirst ==
  ASSUME Typed, Typed', First, NEW t
  PROVE  /\ HandleAccept(t) => First'
         /\ StreamStep(t) => First'
<1>a. "S" \in Page /\ page["S"] \in PageType /\ page["S"].keys \in {0, 1} /\ OneKey
  BY DEF Typed, Page, First, OneKey
<1>b. ASSUME t \in page["S"].tasks
      PROVE  /\ End(page["S"], t) \in PageType /\ End(page["S"], t).tasks = page["S"].tasks \ {t}
             /\ Keyed(page["S"], End(page["S"], t))
  <2>1. t \in TaskType
    BY <1>a, <1>b DEF PageType
  <2>. QED  BY <1>a, <2>1, StartEndType, Effects, KeyedEffects
<1>1. ASSUME HandleAccept(t) PROVE First'
  <2> DEFINE me == [End(page["S"], t) EXCEPT !.approved = TRUE]
             now == Go(me, "TRANSFERRING")
             shown == [now EXCEPT !.view = "transfer"]
             after == IF now.ui = "ERROR" THEN now
                      ELSE IF chunker = NoChunker \/ me.conn = "none" THEN shown
                      ELSE Stream(shown)
  <2>1. /\ t \in page["S"].tasks /\ Accepting(t) /\ Become("S", after)
        /\ UNCHANGED <<net, chunker, asm, got, saved>>
    BY <1>1 DEF HandleAccept, Pending, Accepting, fileVars, asmVars, userVars
  <2>2. me \in PageType /\ me.tasks = page["S"].tasks \ {t} /\ Keyed(page["S"], me)
    BY <1>b, <2>1 DEF PageType, Keyed
  <2>3. now \in PageType /\ now.tasks = page["S"].tasks \ {t} /\ Keyed(page["S"], now)
    <3> HIDE DEF me
    <3>1. now \in PageType /\ now.tasks = me.tasks /\ Keyed(me, now)
      BY <2>2, GoType, Effects, KeyedEffects DEF UIState
    <3>. QED  BY <2>2, <3>1, KeyedTrans
  <2>4. shown \in PageType /\ shown.tasks = page["S"].tasks \ {t} /\ Keyed(page["S"], shown)
    <3> HIDE DEF now
    <3>. QED  BY <2>3 DEF PageType, Keyed
  <2>5. /\ Keyed(page["S"], Stream(shown))
        /\ \/ Stream(shown).tasks \subseteq
                (page["S"].tasks \ {t}) \cup {Task("send", Signal("COMPLETE", 1))}
           \/ \E u : /\ Stream(shown).tasks \subseteq (page["S"].tasks \ {t}) \cup {u}
                     /\ u.kind = "read" /\ u.index = chunker.next /\ u.key = 1 /\ chunker.key = 1
    <3> HIDE DEF shown
    <3>1. shown.keys \in {0, 1}
      BY <1>a, <2>4 DEF Keyed
    <3>. QED  BY <1>a, <2>4, <3>1, StreamOne, KeyedTrans
  <2> HIDE DEF me, now, shown
  <2>6. /\ Keyed(page["S"], after)
        /\ \/ after.tasks \subseteq
                (page["S"].tasks \ {t}) \cup {Task("send", Signal("COMPLETE", 1))}
           \/ \E u : /\ after.tasks \subseteq (page["S"].tasks \ {t}) \cup {u}
                     /\ u.kind = "read" /\ u.index = chunker.next /\ u.key = 1 /\ chunker.key = 1
    BY <2>3, <2>4, <2>5
  <2> HIDE DEF after
  <2>. QED  BY <2>1, <2>6, LoopGoes
<1>2. ASSUME StreamStep(t) PROVE First'
  <2> DEFINE me == End(page["S"], t)
  <2>1. /\ t \in page["S"].tasks /\ t.kind = "loop" /\ Become("S", Stream(me))
        /\ UNCHANGED <<net, chunker, asm, got, saved>>
    BY <1>2 DEF StreamStep, Pending, fileVars, asmVars, userVars
  <2>2. me \in PageType /\ me.tasks = page["S"].tasks \ {t} /\ Keyed(page["S"], me)
    BY <1>b, <2>1
  <2>3. me.keys \in {0, 1}
    BY <1>a, <2>2 DEF Keyed
  <2>4. /\ Keyed(page["S"], Stream(me))
        /\ \/ Stream(me).tasks \subseteq
                (page["S"].tasks \ {t}) \cup {Task("send", Signal("COMPLETE", 1))}
           \/ \E u : /\ Stream(me).tasks \subseteq (page["S"].tasks \ {t}) \cup {u}
                     /\ u.kind = "read" /\ u.index = chunker.next /\ u.key = 1 /\ chunker.key = 1
    <3> HIDE DEF me
    <3>. QED  BY <1>a, <2>2, <2>3, StreamOne, KeyedTrans
  <2> HIDE DEF me
  <2>. QED  BY <2>1, <2>4, LoopGoes
<1>. QED  BY <1>1, <1>2

\* A streaming loop has used up the right to stream.
LEMMA LoopUsed ==
  ASSUME First, NEW t \in page["S"].tasks, Streaming(t)
  PROVE  /\ \A c \in Chain : c.of = "loop" => ~Held(c) /\ Ended(c)
         /\ \A u \in page["S"].tasks : Streaming(u) => u = t
<1>1. \A c \in Chain : c.of = "loop" => Ended(c)
  BY DEF Ended
<1>2. \A c \in Chain : c.of = "loop" => ~Held(c)
  BY <1>1 DEF First, Chains, One
<1>3. \A u \in page["S"].tasks : Streaming(u) => u = t
  BY DEF First, OneLoop
<1>. QED  BY <1>1, <1>2, <1>3

\* The chain of a chunk.
LEMMA ChunkChain ==
  ASSUME NEW i \in Index
  PROVE  \E c \in Chain : c.of = "chunk" /\ c.index = i
<1>1. [of |-> "chunk", index |-> i] \in Chain
  BY DEF Chain
<1>. QED  BY <1>1

\* A turn that passes on one chunk, while there is a loop.
LEMMA ChunkMoved ==
  ASSUME Typed, Typed', First, NEW p \in Page, NEW cut, NEW add, NEW s \in {0, 1},
         NEW new, Turn(p, cut, add, s, new), Proper(p, add, new), OneLoop', NEW c \in Chain,
         c.of = "chunk", One(c)', Held(c), \A d \in Chain : d.of = "loop" => ~Held(d),
         \A d \in Chain : d.of # "chunk" \/ d.index # c.index => Spares(p, add, new, d),
         page'["R"].keys = page["R"].keys, asm' = asm
  PROVE  (\A d \in Chain : Held(d)' => Held(d)) /\ One(c)' /\ (Final' => First')
<1>1. PICK M : M = {c}
  OBVIOUS
<1>2. \A d \in Chain : d \notin M => d.of # "chunk" \/ d.index # c.index
  BY <1>1 DEF Chain
<1>3. /\ \A d \in Chain : d \in M => One(d)' /\ (d.of # "chunk" => Held(d))
      /\ \A d \in Chain : d \notin M => Spares(p, add, new, d)
      /\ \A d \in Chain : d.of = "keys" /\ Held(d)' =>
           page'["R"].keys \in {0, page["R"].keys} /\ asm' \in {0, asm}
      /\ \/ \A d \in Chain : d.of = "chunk" =>
              /\ Ended(d)' => Ended(d)
              /\ d \in M => (HasTask(d)' => HasTask(d)) /\ (HasFrame(d)' => HasFrame(d))
         \/ \A d \in Chain : d.of = "loop" => ~Held(d)
  BY <1>1, <1>2
<1>4. \A d \in Chain : Held(d)' => Held(d) \/ (d \in M /\ d.of = "chunk")
  BY <1>3, ChainsKept DEF First
<1>5. \A d \in Chain : Held(d)' => Held(d)
  BY <1>1, <1>4
<1>. QED  BY <1>3, <1>5, PassedOn

\* The loop sends the chunk it has read.
LEMMA ChunkSent ==
  ASSUME Typed, Typed', First, NEW t \in page["S"].tasks, t.kind = "read", t.key = 1,
         page["S"].conn # "none", NEW loop, loop.kind = "loop", NEW frame,
         frame.type = "CHUNK", frame.index = t.index, frame.key = 1,
         Turn("S", {t}, {loop}, 0, {frame}), UNCHANGED <<asm, got, saved>>,
         chunker' = IF t.key = chunker.key THEN [chunker EXCEPT !.next = @ + 1] ELSE chunker,
         page'["S"].keys = page["S"].keys, page'["S"].peerKey = page["S"].peerKey
  PROVE  First'
<1>a. /\ "S" \in Page /\ Peer("S") = "R" /\ page'["R"] = page["R"]
      /\ t.index \in Index /\ t.index \in Nat /\ chunker \in ChunkerType
  <2>1. t \in TaskType
    BY DEF Typed, PageType, Page
  <2>. QED  BY <2>1, SessionAssumption DEF Turn, Page, Peer, Typed, TaskType, Index
<1>b. t.index = chunker.next /\ chunker.key = 1
  BY DEF First, Kinds
<1>c. chunker'.key = 1 /\ chunker'.next = chunker.next + 1
  BY <1>a, <1>b DEF ChunkerType
<1>d. /\ \A c \in Chain : c.of = "loop" => ~Held(c) /\ Ended(c)
      /\ \A u \in page["S"].tasks : Streaming(u) => u = t
  BY LoopUsed DEF Streaming
<1>e. /\ ~Finalization(loop) /\ Streaming(loop) /\ Fits("S", loop)
      /\ \A c \in Chain : ~OnTask(c, "S", loop)
  BY DEF Finalization, Streaming, Fits, OnTask, Accepting
<1>1. \A u \in page'["S"].tasks : Streaming(u) => u = loop
  BY <1>d DEF Turn
<1>2. OneLoop'
  BY <1>1 DEF OneLoop
<1>3. Proper("S", {loop}, {frame})
  <2>1. \A u \in page'["S"].tasks : u.kind # "read"
    BY <1>1 DEF Streaming
  <2>. QED  BY <1>c, <1>e, <2>1 DEF Proper, First, OneKey
<1>4. \A i \in Nat : Unsent(i)' => Unsent(i) /\ i # t.index
  <2> SUFFICES ASSUME NEW i \in Nat, Unsent(i)' PROVE Unsent(i) /\ i # t.index
    OBVIOUS
  <2>1. chunker.next \in Nat /\ chunker.next + 1 <= i
    BY <1>a, <1>c DEF Unsent, ChunkerType
  <2>2. chunker.next <= i /\ chunker.next # i
    BY <2>1
  <2>. QED  BY <1>b, <2>2 DEF Unsent
<1>5. PICK c \in Chain : c.of = "chunk" /\ c.index = t.index
  BY <1>a, ChunkChain
<1>6. Waiting(c) /\ ~Waiting(c)'
  <2>1. Unsent(t.index)
    BY <1>a, <1>b DEF Unsent, ChunkerType
  <2>2. ~Unsent(t.index)'
    BY <1>a, <1>4
  <2>. QED  BY <1>5, <2>1, <2>2 DEF Waiting
<1>7. One(c)' /\ Held(c)
  <2>1. One(c) /\ (Ended(c)' => Ended(c)) /\ \A u \in {loop} : ~OnTask(c, "S", u)
    BY <1>5, <1>e DEF First, Chains, Ended
  <2>2. PICK add : add = {loop} /\ Turn("S", {t}, add, 0, {frame})
    <3>1. Turn("S", {t}, {loop}, 0, {frame})
      OBVIOUS
    <3>. QED  BY <3>1
  <2>3. (\A u \in add : ~OnTask(c, "S", u)) /\ "S" \in Page /\ 0 \in {0, 1} /\ c \in Chain
    BY <1>a, <1>e, <2>2
  <2>. QED  BY <1>6, <2>1, <2>2, <2>3, WaitToFrame
<1>8. ASSUME NEW d \in Chain, d.of # "chunk" \/ d.index # c.index
      PROVE  Spares("S", {loop}, {frame}, d)
  <2>1. ~OnFrame(d, Peer("S"), frame)
    BY <1>5, <1>8 DEF OnFrame
  <2>2. d.of = "chunk" => (Unsent(d.index)' => Unsent(d.index))
    <3>1. d.index \in Nat
      BY SessionAssumption DEF Chain, Index
    <3>. QED  BY <1>4, <3>1
  <2>3. Ended(d)' => Ended(d)
    BY <1>d DEF Ended
  <2>. QED  BY <1>e, <2>1, <2>2, <2>3 DEF Spares
<1>9. Final'
  <2>1. ~Finalizing
    BY <1>7, HeldIdle
  <2>2. \A u \in {loop} : "S" = "R" => ~Finalization(u)
    OBVIOUS
  <2>. QED  BY <1>a, <2>1, <2>2, FinalIdle
<1>10. page'["R"].keys = page["R"].keys /\ \A d \in Chain : d.of = "loop" => ~Held(d)
  BY <1>a, <1>d
<1>. QED  BY <1>a, <1>2, <1>3, <1>5, <1>7, <1>8, <1>9, <1>10, ChunkMoved

\* nextChunk returns: the chunk is sent, or the page is in error.
LEMMA SendChunkFirst ==
  ASSUME Typed, Typed', First, NEW t, SendChunk(t)
  PROVE  First'
<1> DEFINE me == End(page["S"], t)
<1>a. /\ "S" \in Page /\ t \in page["S"].tasks /\ t.kind = "read" /\ me \in PageType
      /\ page["S"] \in PageType
  BY PendingType DEF SendChunk, Page
<1>b. t.key = 1
  BY <1>a DEF First, OneKey
<1>c. me.tasks = page["S"].tasks \ {t} /\ Keyed(page["S"], me)
  BY <1>a, Effects, KeyedEffects
<1>d. PICK loop : loop = Task("loop", Signal("", 0)) /\ loop.kind = "loop"
  <2>1. Task("loop", Signal("", 0)).kind = "loop"
    BY DEF Task
  <2>. QED  BY <2>1
<1>e. /\ \/ /\ page["S"].conn = "open" /\ Become("S", Start(me, loop))
            /\ \E content : net' = Sent(net, "S", Frame("CHUNK", t.index, content, 1))
         \/ Become("S", Failed(me)) /\ UNCHANGED net
      /\ chunker' = IF t.key = chunker.key THEN [chunker EXCEPT !.next = @ + 1] ELSE chunker
      /\ UNCHANGED <<asm, got, saved>>
  BY <1>b, <1>d DEF SendChunk, Sendable, asmVars, userVars
<1> HIDE DEF me
<1>1. CASE Become("S", Failed(me)) /\ UNCHANGED net
  <2>1. Failed(me).tasks \subseteq (page["S"].tasks \ {t}) \cup {} /\ Keyed(me, Failed(me))
    BY <1>a, <1>c, Effects, KeyedEffects
  <2>2. Queues("S", 0, {})
    BY <1>1, <1>a, StillQueues
  <2>3. PICK none : none = {} /\ Turn("S", {t}, none, 0, none) /\ page'["S"] = Failed(me)
    <3>1. Turn("S", {t}, {}, 0, {}) /\ page'["S"] = Failed(me)
      BY <1>1, <1>a, <1>c, <2>1, <2>2, TurnOf DEF Keyed
    <3>. QED  BY <3>1
  <2>4. page'["S"].keys = page["S"].keys /\ page'["S"].peerKey = page["S"].peerKey
    BY <1>c, <2>1, <2>3 DEF Keyed
  <2>5. \A u \in page["S"].tasks : Streaming(u) => u = t
    BY <1>a, LoopUsed DEF Streaming
  <2>6. \A u \in page'["S"].tasks : u.kind # "read"
    BY <2>3, <2>5 DEF Turn, Streaming
  <2>7. PlainRest("S")
    BY <1>b, <1>e, <2>4, <2>6 DEF PlainRest, Typed, ChunkerType
  <2>8. /\ \A u \in none : PlainTask("S", u) /\ ~Finalization(u)
        /\ \A frame \in none : PlainFrame(frame)
        /\ saved' = saved
    BY <1>e, <2>3
  <2>. QED  BY <1>a, <2>3, <2>7, <2>8, PlainTurn
<1>2. ASSUME page["S"].conn = "open", Become("S", Start(me, loop)),
             NEW content, net' = Sent(net, "S", Frame("CHUNK", t.index, content, 1))
      PROVE  First'
  <2>1. PICK frame : frame = Frame("CHUNK", t.index, content, 1)
    OBVIOUS
  <2>2. frame.type = "CHUNK" /\ frame.index = t.index /\ frame.key = 1
    BY <2>1 DEF Frame
  <2>3. Queues("S", 0, {frame})
    BY <1>2, <1>a, <2>1, SentQueues
  <2>4. /\ Start(me, loop).tasks \subseteq (page["S"].tasks \ {t}) \cup {loop}
        /\ Keyed(me, Start(me, loop))
    BY <1>a, <1>c, Effects, KeyedEffects
  <2>5. Turn("S", {t}, {loop}, 0, {frame}) /\ page'["S"] = Start(me, loop)
    BY <1>2, <1>a, <1>c, <2>3, <2>4, TurnOf DEF Keyed
  <2>6. page'["S"].keys = page["S"].keys /\ page'["S"].peerKey = page["S"].peerKey
    BY <1>c, <2>4, <2>5 DEF Keyed
  <2>7. page["S"].conn # "none"
    BY <1>2
  <2>. QED  BY <1>a, <1>b, <1>d, <1>e, <2>2, <2>5, <2>6, <2>7, ChunkSent
<1>. QED  BY <1>1, <1>2, <1>e
------------------------------------------------------------------------------
(* The receiver of the chunks, and the finalization. *)

\* A chunk on its way: it is not stored, and nothing else is to be done before it.
LEMMA ChunkWay ==
  ASSUME First, NEW c \in Chain, c.of = "chunk", HasTask(c) \/ HasFrame(c)
  PROVE  /\ One(c) /\ Held(c) /\ got[c.index] = "missing" /\ ~Finalizing
         /\ \A d \in Chain : d.of = "loop" => ~Held(d)
<1>1. One(c) /\ Held(c)
  BY DEF First, Chains, Held
<1>2. got[c.index] = "missing"
  BY <1>1 DEF One, Ended
<1>3. \A d \in Chain : d.of = "loop" => ~Held(d)
  BY DEF First, Order
<1>. QED  BY <1>1, <1>2, <1>3, HeldIdle

\* A chunk arrives.
LEMMA ReceiveFirst ==
  ASSUME Typed, Typed', First
  PROVE  net["R"] # <<>> /\ Head(net["R"]).type = "CHUNK" /\ ReceiveChunk(Head(net["R"])) => First'
<1>0. SUFFICES ASSUME net["R"] # <<>>, Head(net["R"]).type = "CHUNK", ReceiveChunk(Head(net["R"]))
               PROVE  First'
  OBVIOUS
<1>a. "R" \in Page /\ page["R"] \in PageType /\ Peer("R") = "S"
  BY DEF Typed, Page, Peer
<1>b. PICK head : head = Head(net["R"]) /\ head.type = "CHUNK" /\ head.key = 1 /\ head.index \in Index
  <2>1. Head(net["R"]) \in Frames(net["R"]) /\ Head(net["R"]) \in FrameType
    BY <1>0, <1>a, QueueEffects, HeadType DEF Typed
  <2>. QED  BY <1>0, <1>a, <2>1 DEF First, OneKey, FrameType
<1>c. PICK c \in Chain : c.of = "chunk" /\ c.index = head.index
  BY <1>b, ChunkChain
<1>d. OnFrame(c, "R", head) /\ HasFrame(c)
  <2>1. OnFrame(c, "R", head)
    BY <1>b, <1>c DEF OnFrame
  <2>2. net["R"] \in Seq(FrameType)
    BY <1>a DEF Typed, NetType
  <2>3. 1 \in DOMAIN net["R"] /\ net["R"][1] = head
    BY <1>0, <1>b, <2>2
  <2>. QED  BY <1>a, <2>1, <2>3 DEF HasFrame
<1>e. /\ One(c) /\ got[head.index] = "missing"
      /\ \A d \in Chain : d.of = "loop" => ~Held(d)
      /\ ~Finalizing
  BY <1>c, <1>d, ChunkWay
<1>f. PICK none : none = {} /\ Queues("R", 1, none)
  <2>1. Queues("R", 1, {})
    BY <1>0, <1>a, TakenQueues DEF ReceiveChunk
  <2>. QED  BY <2>1
<1>g. PICK task : task = Task("chunk", head)
  OBVIOUS
<1>h. task.kind = "chunk" /\ task.index = head.index /\ task.key = 1
  BY <1>b, <1>g DEF Task
<1>i. /\ UNCHANGED <<chunker, asm, got, saved>>
      /\ Become("R", page["R"]) \/ (asm = 1 /\ Become("R", Start(page["R"], task)))
  <2>1. asm \in {0, 1}
    BY DEF First, OneKey
  <2>. QED  BY <1>0, <1>b, <1>e, <1>g, <2>1 DEF ReceiveChunk, fileVars, asmVars, userVars
<1>1. CASE Become("R", page["R"])
  <2>1. Turn("R", {}, none, 1, none) /\ page'["R"] = page["R"]
    BY <1>1, <1>a, <1>f, TurnOf
  <2>2. /\ \A u \in none : PlainTask("R", u) /\ ~Finalization(u)
        /\ \A frame \in none : PlainFrame(frame)
    BY <1>f
  <2>. QED  BY <1>a, <1>i, <2>1, <2>2, QuietTurn
<1>2. CASE Become("R", Start(page["R"], task))
  <2>1. /\ Start(page["R"], task).tasks \subseteq (page["R"].tasks \ {}) \cup {task}
        /\ Keyed(page["R"], Start(page["R"], task))
    BY <1>a, Effects, KeyedEffects
  <2>2. Turn("R", {}, {task}, 1, none) /\ page'["R"] = Start(page["R"], task)
    BY <1>2, <1>a, <1>f, <2>1, TurnOf DEF Keyed
  <2>3. page'["R"].keys = page["R"].keys /\ page'["S"] = page["S"]
    BY <2>1, <2>2 DEF Keyed, Turn, Page
  <2>4. ~Finalization(task) /\ ~Streaming(task) /\ Fits("R", task)
    BY <1>h DEF Finalization, Streaming, Fits
  <2>5. Proper("R", {task}, none)
    BY <1>f, <1>h, <1>i, <2>3, <2>4 DEF Proper, First, OneKey
  <2>6. \A i : Unsent(i)' => Unsent(i)
    BY <1>i, <2>3 DEF Unsent
  <2>7. \A d \in Chain : Ended(d)' => Ended(d)
    BY <1>i, <2>3 DEF Ended
  <2>8. One(c)'
    <3>1. \A frame \in none : ~OnFrame(c, Peer("R"), frame)
      BY <1>f
    <3>. QED  BY <1>0, <1>a, <1>b, <1>d, <1>e, <2>2, <2>6, <2>7, <3>1, FrameToTask
  <2>9. ASSUME NEW d \in Chain, d.of # "chunk" \/ d.index # c.index
        PROVE  Spares("R", {task}, none, d)
    <3>1. ~OnTask(d, "R", task)
      BY <1>c, <1>h, <2>9 DEF OnTask
    <3>. QED  BY <1>f, <2>6, <2>7, <3>1 DEF Spares
  <2>10. OneLoop' /\ Final'
    BY <1>a, <1>e, <1>i, <2>2, <2>4, OneLoopKept, FinalIdle DEF First
  <2>11. Held(c)
    BY <1>d DEF Held
  <2>. QED  BY <1>a, <1>c, <1>e, <1>i, <2>2, <2>3, <2>5, <2>8, <2>9, <2>10, <2>11, ChunkMoved
<1>. QED  BY <1>1, <1>2, <1>i

\* A chunk is stored; with the last one the finalization may start.
LEMMA ChunkStored ==
  ASSUME Typed, Typed', First, NEW t \in page["R"].tasks, t.kind = "chunk", asm = 1,
         NEW add, NEW none, none = {}, Turn("R", {t}, add, 0, none),
         \A u \in add : Finalization(u), \A u, v \in add : u = v,
         \A i \in Index : i # t.index => got'[i] = got[i], UNCHANGED <<chunker, asm, saved>>,
         page'["R"].keys = page["R"].keys,
         add = {} \/ (page'["R"].ui # "ERROR" /\ \A i \in Index : got'[i] # "missing")
  PROVE  First'
<1>a. "R" \in Page /\ page'["S"] = page["S"] /\ t.index \in Index
  <2>1. t \in TaskType
    BY DEF Typed, PageType, Page
  <2>. QED  BY <2>1 DEF Turn, Page, TaskType
<1>b. PICK c \in Chain : c.of = "chunk" /\ c.index = t.index
  BY <1>a, ChunkChain
<1>c. OnTask(c, "R", t) /\ HasTask(c)
  BY <1>a, <1>b DEF OnTask, HasTask
<1>d. /\ One(c) /\ Held(c) /\ ~Finalizing
      /\ \A d \in Chain : d.of = "loop" => ~Held(d)
  BY <1>b, <1>c, ChunkWay
<1>1. \A u \in add : ~Streaming(u) /\ Fits("R", u) /\ \A d \in Chain : ~OnTask(d, "R", u)
  BY DEF Finalization, Streaming, Fits, OnTask, Accepting
<1>2. Proper("R", add, none)
  <2>1. \A u \in add :
          u.kind \notin {"send", "finish", "cancel", "read", "chunk", "derive"}
    BY DEF Finalization
  <2>. QED  BY <1>a, <1>1, <2>1 DEF Proper, First, OneKey
<1>3. \A i : Unsent(i)' => Unsent(i)
  BY <1>a DEF Unsent
<1>4. One(c)' /\ ~Held(c)'
  <2>1. /\ \A u \in add : ~OnTask(c, "R", u)
        /\ \A frame \in none : ~OnFrame(c, Peer("R"), frame)
    BY <1>1
  <2>. QED  BY <1>a, <1>c, <1>d, <1>3, <2>1, TaskOver
<1>5. ASSUME NEW d \in Chain, d.of # "chunk" \/ d.index # c.index
      PROVE  Spares("R", add, none, d)
  <2>1. Ended(d)' => Ended(d)
    <3>1. CASE d.of = "chunk"
      <4>1. got'[d.index] = got[d.index]
        BY <1>a, <1>b, <1>5, <3>1 DEF Chain
      <4>. QED  BY <3>1, <4>1 DEF Ended
    <3>2. CASE d.of # "chunk"
      BY <1>a, <3>2 DEF Ended
    <3>. QED  BY <3>1, <3>2
  <2>. QED  BY <1>1, <1>3, <2>1 DEF Spares
<1>6. OneLoop'
  BY <1>a, <1>1, OneLoopKept DEF First
<1>7. (\A d \in Chain : Held(d)' => Held(d)) /\ (Final' => First')
  BY <1>a, <1>b, <1>d, <1>2, <1>4, <1>5, <1>6, ChunkMoved
<1>8. CASE add = {}
  <2>1. \A u \in add : ~Finalization(u)
    BY <1>8
  <2>. QED  BY <1>a, <1>d, <1>7, <2>1, FinalIdle
<1>9. CASE page'["R"].ui # "ERROR" /\ \A i \in Index : got'[i] # "missing"
  <2>1. saved' = "missing" /\ \A u \in page'["R"].tasks : Finalization(u) => u \in add
    BY <1>d DEF Finalizing, Turn
  <2>2. \A u, v \in page'["R"].tasks : Finalization(u) /\ Finalization(v) => u = v
    BY <2>1
  <2>3. ASSUME NEW d \in Chain PROVE ~Held(d)'
    <3>1. CASE d.of = "loop"
      BY <1>d, <1>7, <3>1
    <3>2. CASE d.of = "keys"
      BY <1>7, <3>2 DEF First, Order
    <3>3. CASE d.of = "chunk" /\ d.index = c.index
      <4>1. d = c
        BY <1>b, <3>3 DEF Chain
      <4>. QED  BY <1>4, <4>1
    <3>4. CASE d.of = "chunk" /\ d.index # c.index
      <4>1. got[d.index] # "missing"
        BY <1>a, <1>b, <1>9, <3>4 DEF Chain
      <4>2. ~Held(d)
        BY <3>4, <4>1 DEF First, Chains, One, Ended
      <4>. QED  BY <1>7, <4>2
    <3>. QED  BY <3>1, <3>2, <3>3, <3>4 DEF Chain
  <2>. QED  BY <1>7, <1>9, <2>1, <2>2, <2>3 DEF Final
<1>. QED  BY <1>8, <1>9

\* The decrypted chunk is written.
LEMMA StoreFirst ==
  ASSUME Typed, Typed', First, NEW t, StoreChunk(t)
  PROVE  First'
<1> DEFINE me == End(page["R"], t)
           now == Go(me, "VERIFYING")
           all == [got EXCEPT ![t.index] = t.content]
           task == Task("verify", Frame("", 0, Whole(all), asm))
<1>a. /\ "R" \in Page /\ t \in page["R"].tasks /\ t.kind = "chunk" /\ t.index \in Index
      /\ page["R"] \in PageType /\ me \in PageType
  <2>1. /\ t \in TaskType /\ t \in page["R"].tasks /\ t.kind = "chunk"
        /\ page["R"] \in PageType /\ me \in PageType
    BY PendingType DEF StoreChunk, Page
  <2>. QED  BY <2>1 DEF TaskType, Page
<1>b. t.key = 1 /\ asm \in {0, 1}
  BY <1>a DEF First, OneKey
<1>c. me.tasks = page["R"].tasks \ {t} /\ Keyed(page["R"], me)
  BY <1>a, Effects, KeyedEffects
<1>d. task.kind = "verify" /\ Finalization(task)
  BY DEF Task, Finalization
<1>e. /\ UNCHANGED <<net, chunker, asm, saved>>
      /\ \/ asm = 0 /\ Become("R", Failed(me)) /\ UNCHANGED got
         \/ asm = 1 /\ got' = all /\ (Become("R", me) \/ Become("R", Failed(me)))
         \/ /\ asm = 1 /\ got' = all /\ Whole(all) # "missing"
            /\ CanGo(me, "VERIFYING") /\ Become("R", Start(now, task))
  BY <1>b DEF StoreChunk, userVars
<1>f. PICK none : none = {} /\ Queues("R", 0, none)
  BY <1>a, <1>e, StillQueues
<1>g. /\ Failed(me).tasks = page["R"].tasks \ {t} /\ Keyed(page["R"], Failed(me))
  BY <1>a, <1>c, Effects, KeyedEffects, KeyedTrans
<1>h. /\ now \in PageType /\ now.tasks = page["R"].tasks \ {t} /\ Keyed(page["R"], now)
      /\ CanGo(me, "VERIFYING") => now.ui = "VERIFYING"
  <2> HIDE DEF me
  <2>1. /\ now \in PageType /\ now.tasks = me.tasks /\ Keyed(me, now)
        /\ CanGo(me, "VERIFYING") => now.ui = "VERIFYING"
    BY <1>a, GoType, Effects, KeyedEffects DEF UIState
  <2>. QED  BY <1>c, <2>1, KeyedTrans
<1>i. ~Finalizing
  <2>1. PICK c \in Chain : c.of = "chunk" /\ c.index = t.index
    BY <1>a, ChunkChain
  <2>2. HasTask(c)
    BY <1>a, <2>1 DEF OnTask, HasTask
  <2>. QED  BY <2>1, <2>2, ChunkWay
<1>j. got' = all => \A i \in Index : i # t.index => got'[i] = got[i]
  BY DEF Typed
<1> HIDE DEF me, now, all, task
<1>1. CASE asm = 0 /\ Become("R", Failed(me)) /\ UNCHANGED got
  <2>1. Turn("R", {t}, none, 0, none) /\ page'["R"] = Failed(me)
    BY <1>1, <1>a, <1>f, <1>g, TurnOf DEF Keyed
  <2>2. /\ \A u \in none : PlainTask("R", u) /\ ~Finalization(u)
        /\ \A frame \in none : PlainFrame(frame)
    BY <1>f
  <2>3. /\ page'["R"].keys = page["R"].keys /\ page'["R"].peerKey = page["R"].peerKey
        /\ UNCHANGED <<chunker, asm, got, saved>>
    BY <1>1, <1>e, <1>g, <2>1 DEF Keyed
  <2>. QED  BY <1>a, <1>i, <2>1, <2>2, <2>3, QuietTurn
<1>2. CASE asm = 1 /\ got' = all /\ (Become("R", me) \/ Become("R", Failed(me)))
  <2>1. Turn("R", {t}, none, 0, none) /\ page'["R"] \in {me, Failed(me)}
    BY <1>2, <1>a, <1>c, <1>f, <1>g, TurnOf DEF Keyed
  <2>2. page'["R"].keys = page["R"].keys
    BY <1>c, <1>g, <2>1 DEF Keyed
  <2>3. (\A u \in none : Finalization(u)) /\ \A u, v \in none : u = v
    BY <1>f
  <2>. QED  BY <1>2, <1>a, <1>e, <1>f, <1>j, <2>1, <2>2, <2>3, ChunkStored
<1>3. CASE /\ asm = 1 /\ got' = all /\ Whole(all) # "missing"
           /\ CanGo(me, "VERIFYING") /\ Become("R", Start(now, task))
  <2>1. /\ Start(now, task).tasks \subseteq (page["R"].tasks \ {t}) \cup {task}
        /\ Keyed(page["R"], Start(now, task)) /\ Start(now, task).ui = "VERIFYING"
    BY <1>3, <1>h, Effects, KeyedEffects, KeyedTrans
  <2>2. Turn("R", {t}, {task}, 0, none) /\ page'["R"] = Start(now, task)
    BY <1>3, <1>a, <1>f, <2>1, TurnOf DEF Keyed
  <2>3. page'["R"].keys = page["R"].keys /\ page'["R"].ui # "ERROR"
    BY <2>1, <2>2 DEF Keyed
  <2>4. \A i \in Index : got'[i] # "missing"
    BY <1>3 DEF Whole
  <2>5. (\A u \in {task} : Finalization(u)) /\ \A u, v \in {task} : u = v
    BY <1>d
  <2>. QED  BY <1>3, <1>a, <1>e, <1>f, <1>j, <2>2, <2>3, <2>4, <2>5, ChunkStored
<1>. QED  BY <1>1, <1>2, <1>3, <1>e

\* A part of the finalization is over, and the next one starts or nothing is left.
LEMMA FinalizationGoes ==
  ASSUME Typed, Typed', First, NEW t \in page["R"].tasks, Finalization(t),
         NEW task, NEW none, none = {}, Turn("R", {t}, {task}, 0, none), PlainTask("R", task),
         UNCHANGED <<chunker, asm, got>>,
         page'["R"].keys = page["R"].keys, page'["R"].peerKey = page["R"].peerKey,
         \/ page'["R"].ui = page["R"].ui /\ (Finalization(task) => saved' = saved)
         \/ saved' = saved /\ ~Finalization(task)
  PROVE  First'
<1>1. /\ saved = "missing" /\ page["R"].ui # "ERROR" /\ \A c \in Chain : ~Held(c)
      /\ \A u \in page["R"].tasks : Finalization(u) => u = t
  BY DEF First, Final, Finalizing
<1>2. /\ PlainRest("R") /\ "R" \in Page /\ \A u \in {task} : PlainTask("R", u)
      /\ \A frame \in none : PlainFrame(frame)
  BY DEF PlainRest, Page
<1>3. (\A c \in Chain : Held(c)' => Held(c)) /\ (Final' => First')
  BY <1>2, PlainChains
<1>4. \A u \in page'["R"].tasks : Finalization(u) => u = task
  BY <1>1 DEF Turn
<1>5. \A u, v \in page'["R"].tasks : Finalization(u) /\ Finalization(v) => u = v
  BY <1>4
<1>6. saved' # "missing" => \A u \in page'["R"].tasks : ~Finalization(u)
  BY <1>1, <1>4
<1>7. Finalizing' => page'["R"].ui # "ERROR"
  BY <1>1, <1>4 DEF Finalizing
<1>. QED  BY <1>1, <1>3, <1>5, <1>6, <1>7 DEF Final

\* Verifying, saving and the last message.
LEMMA FinalizationFirst ==
  ASSUME Typed, Typed', First, NEW t
  PROVE  /\ Verify(t) => First'
         /\ SaveFile(t) => First'
         /\ FinishFinalization(t) => First'
<1>a. "R" \in Page /\ page["R"] \in PageType /\ page["R"].keys \in {0, 1}
  BY DEF Typed, Page, First, OneKey
<1>b. ASSUME t \in page["R"].tasks
      PROVE  /\ End(page["R"], t) \in PageType /\ End(page["R"], t).tasks = page["R"].tasks \ {t}
             /\ Keyed(page["R"], End(page["R"], t)) /\ End(page["R"], t).ui = page["R"].ui
  <2>1. t \in TaskType
    BY <1>a, <1>b DEF PageType
  <2>. QED  BY <1>a, <2>1, StartEndType, Effects, KeyedEffects
<1>c. PICK none : none = {} /\ (UNCHANGED net => Queues("R", 0, none))
  BY <1>a, StillQueues
<1>1. ASSUME t \in page["R"].tasks, Finalization(t), FinalizeFails(End(page["R"], t)),
             UNCHANGED <<net, chunker, asm, got, saved>>
      PROVE  First'
  <2> DEFINE me == Failed(End(page["R"], t))
             now == SendControl(me, "finish", "CANCEL")
             task == Task("finish", Signal("CANCEL", 1))
  <2>1. Become("R", now)
    BY <1>1 DEF FinalizeFails
  <2>2. me \in PageType /\ me.tasks = page["R"].tasks \ {t} /\ Keyed(page["R"], me)
    <3>1. PICK before : before = End(page["R"], t)
      OBVIOUS
    <3>2. /\ Failed(before) \in PageType /\ Failed(before).tasks = before.tasks
          /\ Keyed(before, Failed(before))
      BY <1>1, <1>b, <3>1, GoType, Effects, KeyedEffects DEF UIState
    <3>. QED  BY <1>1, <1>b, <3>1, <3>2, KeyedTrans
  <2>3. PlainTask("R", task) /\ ~Finalization(task)
    BY DEF Task, Signal, Frame, PlainTask, Finalization
  <2>4. now.tasks \subseteq (page["R"].tasks \ {t}) \cup {task} /\ Keyed(page["R"], now)
    <3> HIDE DEF me
    <3>1. me.keys \in {0, 1}
      BY <1>a, <2>2 DEF Keyed
    <3>2. now.tasks \subseteq me.tasks \cup {task} /\ Keyed(me, now)
      BY <2>2, <3>1, OneSending
    <3>. QED  BY <2>2, <3>2, KeyedTrans
  <2> HIDE DEF now, task
  <2>5. Turn("R", {t}, {task}, 0, none) /\ page'["R"] = now
    BY <1>1, <1>a, <1>c, <2>1, <2>4, TurnOf DEF Keyed
  <2>6. page'["R"].keys = page["R"].keys /\ page'["R"].peerKey = page["R"].peerKey
    BY <2>4, <2>5 DEF Keyed
  <2>. QED  BY <1>1, <1>c, <2>3, <2>5, <2>6, FinalizationGoes
<1>2. ASSUME Verify(t) PROVE First'
  <2>1. t \in page["R"].tasks /\ Finalization(t) /\ UNCHANGED <<net, chunker, asm, got, saved>>
    BY <1>2 DEF Verify, Pending, Finalization, userVars
  <2>2. CASE t.content = "intact"
    <3> DEFINE me == End(page["R"], t)
    <3>1. PICK task : task = Task("save", Frame("", 0, t.content, t.key))
      OBVIOUS
    <3>2. PlainTask("R", task) /\ Become("R", Start(me, task))
      BY <1>2, <2>2, <3>1 DEF Verify, PlainTask, Finalization, Task
    <3>3. /\ Start(me, task).tasks \subseteq (page["R"].tasks \ {t}) \cup {task}
          /\ Keyed(page["R"], Start(me, task)) /\ Start(me, task).ui = page["R"].ui
      BY <1>b, <2>1, Effects, KeyedEffects, KeyedTrans
    <3> HIDE DEF me
    <3>4. Turn("R", {t}, {task}, 0, none) /\ page'["R"] = Start(me, task)
      BY <1>a, <1>c, <2>1, <3>2, <3>3, TurnOf DEF Keyed
    <3>5. /\ page'["R"].keys = page["R"].keys /\ page'["R"].peerKey = page["R"].peerKey
          /\ page'["R"].ui = page["R"].ui
      BY <3>3, <3>4 DEF Keyed
    <3>. QED  BY <1>c, <2>1, <3>2, <3>4, <3>5, FinalizationGoes
  <2>3. CASE t.content # "intact"
    <3>1. FinalizeFails(End(page["R"], t))
      BY <1>2, <2>3 DEF Verify
    <3>. QED  BY <1>1, <2>1, <3>1
  <2>. QED  BY <2>2, <2>3
<1>3. ASSUME SaveFile(t) PROVE First'
  <2>1. t \in page["R"].tasks /\ Finalization(t) /\ UNCHANGED <<net, chunker, asm, got>>
    BY <1>3 DEF SaveFile, Pending, Finalization
  <2>2. CASE asm = 0
    BY <1>1, <1>3, <2>1, <2>2 DEF SaveFile
  <2>3. CASE asm # 0
    <3> DEFINE me == [End(page["R"], t) EXCEPT !.view = "complete"]
               now == SendControl(me, "finish", "DOWNLOAD_ACK")
               task == Task("finish", Signal("DOWNLOAD_ACK", 1))
    <3>1. Become("R", now)
      BY <1>3, <2>3 DEF SaveFile
    <3>2. /\ me \in PageType /\ me.tasks = page["R"].tasks \ {t} /\ Keyed(page["R"], me)
          /\ me.ui = page["R"].ui
      BY <1>b, <2>1 DEF PageType, Keyed
    <3>3. PlainTask("R", task) /\ ~Finalization(task)
      BY DEF Task, Signal, Frame, PlainTask, Finalization
    <3>4. /\ now.tasks \subseteq (page["R"].tasks \ {t}) \cup {task} /\ Keyed(page["R"], now)
          /\ now.ui = page["R"].ui
      <4> HIDE DEF me
      <4>1. me.keys \in {0, 1}
        BY <1>a, <3>2 DEF Keyed
      <4>2. now.tasks \subseteq me.tasks \cup {task} /\ Keyed(me, now) /\ now.ui = me.ui
        BY <3>2, <4>1, OneSending
      <4>. QED  BY <3>2, <4>2, KeyedTrans
    <3> HIDE DEF now, task
    <3>5. Turn("R", {t}, {task}, 0, none) /\ page'["R"] = now
      BY <1>a, <1>c, <2>1, <3>1, <3>4, TurnOf DEF Keyed
    <3>6. /\ page'["R"].keys = page["R"].keys /\ page'["R"].peerKey = page["R"].peerKey
          /\ page'["R"].ui = page["R"].ui
      BY <3>4, <3>5 DEF Keyed
    <3>. QED  BY <1>c, <2>1, <3>3, <3>5, <3>6, FinalizationGoes
  <2>. QED  BY <2>2, <2>3
<1>4. ASSUME FinishFinalization(t) PROVE First'
  <2> DEFINE me == End(page["R"], t)
  <2>1. /\ t \in page["R"].tasks /\ t.kind = "finish" /\ Become("R", me)
        /\ UNCHANGED <<chunker, asm, got, saved>>
        /\ net' = Sent(net, "R", Signal(t.type, t.key)) \/ UNCHANGED net
    BY <1>4 DEF FinishFinalization, Pending, userVars
  <2>2. PICK frame : frame = Signal(t.type, t.key) /\ PlainFrame(frame)
    <3>1. t.key = 1 /\ t.type \in {"DOWNLOAD_ACK", "CANCEL"}
      BY <1>a, <2>1 DEF First, OneKey, Kinds
    <3>2. PlainFrame(Signal(t.type, t.key))
      BY <3>1 DEF Signal, Frame, PlainFrame
    <3>. QED  BY <3>2
  <2>3. Queues("R", 0, {frame})
    BY <1>a, <2>1, <2>2, SentQueues, StillQueues
  <2>4. /\ me.tasks \subseteq (page["R"].tasks \ {t}) \cup none /\ Keyed(page["R"], me)
        /\ me.ui = page["R"].ui
    BY <1>b, <2>1
  <2> HIDE DEF me
  <2>5. Turn("R", {t}, none, 0, {frame}) /\ page'["R"] = me
    BY <1>a, <2>1, <2>3, <2>4, TurnOf DEF Keyed
  <2>6. /\ page'["R"].keys = page["R"].keys /\ page'["R"].peerKey = page["R"].peerKey
        /\ page'["R"].ui = page["R"].ui
    BY <2>4, <2>5 DEF Keyed
  <2>7. /\ \A u \in none : PlainTask("R", u) /\ ~Finalization(u)
        /\ \A f \in {frame} : PlainFrame(f)
    BY <1>c, <2>2
  <2>. QED  BY <1>a, <2>1, <2>5, <2>6, <2>7, QuietTurn
<1>. QED  BY <1>2, <1>3, <1>4
------------------------------------------------------------------------------
(* The invariant of the first connection. *)

\* Nothing has begun: both handshakes and every chunk are still to come.
LEMMA InitFirst == Init => FirstInv
<1> SUFFICES ASSUME Init PROVE First
  BY DEF FirstInv
<1>1. /\ \A p \in Page : page[p].tasks = {} /\ page[p].keys = 0 /\ page[p].peerKey = 0
      /\ net = [p \in Page |-> <<>>] /\ chunker = NoChunker /\ asm = 0
      /\ got = NoChunks /\ saved = "missing"
  BY DEF Init
<1>2. \A p \in Page : DOMAIN net[p] = {}
  BY <1>1
<1>3. \A c \in Chain : ~HasTask(c) /\ ~HasFrame(c) /\ ~Ended(c)
  BY <1>1, <1>2 DEF HasTask, HasFrame, Ended, NoChunks, Chain, Page
<1>4. Chains
  BY <1>1, <1>2, <1>3 DEF Chains, One
<1>5. OneKey
  BY <1>1, <1>2 DEF OneKey, Frames, Page
<1>6. OneLoop /\ Kinds /\ Order
  BY <1>1, <1>3 DEF OneLoop, Kinds, Order, Page
<1>7. Final
  BY <1>1 DEF Final, Finalizing, Page
<1>. QED  BY <1>4, <1>5, <1>6, <1>7 DEF First

\* Every step of the first connection keeps it.
LEMMA FirstStep ==
  ASSUME Typed, Typed', Renewing, FirstInv, [Next]_vars
  PROVE  FirstInv'
<1>1. StepFields
  BY StepFieldsOnly
<1> SUFFICES ASSUME epoch' = 1
             PROVE  First'
  BY DEF FirstInv
<1>2. ~\E t : NewTransport(t)
  BY EpochRange DEF NewTransport, Renewing
<1>3. epoch = 1 /\ First
  BY <1>1, <1>2 DEF StepFields, FirstInv
<1>4. ASSUME NEW p \in Page, Open(p) \/ PressCancel(p) \/ PressStartNew(p) PROVE First'
  BY <1>3, <1>4, OpenFirst, CancellingFirst
<1>5. ASSUME NEW p \in Page, net[p] # <<>>, page[p].conn # "none",
             \/ ReceiveHandshake(p, Head(net[p])) /\ Head(net[p]).type = "HANDSHAKE"
             \/ ReceiveControl(p, Head(net[p])) /\ Head(net[p]).type \in Control
      PROVE  First'
  BY <1>3, <1>5, HandshakeFirst, ControlFirst
<1>6. ASSUME NEW p \in Page, NEW t,
             \/ DeriveKeys(p, t) \/ SendEncrypted(p, t) \/ DecryptFails(p, t)
             \/ HandleCancel(p, t) \/ FinishCancel(p, t)
      PROVE  First'
  <2>1. ~DecryptFails(p, t)
    BY <1>3 DEF DecryptFails, Pending, First, Kinds
  <2>. QED  BY <1>3, <1>6, <2>1, DeriveFirst, SendFirst, EndingFirst, CancellingFirst
<1>7. ASSUME NEW t, \/ MakeChunker(t) \/ SendManifest(t) \/ HandleManifest(t) \/ HandleAccept(t)
                    \/ HandleComplete(t) \/ HandleDownloadAck(t) \/ NewTransport(t)
      PROVE  First'
  BY <1>2, <1>3, <1>7, ChunkerFirst, ManifestFirst, AcceptFirst, LoopFirst, EndingFirst DEF Page
<1>8. ASSUME NEW t, \/ StreamStep(t) \/ SendChunk(t) \/ ReadFails(t)
                    \/ StoreChunk(t) \/ Verify(t) \/ SaveFile(t) \/ FinishFinalization(t)
      PROVE  First'
  BY <1>3, <1>8, LoopFirst, SendChunkFirst, EndingFirst, StoreFirst, FinalizationFirst DEF Page
<1>9. CASE \/ net["R"] # <<>> /\ Head(net["R"]).type = "CHUNK" /\ ReceiveChunk(Head(net["R"]))
           \/ net["S"] # <<>> /\ page["S"].conn # "none" /\ PeerLeft
           \/ SignalingCloses \/ Reconnect
  BY <1>3, <1>9, ReceiveFirst, LeavingFirst
<1>10. CASE UNCHANGED vars
  <2>1. UNCHANGED <<page, net, chunker, asm, got, saved>>
    BY <1>10 DEF vars, fileVars, asmVars, userVars
  <2>2. "R" \in Page /\ Queues("R", 0, {})
    BY <2>1, StillQueues DEF Page
  <2>3. Turn("R", {}, {}, 0, {})
    BY <2>1, <2>2 DEF Turn
  <2>. QED  BY <1>3, <2>1, <2>2, <2>3, QuietTurn
<1>. QED  BY <1>4, <1>5, <1>6, <1>7, <1>8, <1>9, <1>10, StepCases

\* So it holds throughout, with the types and the key pairs.
LEMMA FirstInvariant == Spec => []FirstInv
<1>1. Init => FirstInv
  BY InitFirst
<1>2. SessionInv /\ SessionInv' /\ FirstInv /\ [Next]_vars => FirstInv'
  BY FirstStep DEF SessionInv
<1>. QED  BY <1>1, <1>2, SessionInvariant, PTL DEF Spec
------------------------------------------------------------------------------
(* The theorems. *)

\* Every variable keeps its type: keys, chunk numbers and epochs stay in range.
THEOREM TypeCorrect == Spec => []TypeOK
<1>1. SessionInv => TypeOK
  <2> SUFFICES ASSUME Typed, Renewing PROVE TypeOK
    BY DEF SessionInv
  <2>1. ASSUME NEW p \in Page
        PROVE  /\ page[p] \in PageType
               /\ \A t \in page[p].tasks : t.index \in Index /\ t.key \in 0 .. Mixed
    BY DEF Typed, PageType, TaskType
  <2>. QED  BY <2>1 DEF Typed, Renewing, TypeOK, PageType, ChunkerType
<1>. QED  BY <1>1, SessionInvariant, PTL

\* What the receiver has downloaded is the whole file that was hashed.
THEOREM SavedWhole == Spec => []SavedIsWhole
<1>1. SessionInv => SavedIsWhole
  BY DEF SessionInv, Typed, Saving, SavedIsWhole, Content
<1>. QED  BY <1>1, SessionInvariant, PTL

\* The sender is told only of a file that has been downloaded.
THEOREM AckAfterSave == Spec => []AckMeansSaved
<1>1. SessionInv => AckMeansSaved
  BY DEF SessionInv, Saving, Untold, AckMeansSaved, InFlight, Frames, Page
<1>. QED  BY <1>1, SessionInvariant, PTL

\* Before any reconnect, chunks are sent only to a page that has approved.
THEOREM ApprovalFirst == Spec => []ApprovalGate
<1>1. SessionInv => ApprovalGate
  BY DEF SessionInv, Gated, ApprovalGate, InFlight, Frames
<1>. QED  BY <1>1, SessionInvariant, PTL

\* However handshakes cross, are answered and repeated, and whatever fails, in the
\* first connection the sender never runs two streaming loops.
THEOREM OneLoopAtMost == Spec => []OneStreamingLoop
<1>1. FirstInv => OneStreamingLoop
  <2> SUFFICES ASSUME FirstInv, epoch = 1
               PROVE  Cardinality({t \in page["S"].tasks : t.kind \in {"loop", "read"}}) <= 1
    BY DEF OneStreamingLoop
  <2> DEFINE loops == {t \in page["S"].tasks : t.kind \in {"loop", "read"}}
  <2>1. \A t, u \in loops : t = u
    BY DEF FirstInv, First, OneLoop, Streaming
  <2>2. CASE loops = {}
    BY <2>2, FS_EmptySet
  <2>3. ASSUME NEW t \in loops PROVE Cardinality(loops) <= 1
    <3>1. loops = {t}
      BY <2>1, <2>3
    <3>2. Cardinality({t}) = 1
      BY FS_Singleton
    <3> HIDE DEF loops
    <3>. QED  BY <3>1, <3>2
  <2>. QED  BY <2>2, <2>3
<1>. QED  BY <1>1, FirstInvariant, PTL

\* A receiver that has downloaded the verified file reports no error: nothing that
\* could fail, or arrive twice, is left for it.
THEOREM NoErrorAfterDownload == Spec => []NoErrorAfterSave
<1>1. FirstInv => NoErrorAfterSave
  BY DEF FirstInv, First, Final, Finalizing, NoErrorAfterSave
<1>. QED  BY <1>1, FirstInvariant, PTL

\* The safety of the promise, step by step: what the two pages do is to save the
\* whole file once, to tell the sender afterwards, to cancel, or nothing of that.
THEOREM StepsKeepPromise == Spec => Promise!Init /\ [][Promise!Next]_(Promise!vars)
<1>1. Init => Promise!Init
  <2> SUFFICES ASSUME Init PROVE Promise!Init
    OBVIOUS
  <2>1. SessionInv /\ saved = "missing" /\ cancelled = {}
    BY InitInv DEF Init
  <2>2. ~Told
    BY <2>1 DEF SessionInv, Saving, Untold, Told, InFlight, Frames, Pending, Page
  <2>. QED  BY <2>1, <2>2 DEF Promise!Init
<1>2. SessionInv /\ SessionInv' /\ [Next]_vars => [Promise!Next]_(Promise!vars)
  <2> SUFFICES ASSUME SessionInv, SessionInv', [Next]_vars
               PROVE  [Promise!Next]_(Promise!vars)
    OBVIOUS
  <2>1. Told \in BOOLEAN /\ Told' \in BOOLEAN
    BY DEF Told, InFlight
  <2>2. CASE UNCHANGED <<saved, cancelled>>
    <3>1. Told' => saved = "intact"
      <4>1. saved' = "missing" => Untold'
        BY DEF SessionInv, Saving
      <4>2. Untold' => ~Told'
        BY DEF Untold, Told, InFlight, Frames, Pending, Page
      <4>. QED  BY <2>2, <4>1, <4>2 DEF SessionInv, Typed, Saving, Content
    <3>2. CASE Told' = Told
      BY <2>2, <3>2 DEF Promise!vars
    <3>3. CASE Told' /\ ~Told
      BY <2>1, <2>2, <3>1, <3>3 DEF Promise!Next, Promise!Acknowledge
    <3>4. CASE Told /\ ~Told'
      BY <2>1, <2>2, <3>4 DEF Promise!Next, Promise!Heard
    <3>. QED  BY <2>1, <3>2, <3>3, <3>4
  <2>3. CASE SaveStep
    <3>1. saved' = "intact" /\ UNCHANGED cancelled
      BY <2>3 DEF SaveStep, SessionInv, Saving, Pending
    <3>2. Told' = Told
      BY <2>3 DEF SaveStep, Told, InFlight, Pending
    <3>3. saved = "missing" \/ saved = "intact"
      BY DEF SessionInv, Typed, Saving, Content
    <3>. QED  BY <3>1, <3>2, <3>3 DEF Promise!vars, Promise!Next, Promise!Save
  <2>4. ASSUME NEW p \in Page, CancelStep(p) PROVE [Promise!Next]_(Promise!vars)
    <3>1. CASE p \notin cancelled
      BY <2>4, <3>1 DEF CancelStep, Promise!Next, Promise!Cancel
    <3>2. CASE p \in cancelled
      BY <2>2, <2>4, <3>2 DEF CancelStep
    <3>. QED  BY <3>1, <3>2
  <2>. QED  BY <2>2, <2>3, <2>4, StepHistory DEF SessionInv
<1>. QED  BY <1>1, <1>2, SessionInvariant, PTL DEF Spec
==============================================================================
