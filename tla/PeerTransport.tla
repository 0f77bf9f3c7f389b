---------------------------- MODULE PeerTransport ----------------------------
(***************************************************************************)
(* The transports of the senders and receivers that meet in a room, one of *)
(* each at a time (src/transport/webrtcPeer.js over webrtcConnection.js):  *)
(* signaling, offer and answer, ICE candidates, the DataChannel, the       *)
(* fallback watchdog and the switch to the WebSocket tunnel.               *)
(*                                                                         *)
(* _handleSignalingMessage is async: what it does after an await is a task *)
(* of the transport.  The server's part (SignalingServer in full) is       *)
(* reduced to what the transports see: who is in the room, in Map order,   *)
(* and whose close event is still to come.  The two legs of a relayed      *)
(* message are one.  A frame is a number; its fragments in the tunnel are  *)
(* sent in one synchronous loop and arrive as one message.                 *)
(***************************************************************************)
EXTENDS Naturals, Sequences, FiniteSets

CONSTANTS
  Sender,         \* initiators: one page after another (a reload, another device)
  Receiver,       \* responders, likewise
  NoPeer,
  SenderFrames,   \* bound on the frames a sender's page sends
  ReceiverFrames, \* ... and a receiver's page
  MaxCandidates,  \* bound on the ICE candidates a transport gathers
  MaxDrops,       \* bound on the times ICE loses a transport's path for a while
  Backpressure,   \* send may have to wait for the DataChannel to drain
  Leaving         \* peers whose page may leave, or lose its socket

ASSUME TransportAssumption ==
  /\ Sender \cap Receiver = {} /\ NoPeer \notin Receiver \cup Sender
  /\ SenderFrames \in Nat /\ ReceiverFrames \in Nat /\ MaxCandidates \in Nat
  /\ MaxDrops \in Nat
  /\ Backpressure \in BOOLEAN /\ Leaving \subseteq Sender \cup Receiver

Peer == Sender \cup Receiver

VARIABLES
  tr,     \* per peer: the WebRTCPeerTransport with its WebRTCConnection
  inbox,  \* signaling messages on their way to each peer
  wire,   \* DataChannel frames on their way to each peer
  got,    \* frames each transport has emitted
  room,   \* server: the registered peers, in Map order
  known   \* server: the peers whose socket has not had its close event

net == <<wire, got>>
server == <<room, known>>
vars == <<tr, inbox, wire, got, room, known>>

MaxFrames(t) == IF t \in Sender THEN SenderFrames ELSE ReceiverFrames
Message(type, from, n) == [type |-> type, from |-> from, n |-> n]
RtcState == {"NEW", "CONNECTING", "CONNECTED", "DISCONNECTED", "CLOSED"}

(***************************************************************************)
(* Fields: ws, the client's end of the signaling socket; remote, the peer  *)
(* whose description has been set; link, the peer a channel was opened to; *)
(* applied, an ICE candidate of the peer is in use; held, candidates kept  *)
(* until a target is bound; early, candidates kept until a description is  *)
(* set; ready, 'open' has been emitted; waiting, a send waits for drain.   *)
(***************************************************************************)
Fresh ==
  [ws |-> "off", closed |-> FALSE, mode |-> "p2p", target |-> NoPeer,
   rtc |-> "NEW", chan |-> "none", remote |-> NoPeer, link |-> NoPeer,
   timer |-> "off", tasks |-> {}, gathered |-> 0, held |-> 0, early |-> 0,
   applied |-> FALSE, ready |-> FALSE, waiting |-> FALSE, sent |-> 0, drops |-> 0]

Init ==
  /\ tr = [t \in Peer |-> Fresh]
  /\ inbox = [t \in Peer |-> <<>>] /\ wire = [t \in Peer |-> <<>>]
  /\ got = [t \in Peer |-> <<>>]
  /\ room = <<>> /\ known = {}

RtcOpen(me) == me.rtc = "CONNECTED" /\ me.chan = "open"
IsOpen(me) ==
  IF me.mode = "tunnel" THEN ~me.closed /\ me.ws = "open" /\ me.target # NoPeer
  ELSE RtcOpen(me)

TypeOK ==
  /\ \A t \in Peer :
       /\ tr[t].ws \in {"off", "open", "closed"} /\ tr[t].mode \in {"p2p", "tunnel"}
       /\ {tr[t].target, tr[t].remote, tr[t].link} \subseteq Peer \cup {NoPeer}
       /\ tr[t].rtc \in RtcState /\ tr[t].chan \in {"none", "connecting", "open"}
       /\ tr[t].timer \in {"off", "on", "fired"}
       /\ tr[t].tasks \subseteq {"offer"} \cup Peer
       /\ tr[t].sent <= MaxFrames(t) /\ tr[t].gathered <= MaxCandidates
       /\ {tr[t].closed, tr[t].applied, tr[t].ready, tr[t].waiting} \subseteq BOOLEAN
       \* close and the switch release what the connection holds
       /\ tr[t].closed \/ tr[t].mode = "tunnel" =>
            tr[t].rtc = "CLOSED" /\ tr[t].timer = "off" /\ tr[t].early = 0
  \* the room has a peer of each role at most
  /\ known \subseteq Peer /\ Len(room) <= 2 /\ \A i \in DOMAIN room : room[i] \in Peer
------------------------------------------------------------------------------
(* The relay (server/signaling.js). *)

\* The peers of the room that are in P, in Map order, of two at most.
InRoom(P) ==
  LET kept == {i \in DOMAIN room : room[i] \in P}
  IN IF kept = DOMAIN room THEN room
     ELSE IF kept = {} THEN <<>>
     ELSE <<room[CHOOSE i \in kept : TRUE]>>

Others(t) == InRoom(Peer \ {t})

\* A message reaches the first other peer of the room, if its socket is open.
Post(boxes, to, msg) ==
  IF tr[to].ws = "open" THEN [boxes EXCEPT ![to] = Append(@, msg)] ELSE boxes

Relayed(boxes, t, msgs) ==
  IF Others(t) = <<>> \/ t \notin known \/ tr[Others(t)[1]].ws # "open" THEN boxes
  ELSE [boxes EXCEPT ![Others(t)[1]] = @ \o msgs]

Candidates(t, n) == [i \in 1 .. n |-> Message("ICE_CANDIDATE", t, 0)]
------------------------------------------------------------------------------
(* Parts of handlers, on the record of one transport. *)

CloseRtc(me) == [me EXCEPT !.rtc = "CLOSED", !.chan = "none", !.early = 0]

\* Mutant: 'open' is emitted although no peer is bound.
ToTunnelAlwaysOpens(me) ==
  IF me.mode = "tunnel" \/ me.closed THEN me
  ELSE [CloseRtc(me) EXCEPT !.mode = "tunnel", !.timer = "off", !.ready = TRUE]

\* _switchToTunnelMode
ToTunnel(me) ==
  IF me.mode = "tunnel" \/ me.closed THEN me
  ELSE [CloseRtc(me) EXCEPT !.mode = "tunnel", !.timer = "off",
                            !.ready = @ \/ (me.target # NoPeer /\ me.ws = "open")]

\* Mutant: close leaves the watchdog running.
ClosedKeepsTimer(me) ==
  [CloseRtc(me) EXCEPT !.closed = TRUE, !.held = 0,
                       !.ws = IF @ = "open" THEN "closed" ELSE @]

\* close
Closed(me) ==
  [CloseRtc(me) EXCEPT !.closed = TRUE, !.timer = "off", !.held = 0,
                       !.ws = IF @ = "open" THEN "closed" ELSE @]

\* Mutant: the watchdog is never started.
NoWatchdog(me) == me

\* _startFallbackWatchdog
StartWatchdog(me) ==
  IF me.timer # "off" \/ me.mode = "tunnel" \/ me.closed THEN me
  ELSE [me EXCEPT !.timer = "on"]

\* Binding a target flushes the candidates held for it.
Bind(me, p) == [me EXCEPT !.target = p, !.held = 0]
Flushed(t, me) == Candidates(t, tr[t].held - me.held)

\* When a connection closes, of the frames sent over it to either side a prefix
\* has arrived; events already queued for them still fire.
Prefixes(s) == {SubSeq(s, 1, n) : n \in 0 .. Len(s)}
Cut(t) ==
  {w \in [Peer -> UNION {Prefixes(wire[p]) : p \in Peer}] :
     \A p \in Peer : IF p = t \/ tr[p].link = t THEN w[p] \in Prefixes(wire[p])
                     ELSE w[p] = wire[p]}

Become(t, me) == tr' = [tr EXCEPT ![t] = me]
CutIfClosed(t, me) ==
  IF me.rtc = "CLOSED" /\ tr[t].rtc # "CLOSED" THEN wire' \in Cut(t) ELSE UNCHANGED wire

\* A step of t alone, with nothing sent and nothing emitted.
Change(t, me) ==
  /\ Become(t, me) /\ CutIfClosed(t, me)
  /\ UNCHANGED <<inbox, got, server>>
------------------------------------------------------------------------------
(* The room. *)

\* connect: the socket opens and the server handles the JOIN.  It evicts the
\* peer of the same role and tells both sides about each other.
Join(t) ==
  LET rest == InRoom(IF t \in Sender THEN Receiver ELSE Sender)
  IN /\ tr[t].ws = "off"
     /\ Become(t, [tr[t] EXCEPT !.ws = "open"])
     /\ room' = Append(rest, t)
     /\ known' = known \cup {t}
     /\ inbox' = IF rest = <<>> THEN inbox
                 ELSE [Post(inbox, rest[1], Message("PEER_JOINED", t, 0))
                         EXCEPT ![t] = <<Message("PEER_JOINED", rest[1], 0)>>]
     /\ UNCHANGED net

\* The page closes its transport.
Leave(t) ==
  /\ t \in Leaving /\ tr[t].ws # "off" /\ ~tr[t].closed
  /\ Become(t, Closed(tr[t])) /\ CutIfClosed(t, Closed(tr[t]))
  /\ inbox' = [inbox EXCEPT ![t] = <<>>]
  /\ UNCHANGED <<got, server>>

\* The signaling socket is lost, or closed by the server after a replacement.
SocketCloses(t) ==
  /\ tr[t].ws = "open" /\ (t \in Leaving \/ \A i \in DOMAIN room : room[i] # t)
  /\ Become(t, [tr[t] EXCEPT !.ws = "closed"])
  /\ inbox' = [inbox EXCEPT ![t] = <<>>]
  /\ UNCHANGED <<net, server>>

\* The server's close event: the peer leaves the room, the other one is told.
ServerCloses(t) ==
  /\ t \in known /\ tr[t].ws = "closed"
  /\ known' = known \ {t}
  /\ room' = Others(t)
  /\ inbox' = IF Others(t) = <<>> THEN inbox
              ELSE Post(inbox, Others(t)[1], Message("PEER_LEFT", t, 0))
  /\ UNCHANGED <<tr, net>>
------------------------------------------------------------------------------
(* Signaling messages. *)

Take(t) == [inbox EXCEPT ![t] = Tail(@)]

\* PEER_JOINED.  The initiator makes a (new) DataChannel and an offer.
ReceiveJoined(t, msg) ==
  LET bound == Bind(tr[t], msg.from)
      me == IF bound.mode = "tunnel" THEN [bound EXCEPT !.ready = TRUE]
            ELSE IF t \in Receiver THEN StartWatchdog(bound)
            ELSE [StartWatchdog(bound) EXCEPT !.chan = "connecting", !.rtc = "CONNECTING",
                                              !.tasks = @ \cup {"offer"}]
  IN /\ Become(t, me)
     /\ inbox' = Relayed(Take(t), t, Flushed(t, bound))
     /\ UNCHANGED <<net, server>>

\* The offer is ready; if the connection was closed meanwhile, it failed.
SendOffer(t) ==
  /\ "offer" \in tr[t].tasks
  /\ Become(t, [tr[t] EXCEPT !.tasks = @ \ {"offer"}])
  /\ inbox' = IF tr[t].rtc = "CLOSED" \/ tr[t].ws # "open" THEN inbox
              ELSE Relayed(inbox, t, <<Message("SDP_OFFER", t, 0)>>)
  /\ UNCHANGED <<net, server>>

\* SDP_OFFER binds the sender it comes from.
ReceiveOffer(t, msg) ==
  LET bound == Bind(tr[t], msg.from)
      me == IF bound.mode = "tunnel" THEN bound
            ELSE [StartWatchdog(bound) EXCEPT !.tasks = @ \cup {msg.from}]
  IN /\ Become(t, me)
     /\ inbox' = Relayed(Take(t), t, Flushed(t, bound))
     /\ UNCHANGED <<net, server>>

\* Mutant: the candidates that came before the description stay queued.
SetRemoteUnflushed(me, p) == [me EXCEPT !.remote = p]

\* setRemoteDescription, and the candidates queued for it.
SetRemote(me, p) ==
  [me EXCEPT !.remote = p, !.early = 0, !.applied = @ \/ me.early > 0]

\* The offer is set as the remote description and the answer is ready, unless
\* the connection is closed or refuses the offer of another peer.
SendAnswer(t, p) ==
  LET me == [tr[t] EXCEPT !.tasks = @ \ {p}]
  IN /\ p \in tr[t].tasks \cap Peer
     /\ \/ (me.rtc = "CLOSED" \/ me.remote # NoPeer) /\ Become(t, me) /\ UNCHANGED inbox
        \/ /\ me.rtc # "CLOSED"
           /\ Become(t, [SetRemote(me, p) EXCEPT !.rtc = "CONNECTING"])
           /\ inbox' = IF me.ws # "open" THEN inbox
                       ELSE Relayed(inbox, t, <<Message("SDP_ANSWER", t, 0)>>)
     /\ UNCHANGED <<net, server>>

\* The messages below are ignored, with an error, unless they come from the
\* bound peer; the first of them binds a peer.
Bound(t, msg) ==
  IF tr[t].target = NoPeer THEN Bind(tr[t], msg.from) ELSE tr[t]

Ignored(t, msg) ==
  /\ tr[t].target \notin {NoPeer, msg.from}
  /\ inbox' = Take(t) /\ UNCHANGED <<tr, net, server>>

\* SDP_ANSWER: refused by a closed connection, or when it answers an older offer.
ReceiveAnswer(t, msg) ==
  LET me == Bound(t, msg)
  IN /\ tr[t].target \in {NoPeer, msg.from}
     /\ \/ me.rtc # "CLOSED" /\ Become(t, SetRemote(me, msg.from))
        \/ (me.rtc = "CLOSED" \/ me.remote # NoPeer) /\ Become(t, me)
     /\ inbox' = Relayed(Take(t), t, Flushed(t, me))
     /\ UNCHANGED <<net, server>>

\* addIceCandidate
ReceiveCandidate(t, msg) ==
  LET me == Bound(t, msg)
  IN /\ tr[t].target \in {NoPeer, msg.from}
     /\ Become(t, IF me.rtc = "CLOSED" THEN me
                  ELSE IF me.remote = NoPeer THEN [me EXCEPT !.early = @ + 1]
                  ELSE [me EXCEPT !.applied = TRUE])
     /\ inbox' = Relayed(Take(t), t, Flushed(t, me))
     /\ UNCHANGED <<net, server>>

\* TUNNEL_FRAME: switch to the tunnel if need be, and emit the frame.
ReceiveFrame(t, msg) ==
  LET me == Bound(t, msg)
  IN /\ tr[t].target \in {NoPeer, msg.from}
     /\ Become(t, ToTunnel(me)) /\ CutIfClosed(t, ToTunnel(me))
     /\ got' = [got EXCEPT ![t] = Append(@, msg)]
     /\ inbox' = Relayed(Take(t), t, Flushed(t, me))
     /\ UNCHANGED server

\* PEER_LEFT, of whatever peer: without an open DataChannel the sender closes.
ReceiveLeft(t, msg) ==
  LET left == [tr[t] EXCEPT !.target = IF @ = msg.from THEN NoPeer ELSE @]
      closing == t \in Sender /\ ~RtcOpen(left)
      me == IF closing THEN Closed(left) ELSE left
  IN /\ Become(t, me) /\ CutIfClosed(t, me)
     /\ inbox' = IF closing THEN [inbox EXCEPT ![t] = <<>>] ELSE Take(t)
     /\ UNCHANGED <<got, server>>

Receive(t) ==
  /\ inbox[t] # <<>>
  /\ LET msg == Head(inbox[t])
     IN \/ msg.type = "PEER_JOINED" /\ ReceiveJoined(t, msg)
        \/ msg.type = "SDP_OFFER" /\ ReceiveOffer(t, msg)
        \/ msg.type = "SDP_ANSWER" /\ ReceiveAnswer(t, msg)
        \/ msg.type = "ICE_CANDIDATE" /\ ReceiveCandidate(t, msg)
        \/ msg.type = "TUNNEL_FRAME" /\ ReceiveFrame(t, msg)
        \/ msg.type \notin {"PEER_JOINED", "SDP_OFFER", "PEER_LEFT"} /\ Ignored(t, msg)
        \/ msg.type = "PEER_LEFT" /\ ReceiveLeft(t, msg)
------------------------------------------------------------------------------
(* The RTCPeerConnection and its DataChannel. *)

\* A local ICE candidate: sent, held until a target is bound, or dropped.
Gather(t) ==
  LET me == [tr[t] EXCEPT !.gathered = @ + 1]
      send == me.mode = "p2p" /\ me.target # NoPeer
  IN /\ me.rtc = "CONNECTING" /\ tr[t].gathered < MaxCandidates /\ "offer" \notin me.tasks
     /\ Become(t, IF me.mode = "p2p" /\ ~send THEN [me EXCEPT !.held = @ + 1] ELSE me)
     /\ inbox' = IF send /\ me.ws = "open" THEN Relayed(inbox, t, Candidates(t, 1)) ELSE inbox
     /\ UNCHANGED <<net, server>>

\* Both descriptions are set and ICE has found a path: the channel opens.
ChannelOpens(t) ==
  LET p == tr[t].remote
  IN /\ tr[t].rtc = "CONNECTING" /\ p # NoPeer
     /\ tr[p].remote = t /\ tr[p].rtc # "CLOSED"
     /\ tr[t].applied \/ tr[p].applied
     /\ t \in Sender => tr[t].chan = "connecting"
     /\ Change(t, [tr[t] EXCEPT !.chan = "open", !.rtc = "CONNECTED", !.link = p,
                                !.timer = "off", !.ready = TRUE])

\* ICE loses the path for a while ...
Disconnects(t) ==
  /\ tr[t].rtc = "CONNECTED" /\ tr[t].drops < MaxDrops
  /\ Change(t, [tr[t] EXCEPT !.rtc = "DISCONNECTED", !.drops = @ + 1])

\* ... and finds it again, or gives up, now or when it first connects.
Recovers(t) ==
  /\ tr[t].rtc = "DISCONNECTED" /\ tr[t].chan = "open" /\ tr[tr[t].link].rtc # "CLOSED"
  /\ Change(t, [tr[t] EXCEPT !.rtc = "CONNECTED"])

PathFails(t) ==
  /\ tr[t].rtc \in {"CONNECTING", "CONNECTED", "DISCONNECTED"} /\ tr[t].remote # NoPeer
  /\ Change(t, ToTunnel(tr[t]))

\* The peer has closed its end: after the last frame comes the close event.
ChannelCloses(t) ==
  /\ tr[t].link # NoPeer /\ tr[t].rtc # "CLOSED" /\ tr[tr[t].link].rtc = "CLOSED"
  /\ wire[t] = <<>>
  /\ Change(t, ToTunnel([tr[t] EXCEPT !.rtc = "DISCONNECTED"]))

\* The watchdog fires after iceFallbackTimeoutMs.
Watchdog(t) ==
  /\ tr[t].timer = "on"
  /\ Change(t, IF RtcOpen(tr[t]) THEN [tr[t] EXCEPT !.timer = "fired"] ELSE ToTunnel(tr[t]))
------------------------------------------------------------------------------
(* Frames. *)

\* _sendTunnelFrame throws unless the socket is open and a peer is bound.
TunnelSend(t, me) ==
  LET ok == me.ws = "open" /\ me.target # NoPeer
      n == me.sent + 1
  IN /\ Become(t, IF ok THEN [me EXCEPT !.sent = n] ELSE me)
     /\ CutIfClosed(t, me)
     /\ inbox' = IF ok THEN Relayed(inbox, t, <<Message("TUNNEL_FRAME", t, n)>>) ELSE inbox
     /\ UNCHANGED <<got, server>>

ChannelSend(t, me) ==
  /\ Become(t, [me EXCEPT !.sent = @ + 1])
  /\ wire' = [wire EXCEPT ![me.link] = Append(@, Message("FRAME", t, me.sent + 1))]
  /\ UNCHANGED <<inbox, got, server>>

\* send: over the channel, or the tunnel, to which a failing channel switches.
Send(t) ==
  LET me == tr[t]
  IN /\ me.ready /\ ~me.closed /\ ~me.waiting /\ me.sent < MaxFrames(t)
     /\ IF me.mode = "p2p" /\ me.chan = "open"
        THEN \/ ChannelSend(t, me)
             \/ Backpressure /\ Change(t, [me EXCEPT !.waiting = TRUE])
        ELSE TunnelSend(t, ToTunnel(me))

\* A send that waited for the buffer to drain goes on, in the mode of the day.
SendResumes(t) ==
  LET me == [tr[t] EXCEPT !.waiting = FALSE]
  IN /\ tr[t].waiting
     /\ IF me.rtc # "CLOSED" /\ me.chan = "open" THEN ChannelSend(t, me)
        ELSE IF me.closed THEN Change(t, me)
        ELSE TunnelSend(t, ToTunnel(me))

\* Mutant: frames of the channel are emitted in either mode.
ReceiveDirectAlways(t) ==
  /\ wire[t] # <<>>
  /\ wire' = [wire EXCEPT ![t] = Tail(@)]
  /\ got' = IF tr[t].closed THEN got ELSE [got EXCEPT ![t] = Append(@, Head(wire[t]))]
  /\ UNCHANGED <<tr, inbox, server>>

\* A frame of the DataChannel is emitted in p2p mode only.
ReceiveDirect(t) ==
  /\ wire[t] # <<>>
  /\ wire' = [wire EXCEPT ![t] = Tail(@)]
  /\ got' = IF tr[t].mode = "tunnel" \/ tr[t].closed THEN got
            ELSE [got EXCEPT ![t] = Append(@, Head(wire[t]))]
  /\ UNCHANGED <<tr, inbox, server>>
------------------------------------------------------------------------------
Handlers(t) ==
  \/ Receive(t) \/ SendOffer(t) \/ (\E p \in Peer : SendAnswer(t, p))
  \/ ReceiveDirect(t) \/ ChannelCloses(t) \/ SendResumes(t)

Next ==
  \E t \in Peer :
    \/ Join(t) \/ Leave(t) \/ SocketCloses(t) \/ ServerCloses(t)
    \/ Handlers(t) \/ Watchdog(t) \/ Send(t) \/ Gather(t)
    \/ ChannelOpens(t) \/ Disconnects(t) \/ Recovers(t) \/ PathFails(t)

Spec == Init /\ [][Next]_vars

\* Event loops run, timers fire, the page sends (its 'open' handler a handshake),
\* and ICE does not stay disconnected: the browser reports recovery or failure.
\* Nothing makes a direct connection succeed.
FairSpec ==
  /\ Spec
  /\ \A t \in Peer :
       /\ WF_vars(Handlers(t)) /\ WF_vars(Watchdog(t)) /\ WF_vars(Send(t))
       /\ WF_vars(Recovers(t) \/ (tr[t].rtc = "DISCONNECTED" /\ PathFails(t)))
------------------------------------------------------------------------------
(* Properties. *)

\* Frames are emitted in the order they were sent and none twice, although the
\* channel and the tunnel are used one after the other and both are asynchronous.
FramesInOrder ==
  \A t \in Peer : \A i, j \in DOMAIN got[t] :
    i < j /\ got[t][i].from = got[t][j].from => got[t][i].n < got[t][j].n

\* A local candidate is held only as long as no target is bound, and a remote
\* one only as long as no description is set: none is forgotten in between.
NoStrandedCandidate ==
  \A t \in Peer : /\ tr[t].held > 0 => tr[t].target = NoPeer
                  /\ tr[t].early > 0 => tr[t].remote = NoPeer

\* 'open' is emitted by a transport over which the page can send at once.
OpenIsUsable ==
  [][\A t \in Peer : tr'[t].ready /\ ~tr[t].ready => IsOpen(tr'[t])]_vars

\* "automatic fallback": two transports that stay in the room with their sockets
\* open end up connected, and both in the same mode.
Together(s, r) ==
  /\ \A t \in {s, r} : tr[t].ws = "open" /\ ~tr[t].closed
  /\ {room[i] : i \in DOMAIN room} = {s, r}
ConnectedAlike ==
  \A s \in Sender, r \in Receiver :
    <>[]Together(s, r) =>
      []<>(IsOpen(tr[s]) /\ IsOpen(tr[r]) /\ tr[s].mode = tr[r].mode)

\* "switching seamlessly": while both transports stay, no frame is skipped.
SeamlessSwitch ==
  \A t \in Peer : \A i \in DOMAIN got[t] :
    got[t][i].n = Cardinality({j \in 1 .. i : got[t][j].from = got[t][i].from})

\* "If counterpart peer joins or reconnects, bind the new target": a sender's
\* transport does not close while it is bound to a peer that is still there.
BoundSenderStays ==
  [][\A s \in Sender : tr'[s].closed /\ ~tr[s].closed => tr'[s].target = NoPeer]_vars
==============================================================================
