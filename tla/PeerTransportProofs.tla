------------------------ MODULE PeerTransportProofs ------------------------
(***************************************************************************)
(* The transports of any number of senders and receivers, which send any   *)
(* number of frames, lose their paths and sockets at any time and replace  *)
(* each other in the room: the types of their state with what close and    *)
(* the switch to the tunnel release, the two queues of ICE candidates,     *)
(* what 'open' promises, and the order of the frames over the switch.      *)
(***************************************************************************)
EXTENDS PeerTransport, SequenceTheorems, TLAPS

MessageType ==
  {"PEER_JOINED", "PEER_LEFT", "SDP_OFFER", "SDP_ANSWER", "ICE_CANDIDATE", "TUNNEL_FRAME",
   "FRAME"}
Msg == [type : MessageType, from : Peer, n : Nat]

Transport ==
  [ws : {"off", "open", "closed"}, closed : BOOLEAN, mode : {"p2p", "tunnel"},
   target : Peer \cup {NoPeer}, rtc : RtcState, chan : {"none", "connecting", "open"},
   remote : Peer \cup {NoPeer}, link : Peer \cup {NoPeer}, timer : {"off", "on", "fired"},
   tasks : SUBSET ({"offer"} \cup Peer), gathered : Nat, held : Nat, early : Nat,
   applied : BOOLEAN, ready : BOOLEAN, waiting : BOOLEAN, sent : Nat, drops : Nat]

\* What every handler keeps true of the transport of t by itself.
Sound(t, me) ==
  /\ me \in Transport
  /\ me.sent <= MaxFrames(t) /\ me.gathered <= MaxCandidates
  /\ me.waiting => me.sent < MaxFrames(t)
  /\ me.rtc = "CLOSED" <=> me.closed \/ me.mode = "tunnel"
  /\ me.rtc = "CLOSED" => me.chan = "none" /\ me.timer = "off" /\ me.early = 0
  /\ me.closed => me.ws = "closed"
  /\ me.held > 0 => me.target = NoPeer
  /\ me.early > 0 => me.remote = NoPeer

\* What a handler does not undo, and when it may emit 'open'.
Grows(old, new) ==
  /\ new.sent >= old.sent
  /\ old.mode = "tunnel" => new.mode = "tunnel"
  /\ old.closed => new.closed
  /\ new.ready /\ ~old.ready => IsOpen(new)

\* A part of a handler that touches neither the socket nor what is sent.
Calm(old, new) ==
  /\ new.ws = old.ws /\ new.closed = old.closed /\ new.mode = old.mode
  /\ new.ready = old.ready /\ new.sent = old.sent /\ new.waiting = old.waiting
------------------------------------------------------------------------------
(* The parts of handlers on the record of a transport. *)

LEMMA FreshSound == ASSUME NEW t \in Peer PROVE Sound(t, Fresh)
BY TransportAssumption DEF Sound, Fresh, Transport, RtcState, MaxFrames

LEMMA CalmGrows ==
  ASSUME NEW t, NEW old, NEW new, Sound(t, old), Calm(old, new) PROVE Grows(old, new)
BY DEF Calm, Grows, Sound, Transport

LEMMA BindSound ==
  ASSUME NEW t \in Peer, NEW me, Sound(t, me), NEW p \in Peer
  PROVE  /\ Sound(t, Bind(me, p)) /\ Calm(me, Bind(me, p)) /\ Bind(me, p).target = p
         /\ Bind(me, p).rtc = me.rtc /\ Bind(me, p).held = 0
<1>. DEFINE new == [me EXCEPT !.target = p, !.held = 0]
<1>1. Bind(me, p) = new
  BY DEF Bind
<1>2. new \in Transport
  BY DEF Sound, Transport
<1>3. Sound(t, new)
  BY <1>2 DEF Sound, Transport
<1>. QED
  BY <1>1, <1>3 DEF Sound, Transport, Calm

LEMMA WatchdogSound ==
  ASSUME NEW t \in Peer, NEW me, Sound(t, me)
  PROVE  /\ Sound(t, StartWatchdog(me)) /\ Calm(me, StartWatchdog(me))
         /\ StartWatchdog(me).rtc = me.rtc /\ StartWatchdog(me).target = me.target
<1>1. CASE me.timer # "off" \/ me.mode = "tunnel" \/ me.closed
  BY <1>1 DEF StartWatchdog, Calm
<1>2. CASE ~(me.timer # "off" \/ me.mode = "tunnel" \/ me.closed)
  <2>1. StartWatchdog(me) = [me EXCEPT !.timer = "on"]
    BY <1>2 DEF StartWatchdog
  <2>. DEFINE new == [me EXCEPT !.timer = "on"]
  <2>2. new \in Transport
    BY DEF Sound, Transport
  <2>3. Sound(t, new)
    BY <1>2, <2>2 DEF Sound, Transport
  <2>. QED
    BY <2>1, <2>3 DEF Sound, Transport, Calm
<1>. QED
  BY <1>1, <1>2

LEMMA RemoteSound ==
  ASSUME NEW t \in Peer, NEW me, Sound(t, me), NEW p \in Peer
  PROVE  /\ Sound(t, SetRemote(me, p)) /\ Calm(me, SetRemote(me, p))
         /\ SetRemote(me, p).rtc = me.rtc
<1>. DEFINE some == me.applied \/ me.early > 0
            new == [me EXCEPT !.remote = p, !.early = 0, !.applied = some]
<1>1. SetRemote(me, p) = new
  BY DEF SetRemote, Sound, Transport
<1>2. some \in BOOLEAN
  BY DEF Sound, Transport
<1>. HIDE DEF some
<1>3. new \in Transport
  BY <1>2 DEF Sound, Transport
<1>4. Sound(t, new)
  BY <1>3 DEF Sound, Transport
<1>. QED
  BY <1>1, <1>4 DEF Sound, Transport, Calm

LEMMA CloseRtcTyped == ASSUME NEW me \in Transport PROVE CloseRtc(me) \in Transport
BY DEF CloseRtc, Transport, RtcState

\* The switch releases the connection, and emits 'open' if frames can be sent.
LEMMA TunnelSound ==
  ASSUME NEW t \in Peer, NEW me, Sound(t, me)
  PROVE  LET new == ToTunnel(me)
         IN /\ Sound(t, new) /\ Grows(me, new)
            /\ new.ws = me.ws /\ new.closed = me.closed /\ new.sent = me.sent
            /\ new.waiting = me.waiting /\ new.target = me.target
            /\ ~me.closed => new.mode = "tunnel"
<1>1. CASE me.mode = "tunnel" \/ me.closed
  BY <1>1, CalmGrows DEF ToTunnel, Calm, Sound, Transport
<1>2. CASE ~(me.mode = "tunnel" \/ me.closed)
  <2>. DEFINE opens == me.ready \/ (me.target # NoPeer /\ me.ws = "open")
              new == [me EXCEPT !.rtc = "CLOSED", !.chan = "none", !.early = 0,
                                !.mode = "tunnel", !.timer = "off", !.ready = opens]
  <2>. DEFINE cut == CloseRtc(me)
  <2>0. ToTunnel(me) = [cut EXCEPT !.mode = "tunnel", !.timer = "off",
                                   !.ready = cut.ready \/ (me.target # NoPeer /\ me.ws = "open")]
    BY <1>2 DEF ToTunnel
  <2>1. ToTunnel(me) = new
    <3>1. me \in Transport
      BY DEF Sound
    <3>2. cut = [me EXCEPT !.rtc = "CLOSED", !.chan = "none", !.early = 0]
      BY DEF CloseRtc
    <3>3. cut.ready = me.ready
      BY <3>1, <3>2 DEF Transport
    <3>. HIDE DEF cut, opens
    <3>4. ToTunnel(me) = [cut EXCEPT !.mode = "tunnel", !.timer = "off", !.ready = opens]
      BY <2>0, <3>3 DEF opens
    <3>. QED
      BY <3>1, <3>2, <3>4 DEF Transport
  <2>2. opens \in BOOLEAN
    BY DEF Sound, Transport
  <2>. HIDE DEF opens
  <2>3. new \in Transport
    <3>. DEFINE half == CloseRtc(me)
    <3>1. half \in Transport /\ me \in Transport
      BY CloseRtcTyped DEF Sound
    <3>2. new = [half EXCEPT !.mode = "tunnel", !.timer = "off", !.ready = opens]
      BY <3>1 DEF CloseRtc, Transport
    <3>. HIDE DEF half, new
    <3>. QED
      BY <2>2, <3>1, <3>2 DEF Transport
  <2>4. Sound(t, new)
    BY <2>3 DEF Sound
  <2>5. Grows(me, new)
    BY <1>2 DEF Grows, IsOpen, Sound, Transport, opens
  <2>. QED
    BY <2>1, <2>4, <2>5
<1>. QED
  BY <1>1, <1>2

LEMMA ClosedSound ==
  ASSUME NEW t \in Peer, NEW me, Sound(t, me), me.ws # "off"
  PROVE  /\ Sound(t, Closed(me)) /\ Grows(me, Closed(me)) /\ Closed(me).sent = me.sent
         /\ Closed(me).closed /\ Closed(me).ws = "closed"
<1>. DEFINE socket == IF me.ws = "open" THEN "closed" ELSE me.ws
            new == [me EXCEPT !.rtc = "CLOSED", !.chan = "none", !.early = 0,
                              !.closed = TRUE, !.timer = "off", !.held = 0, !.ws = socket]
<1>. DEFINE cut == CloseRtc(me)
<1>0. Closed(me) = [cut EXCEPT !.closed = TRUE, !.timer = "off", !.held = 0,
                               !.ws = IF cut.ws = "open" THEN "closed" ELSE cut.ws]
  BY DEF Closed
<1>1. Closed(me) = new
  <2>1. me \in Transport
    BY DEF Sound
  <2>2. cut = [me EXCEPT !.rtc = "CLOSED", !.chan = "none", !.early = 0]
    BY DEF CloseRtc
  <2>3. cut.ws = me.ws
    BY <2>1, <2>2 DEF Transport
  <2>. HIDE DEF cut, socket
  <2>4. Closed(me) = [cut EXCEPT !.closed = TRUE, !.timer = "off", !.held = 0, !.ws = socket]
    BY <1>0, <2>3 DEF socket
  <2>. QED
    BY <2>1, <2>2, <2>4 DEF Transport
<1>2. socket = "closed"
  BY DEF Sound, Transport
<1>. HIDE DEF socket
<1>3. new \in Transport
  <2>. DEFINE half == CloseRtc(me)
  <2>1. half \in Transport /\ me \in Transport
    BY CloseRtcTyped DEF Sound
  <2>. DEFINE more == [half EXCEPT !.closed = TRUE, !.timer = "off"]
  <2>2. new = [more EXCEPT !.held = 0, !.ws = socket]
    BY <2>1 DEF CloseRtc, Transport
  <2>. HIDE DEF half, new
  <2>3. more \in Transport
    BY <2>1 DEF Transport
  <2>. HIDE DEF more
  <2>. QED
    BY <1>2, <2>2, <2>3 DEF Transport
<1>4. /\ new.ws = "closed" /\ new.closed /\ new.rtc = "CLOSED" /\ new.chan = "none"
      /\ new.timer = "off" /\ new.early = 0 /\ new.held = 0 /\ new.mode = me.mode
      /\ new.sent = me.sent /\ new.gathered = me.gathered /\ new.waiting = me.waiting
      /\ new.ready = me.ready
  <2>1. me \in Transport
    BY DEF Sound
  <2>2. new.ws = "closed" /\ new.closed /\ new.rtc = "CLOSED" /\ new.chan = "none"
    BY <1>2, <2>1 DEF Transport
  <2>3. new.timer = "off" /\ new.early = 0 /\ new.held = 0 /\ new.mode = me.mode
    BY <2>1 DEF Transport
  <2>4. /\ new.sent = me.sent /\ new.gathered = me.gathered /\ new.waiting = me.waiting
        /\ new.ready = me.ready
    BY <2>1 DEF Transport
  <2>. QED
    BY <2>2, <2>3, <2>4
<1>. HIDE DEF new
<1>5. Sound(t, new)
  BY <1>3, <1>4 DEF Sound
<1>6. Grows(me, new)
  <2>1. me.sent \in Nat
    BY DEF Sound, Transport
  <2>. QED
    BY <1>4, <2>1 DEF Grows
<1>. QED
  BY <1>1, <1>4, <1>5, <1>6
------------------------------------------------------------------------------
(* Sequences of messages and the frames in them. *)

FrameType == {"FRAME", "TUNNEL_FRAME"}
FrameMsg == [type : FrameType, from : Peer, n : Nat]

\* Two frames of one sender are in the order they were sent.
Before(a, b) ==
  a.type \in FrameType /\ b.type \in FrameType /\ a.from = b.from => a.n < b.n

Rising(s) == \A i, j \in DOMAIN s : i < j => Before(s[i], s[j])
Precedes(s, u) == \A i \in DOMAIN s, j \in DOMAIN u : Before(s[i], u[j])

\* No frame has a number its sender, in the transports of trs, has not reached.
Counted(s, trs) ==
  \A i \in DOMAIN s : s[i].type \in FrameType => s[i].n <= trs[s[i].from].sent

\* Frames are in the tunnel only if their sender is in it, for good.
Tunnelled(s, trs) ==
  \A i \in DOMAIN s : s[i].type \in FrameType => trs[s[i].from].mode = "tunnel"

\* The frames of u are, in their order, frames of s.
Thins(u, s) ==
  \E d \in Nat : \A i \in DOMAIN u :
    u[i].type \in FrameType => i + d \in DOMAIN s /\ u[i] = s[i + d]

NoFrames(s) == \A i \in DOMAIN s : s[i].type \notin FrameType

LEMMA ThinsSelf == ASSUME NEW s \in Seq(Msg) PROVE Thins(s, s) /\ Thins(<<>>, s)
<1>1. \A i \in DOMAIN s : i + 0 \in DOMAIN s /\ s[i] = s[i + 0]
  OBVIOUS
<1>2. 0 \in Nat /\ DOMAIN <<>> = {}
  OBVIOUS
<1>. QED
  BY <1>1, <1>2 DEF Thins

\* Messages that are no frames may be added.
LEMMA ThinsMore ==
  ASSUME NEW s \in Seq(Msg), NEW m \in Seq(Msg), NoFrames(m)
  PROVE  Thins(s \o m, s)
<1>1. ASSUME NEW i \in DOMAIN (s \o m), (s \o m)[i].type \in FrameType
      PROVE  i + 0 \in DOMAIN s /\ (s \o m)[i] = s[i + 0]
  <2>1. i \in 1 .. Len(s) + Len(m)
    OBVIOUS
  <2>2. CASE i <= Len(s)
    BY <2>1, <2>2
  <2>3. CASE i > Len(s)
    <3>1. (s \o m)[i] = m[i - Len(s)] /\ i - Len(s) \in DOMAIN m
      BY <2>1, <2>3
    <3>. QED
      BY <1>1, <3>1 DEF NoFrames
  <2>. QED
    BY <2>1, <2>2, <2>3
<1>2. 0 \in Nat
  OBVIOUS
<1>. QED
  BY <1>1, <1>2 DEF Thins

LEMMA ThinsTail ==
  ASSUME NEW s \in Seq(Msg), s # <<>>
  PROVE  Thins(Tail(s), s)
<1>1. \A i \in DOMAIN Tail(s) : i + 1 \in DOMAIN s /\ Tail(s)[i] = s[i + 1]
  OBVIOUS
<1>2. 1 \in Nat
  OBVIOUS
<1>. QED
  BY <1>1, <1>2 DEF Thins

LEMMA ThinsPrefix ==
  ASSUME NEW s \in Seq(FrameMsg), NEW u \in Prefixes(s)
  PROVE  u \in Seq(FrameMsg) /\ Thins(u, s)
<1>1. PICK n \in 0 .. Len(s) : u = SubSeq(s, 1, n)
  BY DEF Prefixes
<1>2. /\ u \in Seq(FrameMsg) /\ Len(u) = n
      /\ \A i \in 1 .. n : u[i] = s[i]
  BY <1>1, SubSeqProperties
<1>3. \A i \in DOMAIN u : i + 0 \in DOMAIN s /\ u[i] = s[i + 0]
  BY <1>2
<1>4. 0 \in Nat
  OBVIOUS
<1>. QED
  BY <1>2, <1>3, <1>4 DEF Thins

LEMMA ThinsTwice ==
  ASSUME NEW s \in Seq(Msg), NEW u \in Seq(Msg), NEW v \in Seq(Msg), Thins(u, s), Thins(v, u)
  PROVE  Thins(v, s)
<1>1. PICK d \in Nat : \A i \in DOMAIN u :
        u[i].type \in FrameType => i + d \in DOMAIN s /\ u[i] = s[i + d]
  BY DEF Thins
<1>2. PICK e \in Nat : \A i \in DOMAIN v :
        v[i].type \in FrameType => i + e \in DOMAIN u /\ v[i] = u[i + e]
  BY DEF Thins
<1>3. ASSUME NEW i \in DOMAIN v, v[i].type \in FrameType
      PROVE  i + (d + e) \in DOMAIN s /\ v[i] = s[i + (d + e)]
  <2>1. i + e \in DOMAIN u /\ v[i] = u[i + e]
    BY <1>2, <1>3
  <2>2. (i + e) + d \in DOMAIN s /\ u[i + e] = s[(i + e) + d]
    BY <1>1, <1>3, <2>1
  <2>3. (i + e) + d = i + (d + e)
    <3>1. i \in Nat
      OBVIOUS
    <3>. QED
      BY <3>1
  <2>. QED
    BY <2>1, <2>2, <2>3
<1>4. d + e \in Nat
  OBVIOUS
<1>. QED
  BY <1>3, <1>4 DEF Thins

LEMMA RisingThins ==
  ASSUME NEW s \in Seq(Msg), NEW u \in Seq(Msg), Thins(u, s), Rising(s)
  PROVE  Rising(u)
<1>1. PICK d \in Nat : \A i \in DOMAIN u :
        u[i].type \in FrameType => i + d \in DOMAIN s /\ u[i] = s[i + d]
  BY DEF Thins
<1>2. ASSUME NEW i \in DOMAIN u, NEW j \in DOMAIN u, i < j,
             u[i].type \in FrameType, u[j].type \in FrameType
      PROVE  Before(u[i], u[j])
  <2>1. i + d \in DOMAIN s /\ j + d \in DOMAIN s /\ u[i] = s[i + d] /\ u[j] = s[j + d]
    BY <1>1, <1>2
  <2>2. i + d < j + d
    <3>1. i \in Nat /\ j \in Nat
      OBVIOUS
    <3>. QED
      BY <1>2, <3>1
  <2>. QED
    BY <2>1, <2>2 DEF Rising
<1>. QED
  BY <1>2 DEF Rising, Before

LEMMA PrecedesThins ==
  ASSUME NEW s \in Seq(Msg), NEW u \in Seq(Msg), NEW v \in Seq(Msg), NEW w \in Seq(Msg),
         Precedes(s, u), Thins(v, s), Thins(w, u)
  PROVE  Precedes(v, w)
<1>1. ASSUME NEW i \in DOMAIN v, NEW j \in DOMAIN w,
             v[i].type \in FrameType, w[j].type \in FrameType
      PROVE  Before(v[i], w[j])
  <2>1. (\E k \in DOMAIN s : v[i] = s[k]) /\ (\E k \in DOMAIN u : w[j] = u[k])
    BY <1>1 DEF Thins
  <2>. QED
    BY <2>1 DEF Precedes
<1>. QED
  BY <1>1 DEF Precedes, Before

LEMMA FramesAreMessages == Seq(FrameMsg) \subseteq Seq(Msg)
<1>1. FrameMsg \subseteq Msg
  BY DEF FrameMsg, Msg, FrameType, MessageType
<1>. QED
  BY <1>1

\* A frame that is sent next comes after all the frames there are.
LEMMA NextComesLast ==
  ASSUME NEW trs \in [Peer -> Transport], NEW s \in Seq(Msg), Counted(s, trs),
         NEW m \in Msg, m.n = trs[m.from].sent + 1
  PROVE  \A i \in DOMAIN s : Before(s[i], m)
<1>. SUFFICES ASSUME NEW i \in DOMAIN s, s[i].type \in FrameType, s[i].from = m.from
              PROVE  s[i].n < m.n
  BY DEF Before
<1>1. s[i] \in Msg /\ s[i].n <= trs[m.from].sent
  BY DEF Counted
<1>2. s[i].n \in Nat /\ trs[m.from].sent \in Nat
  BY <1>1 DEF Msg, Transport
<1>. QED
  BY <1>1, <1>2

LEMMA AppendLast ==
  ASSUME NEW s \in Seq(Msg), NEW m \in Msg
  PROVE  LET u == Append(s, m)
         IN /\ u \in Seq(Msg) /\ DOMAIN u = DOMAIN s \cup {Len(u)}
            /\ u[Len(u)] = m
            /\ \A i \in DOMAIN s : u[i] = s[i] /\ i < Len(u)
            /\ Len(u) \notin DOMAIN s
OBVIOUS

LEMMA RisingAppend ==
  ASSUME NEW s \in Seq(Msg), NEW m \in Msg, Rising(s),
         \A i \in DOMAIN s : Before(s[i], m)
  PROVE  Rising(Append(s, m))
<1>. DEFINE u == Append(s, m)
<1>1. /\ DOMAIN u = DOMAIN s \cup {Len(u)} /\ u[Len(u)] = m
      /\ \A i \in DOMAIN s : u[i] = s[i] /\ i < Len(u) /\ i \in Nat
      /\ Len(u) \in Nat
  BY AppendLast
<1>. HIDE DEF u
<1>2. ASSUME NEW i \in DOMAIN u, NEW j \in DOMAIN u, i < j PROVE Before(u[i], u[j])
  <2>. DEFINE n == Len(u)
  <2>1. i \in DOMAIN s
    <3>1. n \in Nat /\ (j = n \/ (j \in Nat /\ j < n))
      BY <1>1
    <3>. HIDE DEF n
    <3>2. i # n
      BY <1>2, <3>1
    <3>. QED
      BY <1>1, <3>2 DEF n
  <2>2. CASE j \in DOMAIN s
    BY <1>1, <1>2, <2>1, <2>2 DEF Rising
  <2>3. CASE j = Len(u)
    BY <1>1, <2>1, <2>3
  <2>. QED
    BY <1>1, <2>2, <2>3
<1>. QED
  BY <1>2 DEF Rising, u

LEMMA PrecedesAppend ==
  ASSUME NEW s \in Seq(Msg), NEW u \in Seq(Msg), NEW m \in Msg, Precedes(s, u)
  PROVE  /\ (\A i \in DOMAIN s : Before(s[i], m)) => Precedes(s, Append(u, m))
         /\ (\A j \in DOMAIN u : Before(m, u[j])) => Precedes(Append(s, m), u)
<1>. DEFINE v == Append(u, m)
            w == Append(s, m)
<1>1. /\ DOMAIN v = DOMAIN u \cup {Len(v)} /\ v[Len(v)] = m
      /\ \A i \in DOMAIN u : v[i] = u[i]
  BY AppendLast
<1>2. /\ DOMAIN w = DOMAIN s \cup {Len(w)} /\ w[Len(w)] = m
      /\ \A i \in DOMAIN s : w[i] = s[i]
  BY AppendLast
<1>. HIDE DEF v, w
<1>3. ASSUME \A i \in DOMAIN s : Before(s[i], m) PROVE Precedes(s, v)
  BY <1>1, <1>3 DEF Precedes
<1>4. ASSUME \A j \in DOMAIN u : Before(m, u[j]) PROVE Precedes(w, u)
  BY <1>2, <1>4 DEF Precedes
<1>. QED
  BY <1>3, <1>4 DEF v, w

\* The counts and modes of the senders only grow.
LEMMA CountedLater ==
  ASSUME NEW trs \in [Peer -> Transport], NEW now \in [Peer -> Transport],
         \A p \in Peer : Grows(trs[p], now[p]),
         NEW s \in Seq(Msg), NEW u \in Seq(Msg), Thins(u, s)
  PROVE  /\ Counted(s, trs) => Counted(u, now)
         /\ Tunnelled(s, trs) => Tunnelled(u, now)
<1>1. ASSUME NEW i \in DOMAIN u, u[i].type \in FrameType
      PROVE  /\ \E k \in DOMAIN s : u[i] = s[k]
             /\ u[i].from \in Peer /\ u[i].n \in Nat
  <2>1. u[i] \in Msg
    OBVIOUS
  <2>. QED
    BY <1>1, <2>1 DEF Thins, Msg
<1>2. ASSUME NEW p \in Peer
      PROVE  /\ trs[p].sent \in Nat /\ now[p].sent \in Nat /\ trs[p].sent <= now[p].sent
             /\ trs[p].mode = "tunnel" => now[p].mode = "tunnel"
  <2>1. trs[p] \in Transport /\ now[p] \in Transport
    OBVIOUS
  <2>. QED
    BY <1>2, <2>1 DEF Grows, Transport
<1>3. ASSUME Counted(s, trs) PROVE Counted(u, now)
  <2>. SUFFICES ASSUME NEW i \in DOMAIN u, u[i].type \in FrameType
                PROVE  u[i].n <= now[u[i].from].sent
    BY DEF Counted
  <2>1. u[i].n <= trs[u[i].from].sent
    BY <1>1, <1>3 DEF Counted
  <2>. QED
    BY <1>1, <1>2, <2>1
<1>4. ASSUME Tunnelled(s, trs) PROVE Tunnelled(u, now)
  <2>. SUFFICES ASSUME NEW i \in DOMAIN u, u[i].type \in FrameType
                PROVE  now[u[i].from].mode = "tunnel"
    BY DEF Tunnelled
  <2>1. trs[u[i].from].mode = "tunnel"
    BY <1>1, <1>4 DEF Tunnelled
  <2>. QED
    BY <1>1, <1>2, <2>1
<1>. QED
  BY <1>3, <1>4

LEMMA CountedAppend ==
  ASSUME NEW trs, NEW s \in Seq(Msg), NEW m \in Msg
  PROVE  /\ Counted(s, trs) /\ m.n <= trs[m.from].sent => Counted(Append(s, m), trs)
         /\ Tunnelled(s, trs) /\ trs[m.from].mode = "tunnel" => Tunnelled(Append(s, m), trs)
<1>. DEFINE u == Append(s, m)
<1>1. /\ DOMAIN u = DOMAIN s \cup {Len(u)} /\ u[Len(u)] = m
      /\ \A i \in DOMAIN s : u[i] = s[i]
  BY AppendLast
<1>. HIDE DEF u
<1>2. Counted(s, trs) /\ m.n <= trs[m.from].sent => Counted(u, trs)
  BY <1>1 DEF Counted
<1>3. Tunnelled(s, trs) /\ trs[m.from].mode = "tunnel" => Tunnelled(u, trs)
  BY <1>1 DEF Tunnelled
<1>. QED
  BY <1>2, <1>3 DEF u
------------------------------------------------------------------------------
(* The invariant. *)

RoomOK ==
  /\ room \in Seq(Peer) /\ Len(room) <= 2
  /\ \A i, j \in DOMAIN room : i # j => (room[i] \in Sender) # (room[j] \in Sender)

\* A message is never on its way to a socket that is not open.
Mailbox(boxes, trs) ==
  /\ boxes \in [Peer -> Seq(Msg)]
  /\ \A t \in Peer : trs[t].ws # "open" => boxes[t] = <<>>

Transports(trs) == trs \in [Peer -> Transport] /\ \A t \in Peer : Sound(t, trs[t])

Typed ==
  /\ Transports(tr) /\ Mailbox(inbox, tr)
  /\ wire \in [Peer -> Seq(FrameMsg)] /\ got \in [Peer -> Seq(FrameMsg)]
  /\ known \subseteq Peer /\ RoomOK

\* Frames of the tunnel come after those of the channel, and both after those
\* already emitted; once in the tunnel, t does not emit what is left in the channel.
Ordered(t) ==
  /\ Rising(got[t]) /\ Rising(wire[t]) /\ Rising(inbox[t])
  /\ Precedes(got[t], inbox[t]) /\ Precedes(wire[t], inbox[t])
  /\ tr[t].mode = "p2p" /\ ~tr[t].closed => Precedes(got[t], wire[t])
  /\ Counted(got[t], tr) /\ Counted(wire[t], tr) /\ Counted(inbox[t], tr)
  /\ Tunnelled(inbox[t], tr)

TransportInv == Typed /\ \A t \in Peer : Ordered(t)

\* What a step may do to the transports, and to the mail and the wire of x.
Moves == Transports(tr)' /\ \A t \in Peer : Grows(tr[t], tr'[t])
QuietMail(x) == inbox'[x] \in Seq(Msg) /\ Thins(inbox'[x], inbox[x])
QuietWire(x) == wire'[x] \in Seq(FrameMsg) /\ Thins(wire'[x], wire[x])

\* The sequences of x are sequences of messages.
LEMMA Sequences3 ==
  ASSUME Typed, NEW x \in Peer
  PROVE  /\ inbox[x] \in Seq(Msg) /\ wire[x] \in Seq(Msg) /\ got[x] \in Seq(Msg)
         /\ tr \in [Peer -> Transport]
BY FramesAreMessages DEF Typed, Mailbox, Transports

\* A transport that is open for frames of the channel has been so before.
LEMMA DirectBefore ==
  ASSUME Typed, Moves, NEW x \in Peer, tr'[x].mode = "p2p", ~tr'[x].closed
  PROVE  tr[x].mode = "p2p" /\ ~tr[x].closed
<1>1. tr[x] \in Transport /\ Grows(tr[x], tr'[x])
  BY DEF Moves, Typed, Transports
<1>. QED
  BY <1>1 DEF Transport, Grows

\* A step that moves no frame on keeps the order of the frames of x.
LEMMA QuietOrder ==
  ASSUME NEW x \in Peer, Typed, Ordered(x), Moves, QuietMail(x), QuietWire(x),
         got'[x] = got[x]
  PROVE  Ordered(x)'
<1>1. /\ inbox[x] \in Seq(Msg) /\ wire[x] \in Seq(Msg) /\ got[x] \in Seq(Msg)
      /\ tr \in [Peer -> Transport]
  BY Sequences3
<1>2. /\ inbox'[x] \in Seq(Msg) /\ wire'[x] \in Seq(Msg)
      /\ tr' \in [Peer -> Transport] /\ \A p \in Peer : Grows(tr[p], tr'[p])
  BY FramesAreMessages DEF QuietMail, QuietWire, Moves, Transports
<1>3. /\ Thins(inbox'[x], inbox[x]) /\ Thins(wire'[x], wire[x]) /\ Thins(got[x], got[x])
  BY <1>1, ThinsSelf DEF QuietMail, QuietWire
<1>4. Rising(got'[x]) /\ Rising(wire'[x]) /\ Rising(inbox'[x])
  BY <1>1, <1>2, <1>3, RisingThins DEF Ordered
<1>5. Precedes(got'[x], inbox'[x]) /\ Precedes(wire'[x], inbox'[x])
  BY <1>1, <1>2, <1>3, PrecedesThins DEF Ordered
<1>6. tr'[x].mode = "p2p" /\ ~tr'[x].closed => Precedes(got'[x], wire'[x])
  BY <1>1, <1>2, <1>3, PrecedesThins, DirectBefore DEF Ordered
<1>7. /\ Counted(got'[x], tr') /\ Counted(wire'[x], tr') /\ Counted(inbox'[x], tr')
      /\ Tunnelled(inbox'[x], tr')
  BY <1>1, <1>2, <1>3, CountedLater DEF Ordered
<1>. QED
  BY <1>4, <1>5, <1>6, <1>7 DEF Ordered

\* A frame sent through the tunnel comes after all that is on its way to x.
LEMMA TunnelOrder ==
  ASSUME NEW x \in Peer, NEW t \in Peer, Typed, Ordered(x), Moves,
         tr'[t].sent = tr[t].sent + 1, tr'[t].mode = "tunnel", QuietWire(x),
         inbox'[x] = Append(inbox[x], Message("TUNNEL_FRAME", t, tr'[t].sent)),
         got'[x] = got[x]
  PROVE  Ordered(x)'
<1>. DEFINE m == Message("TUNNEL_FRAME", t, tr'[t].sent)
<1>1. /\ inbox[x] \in Seq(Msg) /\ wire[x] \in Seq(Msg) /\ got[x] \in Seq(Msg)
      /\ tr \in [Peer -> Transport]
  BY Sequences3
<1>2. /\ wire'[x] \in Seq(Msg)
      /\ tr' \in [Peer -> Transport] /\ \A p \in Peer : Grows(tr[p], tr'[p])
  BY FramesAreMessages DEF QuietWire, Moves, Transports
<1>3. /\ Thins(inbox[x], inbox[x]) /\ Thins(wire'[x], wire[x]) /\ Thins(got[x], got[x])
  BY <1>1, ThinsSelf DEF QuietWire
<1>4. /\ m \in Msg /\ m.n = tr[m.from].sent + 1 /\ m.n <= tr'[m.from].sent
      /\ tr'[m.from].mode = "tunnel"
  <2>1. tr'[t] \in Transport
    BY <1>2
  <2>2. tr'[t].sent \in Nat
    BY <2>1 DEF Transport
  <2>. QED
    BY <2>2 DEF Message, Msg, MessageType
<1>. HIDE DEF m
<1>5. /\ \A i \in DOMAIN inbox[x] : Before(inbox[x][i], m)
      /\ \A i \in DOMAIN wire[x] : Before(wire[x][i], m)
      /\ \A i \in DOMAIN got[x] : Before(got[x][i], m)
  BY <1>1, <1>4, NextComesLast DEF Ordered
<1>6. inbox'[x] = Append(inbox[x], m)
  BY DEF m
<1>7. Rising(got'[x]) /\ Rising(wire'[x]) /\ Rising(inbox'[x])
  BY <1>1, <1>2, <1>3, <1>4, <1>5, <1>6, RisingThins, RisingAppend DEF Ordered
<1>8. inbox'[x] \in Seq(Msg)
  BY <1>1, <1>4, <1>6, AppendLast
<1>9. Precedes(got'[x], inbox'[x]) /\ Precedes(wire'[x], inbox'[x])
  <2>1. Precedes(got[x], inbox'[x]) /\ Precedes(wire[x], inbox'[x])
    BY <1>1, <1>4, <1>5, <1>6, PrecedesAppend DEF Ordered
  <2>2. Thins(inbox'[x], inbox'[x])
    BY <1>8, ThinsSelf
  <2>. QED
    BY <1>1, <1>2, <1>3, <1>8, <2>1, <2>2, PrecedesThins
<1>10. tr'[x].mode = "p2p" /\ ~tr'[x].closed => Precedes(got'[x], wire'[x])
  BY <1>1, <1>2, <1>3, PrecedesThins, DirectBefore DEF Ordered
<1>11. /\ Counted(got'[x], tr') /\ Counted(wire'[x], tr')
       /\ Counted(inbox[x], tr') /\ Tunnelled(inbox[x], tr')
  BY <1>1, <1>2, <1>3, CountedLater DEF Ordered
<1>12. Counted(inbox'[x], tr') /\ Tunnelled(inbox'[x], tr')
  BY <1>1, <1>4, <1>6, <1>11, CountedAppend
<1>. QED
  BY <1>7, <1>9, <1>10, <1>11, <1>12 DEF Ordered

\* A frame sent over the channel comes after all that is in it; its sender has
\* nothing in the tunnel yet.
LEMMA ChannelOrder ==
  ASSUME NEW x \in Peer, NEW t \in Peer, Typed, Ordered(x), Moves,
         tr'[t].sent = tr[t].sent + 1, tr[t].mode = "p2p",
         inbox'[x] = inbox[x], got'[x] = got[x],
         wire'[x] = Append(wire[x], Message("FRAME", t, tr'[t].sent))
  PROVE  Ordered(x)'
<1>. DEFINE m == Message("FRAME", t, tr'[t].sent)
<1>1. /\ inbox[x] \in Seq(Msg) /\ wire[x] \in Seq(Msg) /\ got[x] \in Seq(Msg)
      /\ tr \in [Peer -> Transport]
  BY Sequences3
<1>2. tr' \in [Peer -> Transport] /\ \A p \in Peer : Grows(tr[p], tr'[p])
  BY DEF Moves, Transports
<1>3. Thins(inbox[x], inbox[x]) /\ Thins(wire[x], wire[x]) /\ Thins(got[x], got[x])
  BY <1>1, ThinsSelf
<1>4. /\ m \in Msg /\ m.n = tr[m.from].sent + 1 /\ m.n <= tr'[m.from].sent
      /\ tr[m.from].mode # "tunnel"
  <2>1. tr'[t] \in Transport
    BY <1>2
  <2>2. tr'[t].sent \in Nat
    BY <2>1 DEF Transport
  <2>. QED
    BY <2>2 DEF Message, Msg, MessageType
<1>. HIDE DEF m
<1>5. /\ \A i \in DOMAIN wire[x] : Before(wire[x][i], m)
      /\ \A i \in DOMAIN got[x] : Before(got[x][i], m)
      /\ \A i \in DOMAIN inbox[x] : Before(m, inbox[x][i])
  <2>1. \A i \in DOMAIN inbox[x] : Before(m, inbox[x][i])
    BY <1>4 DEF Ordered, Tunnelled, Before
  <2>. QED
    BY <1>1, <1>4, <2>1, NextComesLast DEF Ordered
<1>6. wire'[x] = Append(wire[x], m)
  BY DEF m
<1>7. Rising(wire'[x]) /\ Precedes(wire'[x], inbox[x])
  BY <1>1, <1>4, <1>5, <1>6, RisingAppend, PrecedesAppend DEF Ordered
<1>8. tr'[x].mode = "p2p" /\ ~tr'[x].closed => Precedes(got'[x], wire'[x])
  BY <1>1, <1>4, <1>5, <1>6, PrecedesAppend, DirectBefore DEF Ordered
<1>9. /\ Counted(got[x], tr') /\ Counted(wire[x], tr')
      /\ Counted(inbox[x], tr') /\ Tunnelled(inbox[x], tr')
  BY <1>1, <1>2, <1>3, CountedLater DEF Ordered
<1>10. Counted(wire'[x], tr')
  BY <1>1, <1>4, <1>6, <1>9, CountedAppend
<1>. QED
  BY <1>7, <1>8, <1>9, <1>10 DEF Ordered

\* The head of a sequence comes before the rest of it.
LEMMA HeadFirst ==
  ASSUME NEW s \in Seq(Msg), s # <<>>
  PROVE  /\ Head(s) = s[1] /\ 1 \in DOMAIN s /\ Head(s) \in Msg /\ Tail(s) \in Seq(Msg)
         /\ Rising(s) => \A j \in DOMAIN Tail(s) : Before(Head(s), Tail(s)[j])
<1>1. /\ Head(s) = s[1] /\ 1 \in DOMAIN s /\ Head(s) \in Msg /\ Tail(s) \in Seq(Msg)
  OBVIOUS
<1>2. ASSUME Rising(s), NEW j \in DOMAIN Tail(s) PROVE Before(Head(s), Tail(s)[j])
  <2>1. j + 1 \in DOMAIN s /\ 1 < j + 1 /\ Tail(s)[j] = s[j + 1]
    OBVIOUS
  <2>. QED
    BY <1>1, <1>2, <2>1 DEF Rising
<1>. QED
  BY <1>1, <1>2

\* A frame emitted from the tunnel comes after those emitted before.
LEMMA EmitTunnelOrder ==
  ASSUME NEW x \in Peer, Typed, Ordered(x), Moves, inbox[x] # <<>>,
         inbox'[x] \in Seq(Msg), Thins(inbox'[x], Tail(inbox[x])), QuietWire(x),
         got'[x] = Append(got[x], Head(inbox[x])), tr'[x].mode = "tunnel"
  PROVE  Ordered(x)'
<1>. DEFINE h == Head(inbox[x])
            rest == Tail(inbox[x])
<1>1. /\ inbox[x] \in Seq(Msg) /\ wire[x] \in Seq(Msg) /\ got[x] \in Seq(Msg)
      /\ tr \in [Peer -> Transport]
  BY Sequences3
<1>2. /\ wire'[x] \in Seq(Msg)
      /\ tr' \in [Peer -> Transport] /\ \A p \in Peer : Grows(tr[p], tr'[p])
  BY FramesAreMessages DEF QuietWire, Moves, Transports
<1>3. /\ h = inbox[x][1] /\ 1 \in DOMAIN inbox[x] /\ h \in Msg /\ rest \in Seq(Msg)
      /\ \A j \in DOMAIN rest : Before(h, rest[j])
  BY <1>1, HeadFirst DEF Ordered
<1>4. Thins(rest, inbox[x])
  BY <1>1, ThinsTail
<1>5. got'[x] = Append(got[x], h) /\ Thins(inbox'[x], rest)
  OBVIOUS
<1>. HIDE DEF h, rest
<1>6. Thins(inbox'[x], inbox[x]) /\ Thins(wire'[x], wire[x]) /\ Thins(got[x], got[x])
  BY <1>1, <1>3, <1>4, <1>5, ThinsTwice, ThinsSelf DEF QuietWire
<1>7. \A i \in DOMAIN got[x] : Before(got[x][i], h)
  BY <1>3 DEF Ordered, Precedes
<1>8. Rising(got'[x]) /\ Rising(wire'[x]) /\ Rising(inbox'[x])
  BY <1>1, <1>2, <1>3, <1>5, <1>6, <1>7, RisingThins, RisingAppend DEF Ordered
<1>9. got'[x] \in Seq(Msg)
  BY <1>1, <1>3, <1>5, AppendLast
<1>10. Precedes(got'[x], inbox'[x]) /\ Precedes(wire'[x], inbox'[x])
  <2>1. Thins(rest, rest) /\ Thins(got'[x], got'[x])
    BY <1>3, <1>9, ThinsSelf
  <2>2. Precedes(got[x], rest)
    BY <1>1, <1>3, <1>4, <1>6, PrecedesThins DEF Ordered
  <2>3. Precedes(got'[x], rest)
    BY <1>1, <1>3, <1>5, <2>2, PrecedesAppend
  <2>4. Precedes(got'[x], inbox'[x])
    BY <1>3, <1>5, <1>9, <2>1, <2>3, PrecedesThins
  <2>. QED
    BY <1>1, <1>2, <1>6, <2>4, PrecedesThins DEF Ordered
<1>11. /\ Counted(got[x], tr') /\ Counted(wire'[x], tr') /\ Counted(inbox[x], tr')
       /\ Counted(inbox'[x], tr') /\ Tunnelled(inbox'[x], tr')
  <2>1. Thins(inbox[x], inbox[x])
    BY <1>1, ThinsSelf
  <2>. QED
    BY <1>1, <1>2, <1>6, <2>1, CountedLater DEF Ordered
<1>12. Counted(got'[x], tr')
  <2>1. CASE h.type \in FrameType
    <3>1. h.n <= tr'[h.from].sent
      BY <1>3, <1>11, <2>1 DEF Counted
    <3>. QED
      BY <1>1, <1>3, <1>5, <1>11, <3>1, CountedAppend
  <2>2. CASE h.type \notin FrameType
    <3>1. /\ DOMAIN got'[x] = DOMAIN got[x] \cup {Len(got'[x])} /\ got'[x][Len(got'[x])] = h
          /\ \A i \in DOMAIN got[x] : got'[x][i] = got[x][i]
      BY <1>1, <1>3, <1>5, AppendLast
    <3>. QED
      BY <1>11, <2>2, <3>1 DEF Counted
  <2>. QED
    BY <2>1, <2>2
<1>. QED
  BY <1>8, <1>10, <1>11, <1>12 DEF Ordered

\* A frame emitted from the channel comes after those emitted before, and before
\* those in the tunnel.
LEMMA EmitDirectOrder ==
  ASSUME NEW x \in Peer, Typed, Ordered(x), wire[x] # <<>>, wire'[x] = Tail(wire[x]),
         UNCHANGED <<tr, inbox>>,
         \/ got'[x] = got[x]
         \/ /\ tr[x].mode = "p2p" /\ ~tr[x].closed
            /\ got'[x] = Append(got[x], Head(wire[x]))
  PROVE  Ordered(x)'
<1>. DEFINE h == Head(wire[x])
            rest == Tail(wire[x])
<1>1. /\ inbox[x] \in Seq(Msg) /\ wire[x] \in Seq(Msg) /\ got[x] \in Seq(Msg)
      /\ tr \in [Peer -> Transport]
  BY Sequences3
<1>2. /\ h = wire[x][1] /\ 1 \in DOMAIN wire[x] /\ h \in Msg /\ rest \in Seq(Msg)
      /\ \A j \in DOMAIN rest : Before(h, rest[j])
  BY <1>1, HeadFirst DEF Ordered
<1>3. Thins(rest, wire[x]) /\ Thins(inbox[x], inbox[x]) /\ Thins(got[x], got[x])
  BY <1>1, ThinsTail, ThinsSelf
<1>4. h.type \in FrameType
  <2>1. wire[x] \in Seq(FrameMsg)
    BY DEF Typed
  <2>2. h \in FrameMsg
    BY <2>1
  <2>. QED
    BY <2>2 DEF FrameMsg
<1>. DEFINE shown == tr[x].mode = "p2p" /\ ~tr[x].closed
<1>5. \/ got'[x] = got[x]
      \/ shown /\ got'[x] = Append(got[x], h)
  OBVIOUS
<1>6. wire'[x] = rest /\ inbox'[x] = inbox[x] /\ tr' = tr
  OBVIOUS
<1>. HIDE DEF h, rest, shown
<1>7. Rising(rest) /\ Precedes(rest, inbox[x]) /\ (shown => Precedes(got[x], rest))
  BY <1>1, <1>2, <1>3, RisingThins, PrecedesThins DEF Ordered, shown
<1>8. Counted(rest, tr)
  <2>1. \A i \in DOMAIN rest :
          rest[i].type \in FrameType => \E k \in DOMAIN wire[x] : rest[i] = wire[x][k]
    BY <1>3 DEF Thins
  <2>. QED
    BY <2>1 DEF Ordered, Counted
<1>9. CASE got'[x] = got[x]
  BY <1>6, <1>7, <1>8, <1>9 DEF Ordered, shown
<1>10. CASE shown /\ got'[x] = Append(got[x], h)
  <2>1. \A i \in DOMAIN got[x] : Before(got[x][i], h)
    BY <1>2, <1>10 DEF Ordered, Precedes, shown
  <2>2. \A j \in DOMAIN inbox[x] : Before(h, inbox[x][j])
    BY <1>2 DEF Ordered, Precedes
  <2>3. Rising(got'[x])
    BY <1>1, <1>2, <1>10, <2>1, RisingAppend DEF Ordered
  <2>4. Precedes(got'[x], inbox[x])
    BY <1>1, <1>2, <1>10, <2>2, PrecedesAppend DEF Ordered
  <2>5. Precedes(got'[x], rest)
    BY <1>1, <1>2, <1>7, <1>10, PrecedesAppend
  <2>6. h.n <= tr[h.from].sent
    BY <1>2, <1>4 DEF Ordered, Counted
  <2>7. Counted(got'[x], tr)
    BY <1>1, <1>2, <1>10, <2>6, CountedAppend DEF Ordered
  <2>. QED
    BY <1>6, <1>7, <1>8, <2>3, <2>4, <2>5, <2>7 DEF Ordered
<1>. QED
  BY <1>5, <1>9, <1>10
------------------------------------------------------------------------------
(* Steps that move no frame on. *)

MailStep == Mailbox(inbox, tr)' /\ \A x \in Peer : Thins(inbox'[x], inbox[x])
WireStep == wire' \in [Peer -> Seq(FrameMsg)] /\ \A x \in Peer : Thins(wire'[x], wire[x])

LEMMA Here ==
  ASSUME Typed, NEW t \in Peer
  PROVE  /\ Sound(t, tr[t]) /\ tr[t] \in Transport
         /\ inbox[t] # <<>> => tr[t].ws = "open" /\ ~tr[t].closed
<1>1. Sound(t, tr[t]) /\ tr[t] \in Transport
  BY DEF Typed, Transports
<1>2. inbox[t] # <<>> => tr[t].ws = "open"
  BY DEF Typed, Mailbox
<1>. QED
  BY <1>1, <1>2 DEF Sound

\* A transport becomes me, the others stay as they are.
LEMMA BecomeMoves ==
  ASSUME Typed, NEW t \in Peer, NEW me, Sound(t, me), Grows(tr[t], me), Become(t, me)
  PROVE  /\ Moves /\ tr'[t] = me
         /\ \A x \in Peer \ {t} : tr'[x] = tr[x]
<1>1. tr \in [Peer -> Transport] /\ \A x \in Peer : Sound(x, tr[x])
  BY DEF Typed, Transports
<1>2. me \in Transport /\ tr' = [tr EXCEPT ![t] = me]
  BY DEF Sound, Become
<1>3. tr'[t] = me /\ \A x \in Peer \ {t} : tr'[x] = tr[x]
  BY <1>1, <1>2
<1>4. tr' \in [Peer -> Transport] /\ \A x \in Peer : Sound(x, tr'[x])
  BY <1>1, <1>2, <1>3
<1>5. \A x \in Peer : Grows(tr[x], tr[x])
  BY <1>1, CalmGrows DEF Calm
<1>6. \A x \in Peer : Grows(tr[x], tr'[x])
  BY <1>3, <1>5
<1>. QED
  BY <1>3, <1>4, <1>6 DEF Moves, Transports

LEMMA QuietStep ==
  ASSUME TransportInv, Moves, MailStep, WireStep, got' = got, RoomOK', known' \subseteq Peer
  PROVE  TransportInv'
<1>1. \A x \in Peer : Ordered(x)'
  <2>. TAKE x \in Peer
  <2>1. Typed /\ Ordered(x) /\ got'[x] = got[x]
    BY DEF TransportInv
  <2>2. QuietMail(x) /\ QuietWire(x)
    BY DEF MailStep, WireStep, Mailbox, QuietMail, QuietWire
  <2>. QED
    BY <2>1, <2>2, QuietOrder
<1>2. Typed'
  BY DEF TransportInv, Typed, Moves, MailStep, WireStep
<1>. QED
  BY <1>1, <1>2 DEF TransportInv

LEMMA RoomStays == TransportInv /\ UNCHANGED server => RoomOK' /\ known' \subseteq Peer
BY DEF TransportInv, Typed, server, RoomOK

LEMMA WireStays == Typed /\ UNCHANGED wire => WireStep
<1>. SUFFICES ASSUME Typed, UNCHANGED wire PROVE WireStep
  OBVIOUS
<1>1. wire' \in [Peer -> Seq(FrameMsg)]
  BY DEF Typed
<1>2. \A x \in Peer : wire[x] \in Seq(Msg)
  BY Sequences3
<1>. QED
  BY <1>1, <1>2, ThinsSelf DEF WireStep

\* Of the frames on the wire of a connection that closes a prefix is left.
LEMMA CutThins ==
  ASSUME Typed, NEW t \in Peer, NEW me, CutIfClosed(t, me)
  PROVE  WireStep
<1>1. CASE UNCHANGED wire
  BY <1>1, WireStays
<1>2. CASE wire' \in Cut(t)
  <2>1. wire \in [Peer -> Seq(FrameMsg)]
    BY DEF Typed
  <2>2. /\ wire' \in [Peer -> UNION {Prefixes(wire[p]) : p \in Peer}]
        /\ \A p \in Peer : wire'[p] \in Prefixes(wire[p]) \/ wire'[p] = wire[p]
    BY <1>2 DEF Cut
  <2>3. ASSUME NEW p \in Peer PROVE wire'[p] \in Seq(FrameMsg) /\ Thins(wire'[p], wire[p])
    <3>1. wire[p] \in Seq(FrameMsg) /\ wire[p] \in Seq(Msg)
      BY <2>1, Sequences3
    <3>. QED
      BY <2>2, <3>1, ThinsPrefix, ThinsSelf
  <2>. QED
    BY <2>2, <2>3 DEF WireStep
<1>. QED
  BY <1>1, <1>2 DEF CutIfClosed

LEMMA MailStays ==
  ASSUME Typed, UNCHANGED inbox, \A x \in Peer : tr'[x].ws = tr[x].ws PROVE MailStep
<1>1. Mailbox(inbox, tr)'
  BY DEF Typed, Mailbox
<1>2. \A x \in Peer : inbox[x] \in Seq(Msg)
  BY Sequences3
<1>. QED
  BY <1>1, <1>2, ThinsSelf DEF MailStep

\* A step of one transport alone keeps the invariant.
LEMMA ChangeStep ==
  ASSUME TransportInv, NEW t \in Peer, NEW me, Sound(t, me), Grows(tr[t], me),
         me.ws = tr[t].ws, Change(t, me)
  PROVE  TransportInv' /\ Moves
<1>1. Typed /\ Become(t, me) /\ CutIfClosed(t, me) /\ UNCHANGED <<inbox, got, server>>
  BY DEF TransportInv, Change
<1>2. Moves /\ tr'[t] = me /\ \A x \in Peer \ {t} : tr'[x] = tr[x]
  BY <1>1, BecomeMoves
<1>3. MailStep
  BY <1>1, <1>2, MailStays
<1>4. WireStep
  BY <1>1, CutThins
<1>. QED
  BY <1>1, <1>2, <1>3, <1>4, QuietStep, RoomStays
------------------------------------------------------------------------------
(* The mail. *)

LEMMA ThinsNone ==
  ASSUME NEW s, NEW u, NoFrames(u) PROVE Thins(u, s)
BY DEF Thins, NoFrames

LEMMA CandidatesQuiet ==
  ASSUME NEW t \in Peer, NEW n \in Nat
  PROVE  Candidates(t, n) \in Seq(Msg) /\ NoFrames(Candidates(t, n))
<1>1. Message("ICE_CANDIDATE", t, 0) \in Msg
  BY DEF Message, Msg, MessageType
<1>2. Candidates(t, n) \in Seq(Msg)
  BY <1>1 DEF Candidates
<1>3. NoFrames(Candidates(t, n))
  BY DEF NoFrames, Candidates, Message, FrameType
<1>. QED
  BY <1>2, <1>3

LEMMA OneMessage ==
  ASSUME NEW t \in Peer, NEW type \in MessageType, NEW n \in Nat
  PROVE  /\ Message(type, t, n) \in Msg /\ <<Message(type, t, n)>> \in Seq(Msg)
         /\ type \notin FrameType => NoFrames(<<Message(type, t, n)>>)
<1>1. Message(type, t, n) \in Msg /\ Message(type, t, n).type = type
  BY DEF Message, Msg
<1>. QED
  BY <1>1 DEF NoFrames

\* The server appends what it relays to the mail of one open socket, if any.
LEMMA RelayedMail ==
  ASSUME NEW boxes \in [Peer -> Seq(Msg)], NEW t \in Peer, NEW msgs \in Seq(Msg)
  PROVE  /\ Relayed(boxes, t, msgs) \in [Peer -> Seq(Msg)]
         /\ \A x \in Peer : \/ Relayed(boxes, t, msgs)[x] = boxes[x]
                            \/ /\ Relayed(boxes, t, msgs)[x] = boxes[x] \o msgs
                               /\ tr[x].ws = "open"
<1>1. CASE Others(t) = <<>> \/ t \notin known \/ tr[Others(t)[1]].ws # "open"
  BY <1>1 DEF Relayed
<1>2. CASE ~(Others(t) = <<>> \/ t \notin known \/ tr[Others(t)[1]].ws # "open")
  <2>. DEFINE to == Others(t)[1]
  <2>1. Relayed(boxes, t, msgs) = [boxes EXCEPT ![to] = boxes[to] \o msgs]
    BY <1>2 DEF Relayed
  <2>2. tr[to].ws = "open"
    BY <1>2
  <2>. HIDE DEF to
  <2>3. \A x \in Peer : Relayed(boxes, t, msgs)[x] = IF x = to THEN boxes[x] \o msgs ELSE boxes[x]
    BY <2>1
  <2>4. \A x \in Peer : boxes[x] \in Seq(Msg) /\ boxes[x] \o msgs \in Seq(Msg)
    OBVIOUS
  <2>5. Relayed(boxes, t, msgs) \in [Peer -> Seq(Msg)]
    BY <2>1, <2>4
  <2>. QED
    BY <2>2, <2>3, <2>5
<1>. QED
  BY <1>1, <1>2

\* What a handler relays, with or without taking its message from the mail.
LEMMA ReplyMail ==
  ASSUME Typed, NEW t \in Peer, NEW msgs \in Seq(Msg), NoFrames(msgs),
         \/ inbox' = Relayed(inbox, t, msgs)
         \/ inbox[t] # <<>> /\ inbox' = Relayed(Take(t), t, msgs)
         \/ inbox[t] # <<>> /\ inbox' = Take(t)
         \/ inbox' = inbox,
         \A x \in Peer : tr'[x].ws = tr[x].ws
  PROVE  MailStep
<1>1. inbox \in [Peer -> Seq(Msg)] /\ \A x \in Peer : tr[x].ws # "open" => inbox[x] = <<>>
  BY DEF Typed, Mailbox
<1>2. CASE inbox' = Relayed(inbox, t, msgs)
  <2>1. /\ inbox' \in [Peer -> Seq(Msg)]
        /\ \A x \in Peer : \/ inbox'[x] = inbox[x]
                           \/ inbox'[x] = inbox[x] \o msgs /\ tr[x].ws = "open"
    BY <1>1, <1>2, RelayedMail
  <2>2. \A x \in Peer : Thins(inbox'[x], inbox[x])
    BY <1>1, <2>1, ThinsSelf, ThinsMore
  <2>. QED
    BY <1>1, <2>1, <2>2 DEF MailStep, Mailbox
<1>3. CASE inbox[t] # <<>> /\ (inbox' = Relayed(Take(t), t, msgs) \/ inbox' = Take(t))
  <2>1. /\ Take(t) \in [Peer -> Seq(Msg)] /\ Take(t)[t] = Tail(inbox[t])
        /\ \A x \in Peer \ {t} : Take(t)[x] = inbox[x]
    BY <1>1, <1>3 DEF Take
  <2>2. /\ inbox' \in [Peer -> Seq(Msg)]
        /\ \A x \in Peer : \/ inbox'[x] = Take(t)[x]
                           \/ inbox'[x] = Take(t)[x] \o msgs /\ tr[x].ws = "open"
    <3>1. CASE inbox' = Take(t)
      BY <2>1, <3>1
    <3>2. CASE inbox' = Relayed(Take(t), t, msgs)
      <4>. HIDE DEF Take
      <4>. DEFINE boxes == Take(t)
      <4>1. boxes \in [Peer -> Seq(Msg)]
        BY <2>1
      <4>. HIDE DEF boxes
      <4>2. /\ Relayed(boxes, t, msgs) \in [Peer -> Seq(Msg)]
            /\ \A x \in Peer : \/ Relayed(boxes, t, msgs)[x] = boxes[x]
                               \/ /\ Relayed(boxes, t, msgs)[x] = boxes[x] \o msgs
                                  /\ tr[x].ws = "open"
        BY <4>1, RelayedMail
      <4>. QED
        BY <3>2, <4>2 DEF boxes
    <3>. QED
      BY <1>3, <3>1, <3>2
  <2>3. \A x \in Peer : Thins(Take(t)[x], inbox[x])
    BY <1>1, <1>3, <2>1, ThinsSelf, ThinsTail
  <2>4. \A x \in Peer : Thins(inbox'[x], Take(t)[x])
    BY <2>1, <2>2, ThinsSelf, ThinsMore
  <2>5. \A x \in Peer : Thins(inbox'[x], inbox[x])
    BY <1>1, <2>1, <2>2, <2>3, <2>4, ThinsTwice
  <2>6. tr[t].ws = "open"
    BY <1>1, <1>3
  <2>. QED
    BY <1>1, <2>1, <2>2, <2>5, <2>6 DEF MailStep, Mailbox
<1>4. CASE inbox' = inbox
  BY <1>4, MailStays
<1>. QED
  BY <1>2, <1>3, <1>4

\* A handler of one transport that relays no frame keeps the invariant.
LEMMA HandlerStep ==
  ASSUME TransportInv, NEW t \in Peer, NEW me, Sound(t, me), Grows(tr[t], me),
         me.ws = tr[t].ws, Become(t, me), CutIfClosed(t, me) \/ UNCHANGED wire,
         NEW msgs \in Seq(Msg), NoFrames(msgs),
         \/ inbox' = Relayed(inbox, t, msgs)
         \/ inbox[t] # <<>> /\ inbox' = Relayed(Take(t), t, msgs)
         \/ inbox[t] # <<>> /\ inbox' = Take(t)
         \/ inbox' = inbox,
         UNCHANGED <<got, server>>
  PROVE  TransportInv' /\ Moves
<1>1. Typed
  BY DEF TransportInv
<1>2. Moves /\ tr'[t] = me /\ \A x \in Peer \ {t} : tr'[x] = tr[x]
  BY <1>1, BecomeMoves
<1>3. MailStep
  BY <1>1, <1>2, ReplyMail
<1>4. WireStep
  BY <1>1, CutThins, WireStays
<1>. QED
  BY <1>2, <1>3, <1>4, QuietStep, RoomStays
------------------------------------------------------------------------------
(* The room. *)

LEMMA InRoomPart ==
  ASSUME RoomOK, NEW P
  PROVE  LET part == InRoom(P)
         IN /\ part \in Seq(Peer) /\ Len(part) <= 2
            /\ \A i \in DOMAIN part : part[i] \in P
            /\ \A i, j \in DOMAIN part : i # j => (part[i] \in Sender) # (part[j] \in Sender)
            /\ part # <<>> => part[1] \in Peer /\ part[1] \in P
<1>. DEFINE kept == {i \in DOMAIN room : room[i] \in P}
            one == room[CHOOSE i \in kept : TRUE]
            part == InRoom(P)
<1>1. CASE kept = DOMAIN room
  <2>1. part = room /\ \A i \in DOMAIN part : part[i] \in P
    BY <1>1 DEF InRoom
  <2>. QED
    BY <2>1 DEF RoomOK
<1>2. CASE kept # DOMAIN room /\ kept = {}
  <2>1. part = <<>>
    BY <1>2 DEF InRoom
  <2>. QED
    BY <2>1
<1>3. CASE kept # DOMAIN room /\ kept # {}
  <2>1. part = <<one>>
    BY <1>3 DEF InRoom
  <2>2. one \in Peer /\ one \in P
    BY <1>3 DEF RoomOK
  <2>. HIDE DEF one
  <2>3. <<one>> \in Seq(Peer) /\ Len(<<one>>) = 1 /\ <<one>>[1] = one /\ DOMAIN <<one>> = {1}
    BY <2>2
  <2>. QED
    BY <2>1, <2>2, <2>3
<1>. QED
  BY <1>1, <1>2, <1>3

\* A JOIN leaves the peer of the other role, if there is one.
LEMMA RoomAfterJoin ==
  ASSUME RoomOK, NEW t \in Peer, room' = Append(InRoom(IF t \in Sender THEN Receiver ELSE Sender), t)
  PROVE  RoomOK'
<1>. DEFINE role == IF t \in Sender THEN Receiver ELSE Sender
            rest == InRoom(role)
<1>1. /\ rest \in Seq(Peer) /\ Len(rest) <= 2
      /\ \A i \in DOMAIN rest : rest[i] \in role
      /\ \A i, j \in DOMAIN rest : i # j => (rest[i] \in Sender) # (rest[j] \in Sender)
  BY InRoomPart
<1>2. \A p \in role : (p \in Sender) # (t \in Sender)
  BY TransportAssumption DEF Peer
<1>3. room' = Append(rest, t)
  OBVIOUS
<1>. HIDE DEF role, rest
<1>4. Len(rest) <= 1
  <2>1. Len(rest) \in Nat /\ DOMAIN rest = 1 .. Len(rest)
    BY <1>1
  <2>. SUFFICES ASSUME Len(rest) = 2 PROVE FALSE
    BY <1>1, <2>1
  <2>2. 1 \in DOMAIN rest /\ 2 \in DOMAIN rest
    BY <2>1
  <2>. QED
    BY <1>1, <1>2, <2>2
<1>5. /\ room' \in Seq(Peer) /\ Len(room') = Len(rest) + 1 /\ room'[Len(rest) + 1] = t
      /\ DOMAIN room' = DOMAIN rest \cup {Len(rest) + 1}
      /\ \A i \in DOMAIN rest : room'[i] = rest[i]
  <2>1. Append(rest, t) \in Seq(Peer) /\ Len(Append(rest, t)) = Len(rest) + 1 /\ Len(rest) \in Nat
    BY <1>1
  <2>2. /\ Append(rest, t)[Len(rest) + 1] = t
        /\ \A i \in 1 .. Len(rest) : Append(rest, t)[i] = rest[i]
    BY <1>1
  <2>3. /\ DOMAIN Append(rest, t) = 1 .. Len(rest) + 1 /\ DOMAIN rest = 1 .. Len(rest)
    BY <1>1, <2>1
  <2>4. 1 .. Len(rest) + 1 = 1 .. Len(rest) \cup {Len(rest) + 1}
    BY <2>1
  <2>. QED
    BY <1>3, <2>1, <2>2, <2>3, <2>4
<1>6. Len(room') <= 2
  BY <1>1, <1>4, <1>5
<1>7. ASSUME NEW i \in DOMAIN room', NEW j \in DOMAIN room', i # j
      PROVE  (room'[i] \in Sender) # (room'[j] \in Sender)
  BY <1>1, <1>2, <1>5, <1>7
<1>. QED
  BY <1>5, <1>6, <1>7 DEF RoomOK

\* A message the server sends reaches an open socket or none.
LEMMA PostMail ==
  ASSUME NEW boxes \in [Peer -> Seq(Msg)], NEW to, NEW m \in Msg
  PROVE  /\ Post(boxes, to, m) \in [Peer -> Seq(Msg)]
         /\ \A x \in Peer : \/ Post(boxes, to, m)[x] = boxes[x]
                            \/ /\ Post(boxes, to, m)[x] = boxes[x] \o <<m>>
                               /\ tr[x].ws = "open"
<1>1. CASE tr[to].ws # "open"
  BY <1>1 DEF Post
<1>2. CASE tr[to].ws = "open"
  <2>1. Post(boxes, to, m) = [boxes EXCEPT ![to] = Append(boxes[to], m)]
    BY <1>2 DEF Post
  <2>2. \A x \in Peer : /\ boxes[x] \in Seq(Msg) /\ Append(boxes[x], m) = boxes[x] \o <<m>>
                       /\ Append(boxes[x], m) \in Seq(Msg)
    OBVIOUS
  <2>3. \A x \in Peer : Post(boxes, to, m)[x] = IF x = to THEN boxes[x] \o <<m>> ELSE boxes[x]
    BY <2>1, <2>2
  <2>4. Post(boxes, to, m) \in [Peer -> Seq(Msg)]
    BY <2>1, <2>2
  <2>. QED
    BY <1>2, <2>3, <2>4
<1>. QED
  BY <1>1, <1>2

LEMMA JoinStep ==
  ASSUME TransportInv, NEW t \in Peer, Join(t) PROVE TransportInv' /\ Moves
<1>. DEFINE me == [tr[t] EXCEPT !.ws = "open"]
            rest == InRoom(IF t \in Sender THEN Receiver ELSE Sender)
            told == Message("PEER_JOINED", t, 0)
            first == <<Message("PEER_JOINED", rest[1], 0)>>
<1>1. Typed /\ Sound(t, tr[t]) /\ tr[t] \in Transport /\ RoomOK
  BY Here DEF TransportInv, Typed
<1>2. /\ tr[t].ws = "off" /\ Become(t, me)
      /\ room' = Append(rest, t) /\ known' = known \cup {t}
      /\ inbox' = IF rest = <<>> THEN inbox ELSE [Post(inbox, rest[1], told) EXCEPT ![t] = first]
      /\ UNCHANGED <<wire, got>>
  BY DEF Join, net
<1>3. Sound(t, me) /\ Grows(tr[t], me)
  <2>1. me \in Transport
    BY <1>1 DEF Transport
  <2>2. /\ me.closed = tr[t].closed /\ me.mode = tr[t].mode /\ me.sent = tr[t].sent
        /\ me.gathered = tr[t].gathered /\ me.waiting = tr[t].waiting /\ me.rtc = tr[t].rtc
        /\ me.chan = tr[t].chan /\ me.timer = tr[t].timer /\ me.early = tr[t].early
        /\ me.held = tr[t].held /\ me.target = tr[t].target /\ me.remote = tr[t].remote
        /\ me.ready = tr[t].ready
    BY <1>1 DEF Transport
  <2>3. tr[t].sent \in Nat
    BY <1>1 DEF Transport
  <2>. HIDE DEF me
  <2>4. Sound(t, me)
    BY <1>1, <1>2, <2>1, <2>2 DEF Sound
  <2>. QED
    BY <2>2, <2>3, <2>4 DEF Grows
<1>4. Moves /\ tr'[t] = me /\ \A x \in Peer \ {t} : tr'[x] = tr[x]
  BY <1>1, <1>2, <1>3, BecomeMoves
<1>5. tr'[t].ws = "open"
  BY <1>1, <1>4 DEF Transport
<1>6. RoomOK' /\ known' \subseteq Peer
  BY <1>1, <1>2, RoomAfterJoin DEF Typed
<1>. HIDE DEF me
<1>7. inbox \in [Peer -> Seq(Msg)] /\ \A x \in Peer : tr[x].ws # "open" => inbox[x] = <<>>
  BY <1>1 DEF Typed, Mailbox
<1>8. CASE rest = <<>>
  <2>1. inbox' = inbox
    BY <1>2, <1>8
  <2>2. \A x \in Peer : Thins(inbox'[x], inbox[x])
    BY <1>7, <2>1, ThinsSelf
  <2>3. MailStep
    BY <1>4, <1>5, <1>7, <2>1, <2>2 DEF MailStep, Mailbox
  <2>. QED
    BY <1>1, <1>2, <1>4, <1>6, <2>3, WireStays, QuietStep
<1>9. CASE rest # <<>>
  <2>1. rest[1] \in Peer
    BY <1>1, <1>9, InRoomPart
  <2>2. told \in Msg /\ <<told>> \in Seq(Msg) /\ NoFrames(<<told>>)
    BY OneMessage DEF MessageType, FrameType
  <2>3. first \in Seq(Msg) /\ NoFrames(first)
    BY <2>1, OneMessage DEF MessageType, FrameType
  <2>. HIDE DEF told, rest
  <2>. DEFINE boxes == Post(inbox, rest[1], told)
  <2>4. /\ boxes \in [Peer -> Seq(Msg)]
        /\ \A x \in Peer : \/ boxes[x] = inbox[x]
                           \/ boxes[x] = inbox[x] \o <<told>> /\ tr[x].ws = "open"
    BY <1>7, <2>2, PostMail
  <2>5. inbox' = [boxes EXCEPT ![t] = first]
    BY <1>2, <1>9
  <2>. HIDE DEF boxes, first
  <2>6. inbox' \in [Peer -> Seq(Msg)] /\ inbox'[t] = first
        /\ \A x \in Peer \ {t} : inbox'[x] = boxes[x]
    BY <2>3, <2>4, <2>5
  <2>7. ASSUME NEW x \in Peer PROVE Thins(inbox'[x], inbox[x])
    <3>1. CASE x = t
      BY <2>3, <2>6, <3>1, ThinsNone
    <3>2. CASE x # t
      BY <1>7, <2>2, <2>4, <2>6, <3>2, ThinsSelf, ThinsMore
    <3>. QED
      BY <3>1, <3>2
  <2>8. MailStep
    BY <1>4, <1>5, <1>7, <2>4, <2>6, <2>7 DEF MailStep, Mailbox
  <2>. QED
    BY <1>1, <1>2, <1>4, <1>6, <2>8, WireStays, QuietStep
<1>. QED
  BY <1>8, <1>9

\* A transport becomes me and its mail is discarded: it closes, or its socket does.
LEMMA SilencedStep ==
  ASSUME TransportInv, NEW t \in Peer, NEW me, Sound(t, me), Grows(tr[t], me),
         Become(t, me), CutIfClosed(t, me) \/ UNCHANGED wire,
         inbox' = [inbox EXCEPT ![t] = <<>>], UNCHANGED <<got, server>>
  PROVE  TransportInv' /\ Moves
<1>1. Typed /\ inbox \in [Peer -> Seq(Msg)]
  BY DEF TransportInv, Typed, Mailbox
<1>2. Moves /\ tr'[t] = me /\ \A x \in Peer \ {t} : tr'[x] = tr[x]
  BY <1>1, BecomeMoves
<1>3. /\ inbox' \in [Peer -> Seq(Msg)] /\ inbox'[t] = <<>>
      /\ \A x \in Peer \ {t} : inbox'[x] = inbox[x]
  BY <1>1
<1>4. \A x \in Peer : Thins(inbox'[x], inbox[x])
  BY <1>1, <1>3, ThinsSelf
<1>5. MailStep
  BY <1>1, <1>2, <1>3, <1>4 DEF MailStep, Mailbox, Typed
<1>6. WireStep
  BY <1>1, CutThins, WireStays
<1>. QED
  BY <1>2, <1>5, <1>6, QuietStep, RoomStays

LEMMA LeaveStep ==
  ASSUME TransportInv, NEW t \in Peer, Leave(t) PROVE TransportInv' /\ Moves
<1>1. Sound(t, tr[t])
  BY Here DEF TransportInv
<1>2. Sound(t, Closed(tr[t])) /\ Grows(tr[t], Closed(tr[t]))
  BY <1>1, ClosedSound DEF Leave
<1>. QED
  BY <1>2, SilencedStep DEF Leave

LEMMA SocketClosesStep ==
  ASSUME TransportInv, NEW t \in Peer, SocketCloses(t) PROVE TransportInv' /\ Moves
<1>. DEFINE me == [tr[t] EXCEPT !.ws = "closed"]
<1>1. Sound(t, tr[t]) /\ tr[t] \in Transport
  BY Here DEF TransportInv
<1>2. me \in Transport
  BY <1>1 DEF Transport
<1>3. Sound(t, me) /\ Grows(tr[t], me)
  BY <1>1, <1>2 DEF Sound, Grows, Transport
<1>4. /\ Become(t, me) /\ UNCHANGED wire /\ UNCHANGED <<got, server>>
      /\ inbox' = [inbox EXCEPT ![t] = <<>>]
  BY DEF SocketCloses, net
<1>. HIDE DEF me
<1>. QED
  BY <1>3, <1>4, SilencedStep

LEMMA ServerClosesStep ==
  ASSUME TransportInv, NEW t \in Peer, ServerCloses(t) PROVE TransportInv' /\ Moves
<1>. DEFINE told == Message("PEER_LEFT", t, 0)
            to == Others(t)[1]
<1>1. Typed /\ RoomOK /\ inbox \in [Peer -> Seq(Msg)] /\ known \subseteq Peer
      /\ \A x \in Peer : tr[x].ws # "open" => inbox[x] = <<>>
  BY DEF TransportInv, Typed, Mailbox
<1>2. /\ known' = known \ {t} /\ room' = InRoom(Peer \ {t})
      /\ inbox' = inbox \/ inbox' = Post(inbox, to, told)
      /\ UNCHANGED <<tr, wire, got>>
  BY DEF ServerCloses, Others, net
<1>3. RoomOK' /\ known' \subseteq Peer
  BY <1>1, <1>2, InRoomPart DEF RoomOK
<1>4. told \in Msg /\ <<told>> \in Seq(Msg) /\ NoFrames(<<told>>)
  BY OneMessage DEF MessageType, FrameType
<1>. HIDE DEF told, to
<1>5. /\ inbox' \in [Peer -> Seq(Msg)]
      /\ \A x \in Peer : \/ inbox'[x] = inbox[x]
                         \/ inbox'[x] = inbox[x] \o <<told>> /\ tr[x].ws = "open"
  <2>1. /\ Post(inbox, to, told) \in [Peer -> Seq(Msg)]
        /\ \A x \in Peer : \/ Post(inbox, to, told)[x] = inbox[x]
                           \/ /\ Post(inbox, to, told)[x] = inbox[x] \o <<told>>
                              /\ tr[x].ws = "open"
    BY <1>1, <1>4, PostMail
  <2>. QED
    BY <1>1, <1>2, <2>1
<1>6. \A x \in Peer : Thins(inbox'[x], inbox[x])
  BY <1>1, <1>4, <1>5, ThinsSelf, ThinsMore
<1>7. MailStep
  BY <1>1, <1>2, <1>5, <1>6 DEF MailStep, Mailbox
<1>8. Moves
  <2>1. \A x \in Peer : Grows(tr[x], tr[x])
    BY <1>1, Here, CalmGrows DEF Calm
  <2>. QED
    BY <1>1, <1>2, <2>1 DEF Moves, Transports, Typed
<1>. QED
  BY <1>1, <1>2, <1>3, <1>7, <1>8, WireStays, QuietStep
------------------------------------------------------------------------------
(* Signaling messages. *)

\* Binding a peer to a transport, and the candidates that sends.
LEMMA BoundSound ==
  ASSUME Typed, NEW t \in Peer, NEW p \in Peer,
         NEW bound, bound = Bind(tr[t], p) \/ bound = tr[t]
  PROVE  /\ Sound(t, bound) /\ Calm(tr[t], bound) /\ bound.rtc = tr[t].rtc
         /\ bound \in Transport
         /\ Flushed(t, bound) \in Seq(Msg) /\ NoFrames(Flushed(t, bound))
<1>1. Sound(t, tr[t]) /\ tr[t].held \in Nat
  BY Here DEF Transport
<1>2. /\ Sound(t, bound) /\ Calm(tr[t], bound) /\ bound.rtc = tr[t].rtc
      /\ bound.held = 0 \/ bound.held = tr[t].held
  <2>1. CASE bound = tr[t]
    BY <1>1, <2>1 DEF Calm
  <2>2. CASE bound = Bind(tr[t], p)
    BY <1>1, <2>2, BindSound
  <2>. QED
    BY <2>1, <2>2
<1>3. tr[t].held - bound.held \in Nat
  BY <1>1, <1>2
<1>. QED
  BY <1>2, <1>3, CandidatesQuiet DEF Flushed, Sound

\* The message at the head of the mail.
LEMMA HeadIsMessage ==
  ASSUME Typed, NEW t \in Peer, inbox[t] # <<>>
  PROVE  Head(inbox[t]) \in Msg /\ Head(inbox[t]).from \in Peer
<1>1. inbox[t] \in Seq(Msg)
  BY DEF Typed, Mailbox
<1>2. Head(inbox[t]) \in Msg
  BY <1>1
<1>. QED
  BY <1>2 DEF Msg

LEMMA JoinedStep ==
  ASSUME TransportInv, NEW t \in Peer, inbox[t] # <<>>, ReceiveJoined(t, Head(inbox[t]))
  PROVE  TransportInv' /\ Moves
<1>. DEFINE p == Head(inbox[t]).from
            bound == Bind(tr[t], p)
            me == IF bound.mode = "tunnel" THEN [bound EXCEPT !.ready = TRUE]
                  ELSE IF t \in Receiver THEN StartWatchdog(bound)
                  ELSE [StartWatchdog(bound) EXCEPT !.chan = "connecting", !.rtc = "CONNECTING",
                            !.tasks = StartWatchdog(bound).tasks \cup {"offer"}]
<1>1. Typed /\ p \in Peer /\ tr[t].ws = "open" /\ ~tr[t].closed
  BY HeadIsMessage, Here DEF TransportInv
<1>2. /\ Sound(t, bound) /\ Calm(tr[t], bound) /\ bound \in Transport
      /\ Flushed(t, bound) \in Seq(Msg) /\ NoFrames(Flushed(t, bound))
  BY <1>1, BoundSound
<1>3. bound.target = p
  BY <1>1, Here, BindSound
<1>4. /\ Become(t, me) /\ inbox' = Relayed(Take(t), t, Flushed(t, bound))
      /\ UNCHANGED wire /\ UNCHANGED <<got, server>>
  BY DEF ReceiveJoined, net
<1>. HIDE DEF p, bound
<1>5. Sound(t, me) /\ Grows(tr[t], me) /\ me.ws = tr[t].ws
  <2>1. CASE bound.mode = "tunnel"
    <3>. DEFINE new == [bound EXCEPT !.ready = TRUE]
    <3>1. me = new /\ new \in Transport
      BY <1>2, <2>1 DEF Transport
    <3>2. Sound(t, new)
      BY <1>2, <3>1 DEF Sound, Transport
    <3>3. p # NoPeer
      BY <1>1, TransportAssumption DEF Peer
    <3>4. IsOpen(new)
      BY <1>1, <1>2, <1>3, <2>1, <3>3 DEF IsOpen, Calm, Transport
    <3>5. Grows(tr[t], new) /\ new.ws = tr[t].ws
      BY <1>1, <1>2, <3>4, Here DEF Grows, Calm, Transport
    <3>. QED
      BY <3>1, <3>2, <3>5
  <2>2. CASE bound.mode # "tunnel"
    <3>. DEFINE watched == StartWatchdog(bound)
    <3>1. Sound(t, watched) /\ Calm(bound, watched) /\ watched.rtc = bound.rtc
      BY <1>2, WatchdogSound
    <3>2. Calm(tr[t], watched)
      BY <1>2, <3>1 DEF Calm
    <3>3. me = watched \/ me = [watched EXCEPT !.chan = "connecting", !.rtc = "CONNECTING",
                                               !.tasks = watched.tasks \cup {"offer"}]
      BY <2>2
    <3>. HIDE DEF watched, me
    <3>4. CASE me = watched
      BY <1>1, <3>1, <3>2, <3>4, Here, CalmGrows DEF Calm
    <3>5. CASE me = [watched EXCEPT !.chan = "connecting", !.rtc = "CONNECTING",
                                    !.tasks = watched.tasks \cup {"offer"}]
      <4>1. watched \in Transport /\ ~watched.closed /\ watched.mode # "tunnel"
        BY <1>1, <1>2, <2>2, <3>1, <3>2 DEF Sound, Calm
      <4>2. me \in Transport
        BY <3>5, <4>1 DEF Transport, RtcState
      <4>3. Sound(t, me)
        BY <3>1, <3>5, <4>1, <4>2 DEF Sound, Transport
      <4>4. Calm(tr[t], me)
        BY <3>2, <3>5, <4>1 DEF Calm, Transport
      <4>. QED
        BY <1>1, <4>3, <4>4, Here, CalmGrows DEF Calm
    <3>. QED
      BY <3>3, <3>4, <3>5
  <2>. QED
    BY <2>1, <2>2
<1>. HIDE DEF me
<1>. QED
  BY <1>2, <1>4, <1>5, HandlerStep

LEMMA OfferStep ==
  ASSUME TransportInv, NEW t \in Peer, inbox[t] # <<>>, ReceiveOffer(t, Head(inbox[t]))
  PROVE  TransportInv' /\ Moves
<1>. DEFINE p == Head(inbox[t]).from
            bound == Bind(tr[t], p)
            watched == StartWatchdog(bound)
            me == IF bound.mode = "tunnel" THEN bound
                  ELSE [watched EXCEPT !.tasks = watched.tasks \cup {p}]
<1>1. Typed /\ p \in Peer /\ Sound(t, tr[t])
  BY HeadIsMessage, Here DEF TransportInv
<1>2. /\ Sound(t, bound) /\ Calm(tr[t], bound)
      /\ Flushed(t, bound) \in Seq(Msg) /\ NoFrames(Flushed(t, bound))
  BY <1>1, BoundSound
<1>3. /\ Become(t, me) /\ inbox' = Relayed(Take(t), t, Flushed(t, bound))
      /\ UNCHANGED wire /\ UNCHANGED <<got, server>>
  BY DEF ReceiveOffer, net
<1>. HIDE DEF p, bound
<1>4. Sound(t, watched) /\ Calm(bound, watched)
  BY <1>2, WatchdogSound
<1>. HIDE DEF watched
<1>5. Sound(t, me) /\ Calm(tr[t], me)
  <2>. DEFINE new == [watched EXCEPT !.tasks = watched.tasks \cup {p}]
  <2>1. watched \in Transport
    BY <1>4 DEF Sound
  <2>2. new \in Transport
    BY <1>1, <2>1 DEF Transport
  <2>3. Sound(t, new)
    BY <1>4, <2>1, <2>2 DEF Sound, Transport
  <2>4. Calm(watched, new)
    BY <2>1 DEF Calm, Transport
  <2>. QED
    BY <1>2, <1>4, <2>3, <2>4 DEF Calm
<1>. HIDE DEF me
<1>6. Grows(tr[t], me) /\ me.ws = tr[t].ws
  BY <1>1, <1>5, CalmGrows DEF Calm
<1>. QED
  BY <1>2, <1>3, <1>5, <1>6, HandlerStep

LEMMA SendOfferStep ==
  ASSUME TransportInv, NEW t \in Peer, SendOffer(t) PROVE TransportInv' /\ Moves
<1>. DEFINE me == [tr[t] EXCEPT !.tasks = tr[t].tasks \ {"offer"}]
            msgs == <<Message("SDP_OFFER", t, 0)>>
<1>1. Sound(t, tr[t]) /\ tr[t] \in Transport
  BY Here DEF TransportInv
<1>2. me \in Transport
  BY <1>1 DEF Transport
<1>3. Sound(t, me) /\ Calm(tr[t], me)
  BY <1>1, <1>2 DEF Sound, Calm, Transport
<1>4. /\ Become(t, me)
      /\ inbox' = inbox \/ inbox' = Relayed(inbox, t, msgs)
      /\ UNCHANGED wire /\ UNCHANGED <<got, server>>
  BY DEF SendOffer, net
<1>5. msgs \in Seq(Msg) /\ NoFrames(msgs)
  BY OneMessage DEF MessageType, FrameType
<1>. HIDE DEF me, msgs
<1>6. Grows(tr[t], me) /\ me.ws = tr[t].ws
  BY <1>1, <1>3, CalmGrows DEF Calm
<1>. QED
  BY <1>3, <1>4, <1>5, <1>6, HandlerStep

LEMMA SendAnswerStep ==
  ASSUME TransportInv, NEW t \in Peer, NEW p \in Peer, SendAnswer(t, p)
  PROVE  TransportInv' /\ Moves
<1>. DEFINE me == [tr[t] EXCEPT !.tasks = tr[t].tasks \ {p}]
            answered == [SetRemote(me, p) EXCEPT !.rtc = "CONNECTING"]
            msgs == <<Message("SDP_ANSWER", t, 0)>>
<1>1. Sound(t, tr[t]) /\ tr[t] \in Transport
  BY Here DEF TransportInv
<1>2. me \in Transport
  BY <1>1 DEF Transport
<1>3. Sound(t, me) /\ Calm(tr[t], me)
  BY <1>1, <1>2 DEF Sound, Calm, Transport
<1>4. /\ \/ Become(t, me) /\ inbox' = inbox
         \/ /\ me.rtc # "CLOSED" /\ Become(t, answered)
            /\ inbox' = inbox \/ inbox' = Relayed(inbox, t, msgs)
      /\ UNCHANGED wire /\ UNCHANGED <<got, server>>
  BY DEF SendAnswer, net
<1>5. msgs \in Seq(Msg) /\ NoFrames(msgs)
  BY OneMessage DEF MessageType, FrameType
<1>. HIDE DEF me, msgs
<1>6. me.rtc # "CLOSED" => Sound(t, answered) /\ Calm(me, answered)
  <2>. SUFFICES ASSUME me.rtc # "CLOSED" PROVE Sound(t, answered) /\ Calm(me, answered)
    OBVIOUS
  <2>. DEFINE set == SetRemote(me, p)
  <2>1. Sound(t, set) /\ Calm(me, set) /\ set.rtc = me.rtc
    BY <1>3, RemoteSound
  <2>2. answered = [set EXCEPT !.rtc = "CONNECTING"]
    OBVIOUS
  <2>. HIDE DEF set, answered
  <2>3. set \in Transport
    BY <2>1 DEF Sound
  <2>4. answered \in Transport
    BY <2>2, <2>3 DEF Transport, RtcState
  <2>5. Sound(t, answered)
    BY <2>1, <2>2, <2>3, <2>4 DEF Sound, Transport
  <2>6. Calm(me, answered)
    BY <2>1, <2>2, <2>3 DEF Calm, Transport
  <2>. QED
    BY <2>5, <2>6
<1>. HIDE DEF answered
<1>7. CASE Become(t, me) /\ inbox' = inbox
  <2>1. Grows(tr[t], me) /\ me.ws = tr[t].ws
    BY <1>1, <1>3, CalmGrows DEF Calm
  <2>. QED
    BY <1>3, <1>4, <1>5, <1>7, <2>1, HandlerStep
<1>8. CASE /\ me.rtc # "CLOSED" /\ Become(t, answered)
           /\ inbox' = inbox \/ inbox' = Relayed(inbox, t, msgs)
  <2>1. Calm(tr[t], answered)
    BY <1>3, <1>6, <1>8 DEF Calm
  <2>2. Grows(tr[t], answered) /\ answered.ws = tr[t].ws
    BY <1>1, <2>1, CalmGrows DEF Calm
  <2>. QED
    BY <1>4, <1>5, <1>6, <1>8, <2>2, HandlerStep
<1>. QED
  BY <1>4, <1>7, <1>8

\* What is common to the handlers that only accept the bound peer.
LEMMA BoundCase ==
  ASSUME TransportInv, NEW t \in Peer, inbox[t] # <<>>
  PROVE  LET msg == Head(inbox[t])
             me == Bound(t, msg)
         IN /\ msg.from \in Peer /\ Sound(t, me) /\ Calm(tr[t], me) /\ me \in Transport
            /\ tr[t].ws = "open" /\ ~tr[t].closed
            /\ Flushed(t, me) \in Seq(Msg) /\ NoFrames(Flushed(t, me))
<1>. DEFINE msg == Head(inbox[t])
            me == Bound(t, msg)
<1>1. Typed /\ msg.from \in Peer /\ tr[t].ws = "open" /\ ~tr[t].closed
  BY HeadIsMessage, Here DEF TransportInv
<1>2. me = Bind(tr[t], msg.from) \/ me = tr[t]
  BY DEF Bound
<1>. HIDE DEF msg, me
<1>3. /\ Sound(t, me) /\ Calm(tr[t], me) /\ me \in Transport
      /\ Flushed(t, me) \in Seq(Msg) /\ NoFrames(Flushed(t, me))
  BY <1>1, <1>2, BoundSound
<1>. QED
  BY <1>1, <1>3 DEF msg, me

LEMMA IgnoredStep ==
  ASSUME TransportInv, NEW t \in Peer, inbox[t] # <<>>, Ignored(t, Head(inbox[t]))
  PROVE  TransportInv' /\ Moves
<1>1. Typed /\ tr \in [Peer -> Transport] /\ Sound(t, tr[t])
  BY Here DEF TransportInv, Typed, Transports
<1>2. /\ inbox' = Take(t) /\ UNCHANGED wire /\ UNCHANGED <<got, server>> /\ tr' = tr
  BY DEF Ignored, net
<1>3. Become(t, tr[t])
  BY <1>1, <1>2 DEF Become
<1>4. Grows(tr[t], tr[t]) /\ tr[t].ws = tr[t].ws
  BY <1>1, CalmGrows DEF Calm
<1>5. <<>> \in Seq(Msg) /\ NoFrames(<<>>)
  BY DEF NoFrames
<1>. QED
  BY <1>1, <1>2, <1>3, <1>4, <1>5, HandlerStep

LEMMA AnswerStep ==
  ASSUME TransportInv, NEW t \in Peer, inbox[t] # <<>>, ReceiveAnswer(t, Head(inbox[t]))
  PROVE  TransportInv' /\ Moves
<1>. DEFINE msg == Head(inbox[t])
            me == Bound(t, msg)
            set == SetRemote(me, msg.from)
<1>1. /\ msg.from \in Peer /\ Sound(t, me) /\ Calm(tr[t], me) /\ Sound(t, tr[t])
      /\ Flushed(t, me) \in Seq(Msg) /\ NoFrames(Flushed(t, me))
  BY BoundCase, Here DEF TransportInv
<1>2. /\ inbox' = Relayed(Take(t), t, Flushed(t, me))
      /\ Become(t, set) \/ Become(t, me)
      /\ UNCHANGED wire /\ UNCHANGED <<got, server>>
  BY DEF ReceiveAnswer, net
<1>. HIDE DEF msg, me
<1>3. Sound(t, set) /\ Calm(me, set)
  BY <1>1, RemoteSound
<1>. HIDE DEF set
<1>4. PICK new \in {me, set} : Become(t, new)
  BY <1>2
<1>5. Sound(t, new) /\ Calm(tr[t], new)
  BY <1>1, <1>3 DEF Calm
<1>6. Grows(tr[t], new) /\ new.ws = tr[t].ws
  BY <1>1, <1>5, CalmGrows DEF Calm
<1>. QED
  BY <1>1, <1>2, <1>4, <1>5, <1>6, HandlerStep

LEMMA CandidateStep ==
  ASSUME TransportInv, NEW t \in Peer, inbox[t] # <<>>, ReceiveCandidate(t, Head(inbox[t]))
  PROVE  TransportInv' /\ Moves
<1>. DEFINE msg == Head(inbox[t])
            me == Bound(t, msg)
            queued == [me EXCEPT !.early = me.early + 1]
            used == [me EXCEPT !.applied = TRUE]
<1>1. /\ Sound(t, me) /\ Calm(tr[t], me) /\ Sound(t, tr[t]) /\ me \in Transport
      /\ Flushed(t, me) \in Seq(Msg) /\ NoFrames(Flushed(t, me))
  BY BoundCase, Here DEF TransportInv
<1>2. /\ inbox' = Relayed(Take(t), t, Flushed(t, me))
      /\ Become(t, IF me.rtc = "CLOSED" THEN me
                   ELSE IF me.remote = NoPeer THEN queued ELSE used)
      /\ UNCHANGED wire /\ UNCHANGED <<got, server>>
  BY DEF ReceiveCandidate, net
<1>. HIDE DEF msg, me
<1>3. /\ me.rtc # "CLOSED" /\ me.remote = NoPeer => Sound(t, queued) /\ Calm(me, queued)
      /\ Sound(t, used) /\ Calm(me, used)
  <2>. DEFINE n == me.early + 1
  <2>0. Sound(t, me) /\ me \in Transport /\ n \in Nat
    BY <1>1 DEF Transport
  <2>. HIDE DEF n
  <2>1. [me EXCEPT !.early = n] \in Transport /\ used \in Transport
    BY <2>0 DEF Transport
  <2>2. me.rtc # "CLOSED" /\ me.remote = NoPeer => Sound(t, queued)
    <3>. DEFINE new == [me EXCEPT !.early = n]
    <3>. SUFFICES ASSUME me.rtc # "CLOSED", me.remote = NoPeer PROVE Sound(t, new)
      BY DEF n
    <3>1. new.rtc = me.rtc /\ new.remote = me.remote /\ new \in Transport
      BY <2>0, <2>1 DEF Transport
    <3>2. /\ new.ws = me.ws /\ new.closed = me.closed /\ new.mode = me.mode
          /\ new.sent = me.sent /\ new.gathered = me.gathered /\ new.waiting = me.waiting
          /\ new.held = me.held /\ new.target = me.target
      BY <2>0, <2>1 DEF Transport
    <3>. HIDE DEF new
    <3>. QED
      BY <2>0, <3>1, <3>2 DEF Sound
  <2>3. Sound(t, used)
    <3>1. /\ used.rtc = me.rtc /\ used.remote = me.remote /\ used \in Transport
          /\ used.ws = me.ws /\ used.closed = me.closed /\ used.mode = me.mode
          /\ used.sent = me.sent /\ used.gathered = me.gathered /\ used.waiting = me.waiting
          /\ used.held = me.held /\ used.target = me.target /\ used.early = me.early
          /\ used.chan = me.chan /\ used.timer = me.timer
      BY <2>0, <2>1 DEF Transport
    <3>. HIDE DEF used
    <3>. QED
      BY <2>0, <3>1 DEF Sound
  <2>4. Calm(me, queued) /\ Calm(me, used)
    BY <1>1 DEF Calm, Transport
  <2>. QED
    BY <2>2, <2>3, <2>4
<1>. HIDE DEF queued, used
<1>4. PICK new : Become(t, new) /\ Sound(t, new) /\ Calm(me, new)
  BY <1>1, <1>2, <1>3 DEF Calm
<1>5. Calm(tr[t], new)
  BY <1>1, <1>4 DEF Calm
<1>6. Grows(tr[t], new) /\ new.ws = tr[t].ws
  BY <1>1, <1>5, CalmGrows DEF Calm
<1>. QED
  BY <1>1, <1>2, <1>4, <1>6, HandlerStep

LEMMA LeftStep ==
  ASSUME TransportInv, NEW t \in Peer, inbox[t] # <<>>, ReceiveLeft(t, Head(inbox[t]))
  PROVE  TransportInv' /\ Moves
<1>. DEFINE msg == Head(inbox[t])
            bound == IF tr[t].target = msg.from THEN NoPeer ELSE tr[t].target
            left == [tr[t] EXCEPT !.target = bound]
<1>1. Typed /\ Sound(t, tr[t]) /\ tr[t] \in Transport /\ tr[t].ws = "open"
  BY Here DEF TransportInv
<1>2. /\ \/ Become(t, left) /\ CutIfClosed(t, left) /\ inbox' = Take(t)
         \/ /\ Become(t, Closed(left)) /\ CutIfClosed(t, Closed(left))
            /\ inbox' = [inbox EXCEPT ![t] = <<>>]
      /\ UNCHANGED <<got, server>>
  BY DEF ReceiveLeft
<1>3. bound \in Peer \cup {NoPeer} /\ (tr[t].target = NoPeer => bound = NoPeer)
  BY <1>1 DEF Transport
<1>. HIDE DEF bound
<1>4. Sound(t, left) /\ Calm(tr[t], left)
  <2>1. left \in Transport
    BY <1>1, <1>3 DEF Transport
  <2>2. Sound(t, left)
    BY <1>1, <1>3, <2>1 DEF Sound, Transport
  <2>. QED
    BY <1>1, <2>2 DEF Calm, Transport
<1>5. left.ws = tr[t].ws /\ Grows(tr[t], left)
  BY <1>1, <1>4, CalmGrows DEF Calm
<1>. HIDE DEF left
<1>6. Sound(t, Closed(left)) /\ Grows(left, Closed(left))
  BY <1>1, <1>4, <1>5, ClosedSound
<1>7. Grows(tr[t], Closed(left))
  BY <1>4, <1>6 DEF Calm, Grows
<1>8. CASE Become(t, left) /\ CutIfClosed(t, left) /\ inbox' = Take(t)
  <2>1. <<>> \in Seq(Msg) /\ NoFrames(<<>>)
    BY DEF NoFrames
  <2>. QED
    BY <1>2, <1>4, <1>5, <1>8, <2>1, HandlerStep
<1>9. CASE /\ Become(t, Closed(left)) /\ CutIfClosed(t, Closed(left))
           /\ inbox' = [inbox EXCEPT ![t] = <<>>]
  BY <1>2, <1>6, <1>7, <1>9, SilencedStep
<1>. QED
  BY <1>2, <1>8, <1>9

\* TUNNEL_FRAME: the transport is in the tunnel when it emits the frame.
LEMMA FrameStep ==
  ASSUME TransportInv, NEW t \in Peer, inbox[t] # <<>>, Head(inbox[t]).type = "TUNNEL_FRAME",
         ReceiveFrame(t, Head(inbox[t]))
  PROVE  TransportInv' /\ Moves
<1>. DEFINE msg == Head(inbox[t])
            me == Bound(t, msg)
            new == ToTunnel(me)
            msgs == Flushed(t, me)
<1>1. /\ Sound(t, me) /\ Calm(tr[t], me) /\ ~tr[t].closed /\ tr[t].ws = "open"
      /\ msgs \in Seq(Msg) /\ NoFrames(msgs)
  BY BoundCase
<1>2. /\ Typed /\ inbox \in [Peer -> Seq(Msg)] /\ got \in [Peer -> Seq(FrameMsg)]
      /\ \A x \in Peer : Ordered(x)
  BY DEF TransportInv, Typed, Mailbox
<1>3. /\ Become(t, new) /\ CutIfClosed(t, new) /\ UNCHANGED server
      /\ inbox' = Relayed(Take(t), t, msgs) /\ got' = [got EXCEPT ![t] = Append(got[t], msg)]
  BY DEF ReceiveFrame
<1>4. msg \in FrameMsg
  <2>1. msg \in Msg /\ msg.type = "TUNNEL_FRAME"
    BY <1>2, HeadIsMessage
  <2>. QED
    BY <2>1 DEF Msg, FrameMsg, FrameType
<1>. HIDE DEF me, msgs
<1>5. Sound(t, new) /\ Grows(me, new) /\ new.ws = me.ws /\ new.mode = "tunnel"
  BY <1>1, TunnelSound DEF Calm
<1>6. Grows(tr[t], new)
  BY <1>1, <1>5 DEF Calm, Grows
<1>. HIDE DEF new
<1>7. Moves /\ tr'[t] = new /\ \A x \in Peer \ {t} : tr'[x] = tr[x]
  BY <1>2, <1>3, <1>5, <1>6, BecomeMoves
<1>8. \A x \in Peer : tr'[x].ws = tr[x].ws
  BY <1>1, <1>5, <1>7 DEF Calm
<1>9. MailStep /\ WireStep
  BY <1>1, <1>2, <1>3, <1>8, ReplyMail, CutThins
<1>10. Thins(inbox'[t], Tail(inbox[t]))
  <2>1. /\ Take(t) \in [Peer -> Seq(Msg)] /\ Take(t)[t] = Tail(inbox[t])
        /\ Tail(inbox[t]) \in Seq(Msg)
    BY <1>2 DEF Take
  <2>. DEFINE boxes == Take(t)
  <2>2. boxes \in [Peer -> Seq(Msg)]
    BY <2>1
  <2>. HIDE DEF boxes
  <2>3. Relayed(boxes, t, msgs)[t] = boxes[t] \/ Relayed(boxes, t, msgs)[t] = boxes[t] \o msgs
    BY <1>1, <2>2, RelayedMail
  <2>4. inbox'[t] = Tail(inbox[t]) \/ inbox'[t] = Tail(inbox[t]) \o msgs
    BY <1>3, <2>1, <2>3 DEF boxes
  <2>. QED
    BY <1>1, <2>1, <2>4, ThinsSelf, ThinsMore
<1>11. /\ got'[t] = Append(got[t], msg) /\ got' \in [Peer -> Seq(FrameMsg)]
       /\ \A x \in Peer \ {t} : got'[x] = got[x]
  <2>. HIDE DEF msg
  <2>1. Append(got[t], msg) \in Seq(FrameMsg)
    BY <1>2, <1>4
  <2>. QED
    BY <1>2, <1>3, <2>1
<1>12. ASSUME NEW x \in Peer PROVE Ordered(x)'
  <2>1. QuietMail(x) /\ QuietWire(x)
    BY <1>9 DEF MailStep, WireStep, Mailbox, QuietMail, QuietWire
  <2>2. CASE x = t
    <3>1. inbox'[t] \in Seq(Msg) /\ tr'[t].mode = "tunnel" /\ got'[t] = Append(got[t], Head(inbox[t]))
      BY <1>5, <1>7, <1>11, <2>1, <2>2 DEF QuietMail
    <3>. QED
      BY <1>2, <1>7, <1>10, <2>1, <2>2, <3>1, EmitTunnelOrder
  <2>3. CASE x # t
    BY <1>2, <1>7, <1>11, <2>1, <2>3, QuietOrder
  <2>. QED
    BY <2>2, <2>3
<1>13. RoomOK' /\ known' \subseteq Peer
  BY <1>3, RoomStays
<1>. QED
  BY <1>7, <1>9, <1>11, <1>12, <1>13 DEF TransportInv, Typed, Moves, MailStep, WireStep

\* Every message that is received keeps the invariant.
LEMMA ReceiveStep ==
  ASSUME TransportInv, NEW t \in Peer, Receive(t) PROVE TransportInv' /\ Moves
BY JoinedStep, OfferStep, AnswerStep, CandidateStep, FrameStep, IgnoredStep, LeftStep
   DEF Receive
------------------------------------------------------------------------------
(* The connection. *)

LEMMA GatherStep ==
  ASSUME TransportInv, NEW t \in Peer, Gather(t) PROVE TransportInv' /\ Moves
<1>. DEFINE me == [tr[t] EXCEPT !.gathered = tr[t].gathered + 1]
            held == [me EXCEPT !.held = me.held + 1]
            msgs == Candidates(t, 1)
<1>1. Sound(t, tr[t]) /\ tr[t] \in Transport /\ tr[t].gathered < MaxCandidates
  BY Here DEF TransportInv, Gather
<1>2. /\ Become(t, me) \/ (Become(t, held) /\ me.mode = "p2p" /\ me.target = NoPeer)
      /\ inbox' = inbox \/ inbox' = Relayed(inbox, t, msgs)
      /\ UNCHANGED wire /\ UNCHANGED <<got, server>>
  BY DEF Gather, net
<1>3. msgs \in Seq(Msg) /\ NoFrames(msgs)
  BY CandidatesQuiet
<1>. DEFINE n == tr[t].gathered + 1
<1>4. n \in Nat /\ n <= MaxCandidates
  BY <1>1, TransportAssumption DEF Transport
<1>5. me = [tr[t] EXCEPT !.gathered = n]
  OBVIOUS
<1>. HIDE DEF me, n, msgs
<1>6. me \in Transport /\ Sound(t, me) /\ Calm(tr[t], me)
  <2>1. me \in Transport
    BY <1>1, <1>4, <1>5 DEF Transport
  <2>. QED
    BY <1>1, <1>4, <1>5, <2>1 DEF Sound, Calm, Transport
<1>. DEFINE k == me.held + 1
<1>7. k \in Nat /\ held = [me EXCEPT !.held = k]
  BY <1>6 DEF Transport
<1>. HIDE DEF held, k
<1>8. Calm(me, held) /\ (me.target = NoPeer => Sound(t, held))
  <2>1. held \in Transport
    BY <1>6, <1>7 DEF Transport
  <2>. QED
    BY <1>6, <1>7, <2>1 DEF Sound, Calm, Transport
<1>9. PICK new : Become(t, new) /\ Sound(t, new) /\ Calm(me, new)
  BY <1>2, <1>6, <1>8 DEF Calm
<1>10. Calm(tr[t], new)
  BY <1>6, <1>9 DEF Calm
<1>11. Grows(tr[t], new) /\ new.ws = tr[t].ws
  BY <1>1, <1>10, CalmGrows DEF Calm
<1>. QED
  BY <1>2, <1>3, <1>9, <1>11, HandlerStep

LEMMA ChannelOpensStep ==
  ASSUME TransportInv, NEW t \in Peer, ChannelOpens(t) PROVE TransportInv' /\ Moves
<1>. DEFINE p == tr[t].remote
            me == [tr[t] EXCEPT !.chan = "open", !.rtc = "CONNECTED", !.link = p,
                                !.timer = "off", !.ready = TRUE]
<1>1. /\ Sound(t, tr[t]) /\ tr[t] \in Transport /\ tr[t].rtc = "CONNECTING" /\ Change(t, me)
      /\ p \in Peer \cup {NoPeer}
  BY Here DEF TransportInv, ChannelOpens, Transport
<1>. HIDE DEF p
<1>2. me \in Transport
  <2>. DEFINE half == [tr[t] EXCEPT !.chan = "open", !.rtc = "CONNECTED"]
  <2>1. half \in Transport
    BY <1>1 DEF Transport, RtcState
  <2>2. me = [half EXCEPT !.link = p, !.timer = "off", !.ready = TRUE]
    BY <1>1 DEF Transport
  <2>. HIDE DEF half, me
  <2>. QED
    BY <1>1, <2>1, <2>2 DEF Transport
<1>3. tr[t].mode # "tunnel" /\ ~tr[t].closed
  BY <1>1 DEF Sound
<1>4. Sound(t, me)
  BY <1>1, <1>2, <1>3 DEF Sound, Transport
<1>5. Grows(tr[t], me) /\ me.ws = tr[t].ws
  BY <1>1, <1>3 DEF Grows, IsOpen, RtcOpen, Transport
<1>. HIDE DEF me
<1>. QED
  BY <1>1, <1>4, <1>5, ChangeStep

LEMMA PathStep ==
  ASSUME TransportInv, NEW t \in Peer, Disconnects(t) \/ Recovers(t) PROVE TransportInv' /\ Moves
<1>. DEFINE lost == [tr[t] EXCEPT !.rtc = "DISCONNECTED", !.drops = tr[t].drops + 1]
            found == [tr[t] EXCEPT !.rtc = "CONNECTED"]
<1>1. /\ Sound(t, tr[t]) /\ tr[t] \in Transport /\ tr[t].rtc # "CLOSED"
      /\ Change(t, lost) \/ Change(t, found)
  BY Here DEF TransportInv, Disconnects, Recovers
<1>. DEFINE n == tr[t].drops + 1
<1>2. n \in Nat /\ lost = [tr[t] EXCEPT !.rtc = "DISCONNECTED", !.drops = n]
  BY <1>1 DEF Transport
<1>. HIDE DEF lost, n
<1>3. Sound(t, lost) /\ Calm(tr[t], lost)
  <2>1. lost \in Transport
    BY <1>1, <1>2 DEF Transport, RtcState
  <2>. QED
    BY <1>1, <1>2, <2>1 DEF Sound, Calm, Transport
<1>4. Sound(t, found) /\ Calm(tr[t], found)
  <2>1. found \in Transport
    BY <1>1 DEF Transport, RtcState
  <2>. QED
    BY <1>1, <2>1 DEF Sound, Calm, Transport
<1>. HIDE DEF found
<1>5. PICK me \in {lost, found} : Change(t, me)
  BY <1>1
<1>6. Sound(t, me) /\ Grows(tr[t], me) /\ me.ws = tr[t].ws
  BY <1>1, <1>3, <1>4, CalmGrows DEF Calm
<1>. QED
  BY <1>5, <1>6, ChangeStep

\* The switch to the tunnel, from the transport as it is or disconnected.
LEMMA SwitchStep ==
  ASSUME TransportInv, NEW t \in Peer, PathFails(t) \/ ChannelCloses(t) \/ Watchdog(t)
  PROVE  TransportInv' /\ Moves
<1>. DEFINE lost == [tr[t] EXCEPT !.rtc = "DISCONNECTED"]
            fired == [tr[t] EXCEPT !.timer = "fired"]
<1>1. Sound(t, tr[t]) /\ tr[t] \in Transport
  BY Here DEF TransportInv
<1>2. \/ Change(t, ToTunnel(tr[t]))
      \/ tr[t].rtc # "CLOSED" /\ Change(t, ToTunnel(lost))
      \/ tr[t].timer = "on" /\ Change(t, fired)
  BY DEF PathFails, ChannelCloses, Watchdog
<1>3. tr[t].rtc # "CLOSED" => Sound(t, lost) /\ Calm(tr[t], lost)
  <2>1. lost \in Transport
    BY <1>1 DEF Transport, RtcState
  <2>. QED
    BY <1>1, <2>1 DEF Sound, Calm, Transport
<1>4. tr[t].timer = "on" => Sound(t, fired) /\ Calm(tr[t], fired)
  <2>1. fired \in Transport
    BY <1>1 DEF Transport
  <2>. QED
    BY <1>1, <2>1 DEF Sound, Calm, Transport
<1>. HIDE DEF lost, fired
<1>5. CASE Change(t, ToTunnel(tr[t]))
  BY <1>1, <1>5, TunnelSound, ChangeStep
<1>6. CASE tr[t].rtc # "CLOSED" /\ Change(t, ToTunnel(lost))
  <2>1. /\ Sound(t, ToTunnel(lost)) /\ Grows(lost, ToTunnel(lost))
        /\ ToTunnel(lost).ws = lost.ws
    BY <1>3, <1>6, TunnelSound
  <2>2. Grows(tr[t], ToTunnel(lost)) /\ ToTunnel(lost).ws = tr[t].ws
    BY <1>3, <1>6, <2>1 DEF Grows, Calm
  <2>. QED
    BY <1>6, <2>1, <2>2, ChangeStep
<1>7. CASE tr[t].timer = "on" /\ Change(t, fired)
  <2>1. Sound(t, fired) /\ Grows(tr[t], fired) /\ fired.ws = tr[t].ws
    BY <1>1, <1>4, <1>7, CalmGrows DEF Calm
  <2>. QED
    BY <1>7, <2>1, ChangeStep
<1>. QED
  BY <1>2, <1>5, <1>6, <1>7
------------------------------------------------------------------------------
(* Frames. *)

\* A frame is numbered next; the number stays within the bound of the sender.
LEMMA CountSound ==
  ASSUME NEW t \in Peer, NEW me, Sound(t, me), ~me.waiting, me.sent < MaxFrames(t)
  PROVE  LET new == [me EXCEPT !.sent = me.sent + 1]
         IN /\ Sound(t, new) /\ Grows(me, new) /\ new.sent = me.sent + 1
            /\ new.ws = me.ws /\ new.mode = me.mode
<1>. DEFINE n == me.sent + 1
            new == [me EXCEPT !.sent = n]
<1>1. me \in Transport /\ me.sent \in Nat /\ MaxFrames(t) \in Nat
  BY TransportAssumption DEF Sound, Transport, MaxFrames
<1>2. n \in Nat /\ n <= MaxFrames(t) /\ n >= me.sent
  BY <1>1
<1>. HIDE DEF n
<1>3. new \in Transport
  BY <1>1, <1>2 DEF Transport
<1>4. Sound(t, new)
  BY <1>1, <1>2, <1>3 DEF Sound, Transport
<1>5. Grows(me, new)
  BY <1>1, <1>2 DEF Grows, Transport
<1>6. new.sent = n /\ new.ws = me.ws /\ new.mode = me.mode
  BY <1>1 DEF Transport
<1>. QED
  BY <1>4, <1>5, <1>6 DEF n

\* A frame sent through the tunnel by a transport that has become me.
LEMMA TunnelSendStep ==
  ASSUME TransportInv, NEW t \in Peer, NEW me, Sound(t, me), Grows(tr[t], me),
         me.ws = tr[t].ws, me.sent = tr[t].sent, me.mode = "tunnel", ~me.waiting,
         me.sent < MaxFrames(t), TunnelSend(t, me)
  PROVE  TransportInv' /\ Moves
<1>. DEFINE new == [me EXCEPT !.sent = me.sent + 1]
            m == Message("TUNNEL_FRAME", t, me.sent + 1)
            ok == me.ws = "open" /\ me.target # NoPeer
<1>1. /\ Become(t, IF ok THEN new ELSE me) /\ CutIfClosed(t, me)
      /\ inbox' = (IF ok THEN Relayed(inbox, t, <<m>>) ELSE inbox)
      /\ UNCHANGED <<got, server>>
  BY DEF TunnelSend
<1>2. CASE ~ok
  <2>1. <<>> \in Seq(Msg) /\ NoFrames(<<>>)
    BY DEF NoFrames
  <2>2. Become(t, me) /\ inbox' = inbox
    BY <1>1, <1>2
  <2>. QED
    BY <1>1, <2>1, <2>2, HandlerStep
<1>3. CASE ok
  <2>1. /\ Sound(t, new) /\ Grows(me, new) /\ new.sent = me.sent + 1
        /\ new.ws = me.ws /\ new.mode = me.mode
    BY CountSound
  <2>2. Become(t, new) /\ inbox' = Relayed(inbox, t, <<m>>)
    BY <1>1, <1>3
  <2>3. m = Message("TUNNEL_FRAME", t, new.sent)
    BY <2>1
  <2>4. m \in Msg /\ <<m>> \in Seq(Msg)
    <3>1. me.sent + 1 \in Nat
      BY DEF Sound, Transport
    <3>. QED
      BY <3>1, OneMessage DEF MessageType
  <2>. HIDE DEF new, m
  <2>5. Grows(tr[t], new)
    <3>1. tr[t] \in Transport /\ me \in Transport /\ new \in Transport
      BY <2>1, Here DEF TransportInv, Sound
    <3>2. new.ready /\ ~tr[t].ready => IsOpen(new)
      <4>1. CASE me.ready /\ ~tr[t].ready
        <5>1. IsOpen(me)
          BY <4>1 DEF Grows
        <5>2. me.target # NoPeer /\ me.ws = "open" /\ ~me.closed
          BY <5>1 DEF IsOpen
        <5>. QED
          BY <2>1, <5>2, <3>1 DEF IsOpen, new, Transport
      <4>2. CASE ~me.ready
        BY <2>1, <4>2 DEF Grows
      <4>3. CASE tr[t].ready
        BY <4>3
      <4>. QED
        BY <4>1, <4>2, <4>3
    <3>. QED
      BY <2>1, <3>1, <3>2 DEF Grows, Transport
  <2>6. /\ Typed /\ inbox \in [Peer -> Seq(Msg)] /\ \A x \in Peer : Ordered(x)
        /\ \A x \in Peer : tr[x].ws # "open" => inbox[x] = <<>>
        /\ got \in [Peer -> Seq(FrameMsg)]
    BY DEF TransportInv, Typed, Mailbox
  <2>7. Moves /\ tr'[t] = new /\ \A x \in Peer \ {t} : tr'[x] = tr[x]
    BY <2>1, <2>2, <2>5, <2>6, BecomeMoves
  <2>8. WireStep
    BY <1>1, <2>6, CutThins
  <2>9. /\ inbox' \in [Peer -> Seq(Msg)]
        /\ \A x \in Peer : \/ inbox'[x] = inbox[x]
                           \/ inbox'[x] = inbox[x] \o <<m>> /\ tr[x].ws = "open"
    BY <2>2, <2>4, <2>6, RelayedMail
  <2>10. Mailbox(inbox, tr)'
    BY <2>1, <2>6, <2>7, <2>9 DEF Mailbox
  <2>11. ASSUME NEW x \in Peer PROVE Ordered(x)'
    <3>1. QuietWire(x) /\ got'[x] = got[x] /\ inbox[x] \in Seq(Msg)
      BY <1>1, <2>6, <2>8 DEF WireStep, QuietWire
    <3>2. CASE inbox'[x] = inbox[x]
      <4>1. QuietMail(x)
        BY <3>1, <3>2, ThinsSelf DEF QuietMail
      <4>. QED
        BY <2>6, <2>7, <3>1, <4>1, QuietOrder
    <3>3. CASE inbox'[x] = inbox[x] \o <<m>>
      <4>1. inbox'[x] = Append(inbox[x], m)
        BY <2>4, <3>1, <3>3
      <4>2. tr'[t].sent = tr[t].sent + 1 /\ tr'[t].mode = "tunnel"
        BY <2>1, <2>7
      <4>3. inbox'[x] = Append(inbox[x], Message("TUNNEL_FRAME", t, tr'[t].sent))
        BY <2>3, <2>7, <4>1
      <4>. QED
        BY <2>6, <2>7, <3>1, <4>2, <4>3, TunnelOrder
    <3>. QED
      BY <2>9, <3>2, <3>3
  <2>12. RoomOK' /\ known' \subseteq Peer
    BY <1>1, RoomStays
  <2>13. got' \in [Peer -> Seq(FrameMsg)]
    BY <1>1, <2>6
  <2>. QED
    BY <2>7, <2>8, <2>10, <2>11, <2>12, <2>13 DEF TransportInv, Typed, Moves, WireStep
<1>. QED
  BY <1>2, <1>3

\* A frame sent over the channel by a transport that has become me.
LEMMA ChannelSendStep ==
  ASSUME TransportInv, NEW t \in Peer, NEW me, Sound(t, me), Calm([tr[t] EXCEPT !.waiting = FALSE], me),
         tr[t].mode = "p2p", ~me.waiting, me.sent < MaxFrames(t), ChannelSend(t, me)
  PROVE  TransportInv' /\ Moves
<1>. DEFINE new == [me EXCEPT !.sent = me.sent + 1]
            m == Message("FRAME", t, me.sent + 1)
            to == me.link
<1>1. /\ Become(t, new) /\ wire' = [wire EXCEPT ![to] = Append(wire[to], m)]
      /\ UNCHANGED <<inbox, got, server>>
  BY DEF ChannelSend
<1>2. /\ Sound(t, new) /\ Grows(me, new) /\ new.sent = me.sent + 1
      /\ new.ws = me.ws /\ new.mode = me.mode
  BY CountSound
<1>3. m = Message("FRAME", t, new.sent)
  BY <1>2
<1>4. m \in FrameMsg
  <2>1. me.sent + 1 \in Nat
    BY DEF Sound, Transport
  <2>. QED
    BY <2>1 DEF Message, FrameMsg, FrameType
<1>5. /\ Typed /\ tr[t] \in Transport /\ \A x \in Peer : Ordered(x)
      /\ wire \in [Peer -> Seq(FrameMsg)] /\ got \in [Peer -> Seq(FrameMsg)]
  BY Here DEF TransportInv, Typed
<1>6. /\ me.ws = tr[t].ws /\ me.closed = tr[t].closed /\ me.mode = tr[t].mode
      /\ me.ready = tr[t].ready /\ me.sent = tr[t].sent
  BY <1>5 DEF Calm, Transport
<1>. HIDE DEF m, to
<1>7. Grows(tr[t], new)
  <2>1. new.ready = me.ready
    BY DEF Sound, Transport
  <2>. HIDE DEF new
  <2>. QED
    BY <1>2, <1>6, <2>1 DEF Grows
<1>. HIDE DEF new
<1>8. Moves /\ tr'[t] = new /\ \A x \in Peer \ {t} : tr'[x] = tr[x]
  BY <1>1, <1>2, <1>5, <1>7, BecomeMoves
<1>9. MailStep
  BY <1>1, <1>2, <1>5, <1>6, <1>8, MailStays
<1>10. /\ wire' \in [Peer -> Seq(FrameMsg)]
       /\ \A x \in Peer : wire'[x] = wire[x] \/ wire'[x] = Append(wire[x], m)
  <2>1. \A x \in Peer : Append(wire[x], m) \in Seq(FrameMsg)
    BY <1>4, <1>5
  <2>2. \A x \in Peer : wire'[x] = IF x = to THEN Append(wire[x], m) ELSE wire[x]
    BY <1>1, <1>5
  <2>. QED
    BY <1>1, <1>5, <2>1, <2>2
<1>11. ASSUME NEW x \in Peer PROVE Ordered(x)'
  <2>1. got'[x] = got[x] /\ inbox'[x] = inbox[x]
    BY <1>1
  <2>2. CASE wire'[x] = wire[x]
    <3>1. wire[x] \in Seq(FrameMsg) /\ wire[x] \in Seq(Msg)
      BY <1>5, Sequences3
    <3>2. QuietWire(x)
      BY <2>2, <3>1, ThinsSelf DEF QuietWire
    <3>3. QuietMail(x)
      BY <1>9 DEF MailStep, Mailbox, QuietMail
    <3>. QED
      BY <1>5, <1>8, <2>1, <3>2, <3>3, QuietOrder
  <2>3. CASE wire'[x] = Append(wire[x], m)
    <3>1. tr'[t].sent = tr[t].sent + 1
      BY <1>2, <1>6, <1>8
    <3>2. wire'[x] = Append(wire[x], Message("FRAME", t, tr'[t].sent))
      BY <1>3, <1>8, <2>3
    <3>. QED
      BY <1>5, <1>8, <2>1, <3>1, <3>2, ChannelOrder
  <2>. QED
    BY <1>10, <2>2, <2>3
<1>12. RoomOK' /\ known' \subseteq Peer
  BY <1>1, RoomStays
<1>13. got' \in [Peer -> Seq(FrameMsg)]
  BY <1>1, <1>5
<1>. QED
  BY <1>8, <1>9, <1>10, <1>11, <1>12, <1>13 DEF TransportInv, Typed, Moves, MailStep

LEMMA SendStep ==
  ASSUME TransportInv, NEW t \in Peer, Send(t) PROVE TransportInv' /\ Moves
<1>. DEFINE paused == [tr[t] EXCEPT !.waiting = TRUE]
<1>1. /\ Sound(t, tr[t]) /\ tr[t] \in Transport /\ ~tr[t].closed /\ ~tr[t].waiting
      /\ tr[t].sent < MaxFrames(t)
  BY Here DEF TransportInv, Send
<1>2. \/ tr[t].mode = "p2p" /\ ChannelSend(t, tr[t])
      \/ Change(t, paused)
      \/ TunnelSend(t, ToTunnel(tr[t]))
  BY DEF Send
<1>3. CASE tr[t].mode = "p2p" /\ ChannelSend(t, tr[t])
  <2>1. Calm([tr[t] EXCEPT !.waiting = FALSE], tr[t])
    BY <1>1 DEF Calm, Transport
  <2>. QED
    BY <1>1, <1>3, <2>1, ChannelSendStep
<1>4. CASE Change(t, paused)
  <2>1. paused \in Transport
    BY <1>1 DEF Transport
  <2>2. Sound(t, paused) /\ Grows(tr[t], paused) /\ paused.ws = tr[t].ws
    BY <1>1, <2>1 DEF Sound, Grows, Transport
  <2>. HIDE DEF paused
  <2>. QED
    BY <1>4, <2>2, ChangeStep
<1>5. CASE TunnelSend(t, ToTunnel(tr[t]))
  <2>. DEFINE me == ToTunnel(tr[t])
  <2>1. /\ Sound(t, me) /\ Grows(tr[t], me) /\ me.ws = tr[t].ws /\ me.sent = tr[t].sent
        /\ me.waiting = tr[t].waiting /\ me.mode = "tunnel"
    BY <1>1, TunnelSound
  <2>. HIDE DEF me
  <2>2. TunnelSend(t, me)
    BY <1>5 DEF me
  <2>. QED
    BY <1>1, <2>1, <2>2, TunnelSendStep
<1>. QED
  BY <1>2, <1>3, <1>4, <1>5

\* A send that has waited counts the frame for which it found room before.
LEMMA SendResumesStep ==
  ASSUME TransportInv, NEW t \in Peer, SendResumes(t) PROVE TransportInv' /\ Moves
<1>. DEFINE me == [tr[t] EXCEPT !.waiting = FALSE]
<1>1. Sound(t, tr[t]) /\ tr[t] \in Transport /\ tr[t].waiting
  BY Here DEF TransportInv, SendResumes
<1>2. /\ me \in Transport /\ me.ws = tr[t].ws /\ me.sent = tr[t].sent /\ ~me.waiting
      /\ me.mode = tr[t].mode /\ me.closed = tr[t].closed /\ me.ready = tr[t].ready
      /\ me.rtc = tr[t].rtc /\ me.target = tr[t].target
  BY <1>1 DEF Transport
<1>3. Sound(t, me) /\ me.sent < MaxFrames(t)
  BY <1>1, <1>2 DEF Sound, Transport
<1>4. Grows(tr[t], me) /\ Calm([tr[t] EXCEPT !.waiting = FALSE], me)
  BY <1>1, <1>2 DEF Grows, Calm, Transport
<1>5. \/ me.rtc # "CLOSED" /\ ChannelSend(t, me)
      \/ Change(t, me)
      \/ ~me.closed /\ TunnelSend(t, ToTunnel(me))
  BY DEF SendResumes
<1>. HIDE DEF me
<1>6. CASE me.rtc # "CLOSED" /\ ChannelSend(t, me)
  <2>1. tr[t].mode = "p2p"
    BY <1>1, <1>2, <1>6 DEF Sound, Transport
  <2>. QED
    BY <1>2, <1>3, <1>4, <1>6, <2>1, ChannelSendStep
<1>7. CASE Change(t, me)
  BY <1>2, <1>3, <1>4, <1>7, ChangeStep
<1>8. CASE ~me.closed /\ TunnelSend(t, ToTunnel(me))
  <2>. DEFINE new == ToTunnel(me)
  <2>1. /\ Sound(t, new) /\ Grows(me, new) /\ new.ws = me.ws /\ new.sent = me.sent
        /\ new.waiting = me.waiting /\ new.mode = "tunnel"
    BY <1>3, <1>8, TunnelSound
  <2>. HIDE DEF new
  <2>2. TunnelSend(t, new)
    BY <1>8 DEF new
  <2>3. Grows(tr[t], new)
    BY <1>2, <2>1 DEF Grows
  <2>. QED
    BY <1>2, <1>3, <2>1, <2>2, <2>3, TunnelSendStep
<1>. QED
  BY <1>5, <1>6, <1>7, <1>8

LEMMA ReceiveDirectStep ==
  ASSUME TransportInv, NEW t \in Peer, ReceiveDirect(t) PROVE TransportInv' /\ Moves
<1>. DEFINE shown == ~(tr[t].mode = "tunnel" \/ tr[t].closed)
            h == Head(wire[t])
<1>1. /\ Typed /\ tr[t] \in Transport /\ \A x \in Peer : Ordered(x) /\ Sound(x, tr[x])
      /\ wire \in [Peer -> Seq(FrameMsg)] /\ got \in [Peer -> Seq(FrameMsg)]
      /\ inbox \in [Peer -> Seq(Msg)]
  BY Here DEF TransportInv, Typed, Mailbox
<1>2. /\ wire[t] # <<>> /\ wire' = [wire EXCEPT ![t] = Tail(wire[t])]
      /\ got' = got \/ (shown /\ got' = [got EXCEPT ![t] = Append(got[t], h)])
      /\ tr' = tr /\ inbox' = inbox /\ UNCHANGED server
  BY DEF ReceiveDirect
<1>3. Tail(wire[t]) \in Seq(FrameMsg) /\ Append(got[t], h) \in Seq(FrameMsg)
  BY <1>1, <1>2
<1>4. /\ wire' \in [Peer -> Seq(FrameMsg)] /\ wire'[t] = Tail(wire[t])
      /\ got' \in [Peer -> Seq(FrameMsg)]
      /\ \A x \in Peer \ {t} : wire'[x] = wire[x] /\ got'[x] = got[x]
      /\ got'[t] = got[t] \/ (shown /\ got'[t] = Append(got[t], h))
  BY <1>1, <1>2, <1>3
<1>5. Moves
  <2>1. \A x \in Peer : Grows(tr[x], tr[x])
    BY <1>1, CalmGrows DEF Calm
  <2>. QED
    BY <1>1, <1>2, <2>1 DEF Moves, Typed, Transports
<1>6. ASSUME NEW x \in Peer PROVE Ordered(x)'
  <2>1. CASE x = t
    <3>1. shown => tr[t].mode = "p2p" /\ ~tr[t].closed
      BY <1>1 DEF Transport
    <3>. QED
      BY <1>1, <1>2, <1>4, <2>1, <3>1, EmitDirectOrder
  <2>2. CASE x # t
    <3>1. inbox[x] \in Seq(Msg) /\ wire[x] \in Seq(Msg) /\ wire[x] \in Seq(FrameMsg)
      BY <1>1, Sequences3
    <3>2. QuietMail(x) /\ QuietWire(x) /\ got'[x] = got[x]
      BY <1>2, <1>4, <2>2, <3>1, ThinsSelf DEF QuietMail, QuietWire
    <3>. QED
      BY <1>1, <1>5, <3>2, QuietOrder
  <2>. QED
    BY <2>1, <2>2
<1>7. RoomOK' /\ known' \subseteq Peer
  BY <1>2, RoomStays
<1>8. Typed'
  BY <1>1, <1>2, <1>4, <1>7 DEF Typed, Mailbox, Transports
<1>. QED
  BY <1>5, <1>6, <1>8 DEF TransportInv
------------------------------------------------------------------------------
(* The specification. *)

LEMMA InitTransport == Init => TransportInv
<1>. SUFFICES ASSUME Init PROVE TransportInv
  OBVIOUS
<1>1. Transports(tr)
  <2>1. tr = [t \in Peer |-> Fresh]
    BY DEF Init
  <2>2. \A t \in Peer : Sound(t, Fresh) /\ Fresh \in Transport
    BY FreshSound DEF Sound
  <2>. HIDE DEF Fresh
  <2>. QED
    BY <2>1, <2>2 DEF Transports
<1>2. Typed
  BY <1>1 DEF Init, Typed, Mailbox, RoomOK
<1>3. ASSUME NEW t \in Peer PROVE Ordered(t)
  BY DEF Init, Ordered, Rising, Precedes, Counted, Tunnelled
<1>. QED
  BY <1>2, <1>3 DEF TransportInv

LEMMA NextTransport == TransportInv /\ [Next]_vars => TransportInv' /\ Moves
<1>. SUFFICES ASSUME TransportInv, [Next]_vars PROVE TransportInv' /\ Moves
  OBVIOUS
<1>1. CASE UNCHANGED vars
  <2>1. UNCHANGED <<tr, inbox, wire, got, room, known>>
    BY <1>1 DEF vars
  <2>2. TransportInv'
    BY <2>1 DEF TransportInv, Typed, Transports, Mailbox, RoomOK, Ordered
  <2>3. \A x \in Peer : Sound(x, tr[x])
    BY DEF TransportInv, Typed, Transports
  <2>4. \A x \in Peer : Grows(tr[x], tr[x])
    BY <2>3, CalmGrows DEF Calm
  <2>. QED
    BY <2>1, <2>2, <2>4 DEF TransportInv, Typed, Transports, Moves
<1>2. CASE Next
  <2>1. PICK t \in Peer :
          \/ Join(t) \/ Leave(t) \/ SocketCloses(t) \/ ServerCloses(t)
          \/ Handlers(t) \/ Watchdog(t) \/ Send(t) \/ Gather(t)
          \/ ChannelOpens(t) \/ Disconnects(t) \/ Recovers(t) \/ PathFails(t)
    BY <1>2 DEF Next
  <2>2. CASE Join(t) \/ Leave(t) \/ SocketCloses(t) \/ ServerCloses(t)
    BY <2>2, JoinStep, LeaveStep, SocketClosesStep, ServerClosesStep
  <2>3. CASE Handlers(t)
    <3>1. CASE Receive(t) \/ SendOffer(t) \/ \E p \in Peer : SendAnswer(t, p)
      BY <3>1, ReceiveStep, SendOfferStep, SendAnswerStep
    <3>2. CASE ReceiveDirect(t) \/ ChannelCloses(t) \/ SendResumes(t)
      BY <3>2, ReceiveDirectStep, SwitchStep, SendResumesStep
    <3>. QED
      BY <2>3, <3>1, <3>2 DEF Handlers
  <2>4. CASE Watchdog(t) \/ PathFails(t) \/ Disconnects(t) \/ Recovers(t)
    BY <2>4, SwitchStep, PathStep
  <2>5. CASE Send(t) \/ Gather(t) \/ ChannelOpens(t)
    BY <2>5, SendStep, GatherStep, ChannelOpensStep
  <2>. QED
    BY <2>1, <2>2, <2>3, <2>4, <2>5
<1>. QED
  BY <1>1, <1>2

LEMMA TransportInvariant == Spec => []TransportInv
<1>1. Init => TransportInv
  BY InitTransport
<1>2. TransportInv /\ [Next]_vars => TransportInv'
  BY NextTransport
<1>. QED
  BY <1>1, <1>2, PTL DEF Spec

\* Every field of a transport stays what it is declared to be, frames and
\* candidates within their bounds, the room has one peer of each role at most,
\* and a transport that has been closed or has switched to the tunnel holds no
\* connection, no watchdog and no queued candidate (webrtcPeer.js, close and
\* _switchToTunnelMode).
THEOREM TransportTypeCorrect == Spec => []TypeOK
<1>1. TransportInv => TypeOK
  <2>. SUFFICES ASSUME TransportInv PROVE TypeOK
    OBVIOUS
  <2>1. ASSUME NEW t \in Peer
        PROVE  /\ tr[t] \in Transport /\ Sound(t, tr[t])
    BY <2>1, Here DEF TransportInv
  <2>2. known \subseteq Peer /\ Len(room) <= 2 /\ \A i \in DOMAIN room : room[i] \in Peer
    BY DEF TransportInv, Typed, RoomOK
  <2>. QED
    BY <2>1, <2>2 DEF TypeOK, Transport, Sound
<1>. QED
  BY <1>1, TransportInvariant, PTL

\* Whatever way frames take, over the channel or the tunnel, and whenever the
\* transport switches, loses its path or closes, the page is given the frames of
\* a sender in the order they were sent and none twice (webrtcPeer.js, send and
\* the 'message' events of either mode).
THEOREM FramesStayInOrder == Spec => []FramesInOrder
<1>1. TransportInv => FramesInOrder
  <2>. SUFFICES ASSUME TransportInv, NEW t \in Peer, NEW i \in DOMAIN got[t],
                       NEW j \in DOMAIN got[t], i < j, got[t][i].from = got[t][j].from
                PROVE  got[t][i].n < got[t][j].n
    BY DEF FramesInOrder
  <2>1. got[t] \in Seq(FrameMsg) /\ Rising(got[t])
    BY DEF TransportInv, Typed, Ordered
  <2>2. got[t][i].type \in FrameType /\ got[t][j].type \in FrameType
    <3>1. got[t][i] \in FrameMsg /\ got[t][j] \in FrameMsg
      BY <2>1
    <3>. QED
      BY <3>1 DEF FrameMsg
  <2>. QED
    BY <2>1, <2>2 DEF Rising, Before
<1>. QED
  BY <1>1, TransportInvariant, PTL

\* No ICE candidate is forgotten in either of the two queues: the queue for a
\* target is empty once one is bound, the queue for a description once one is
\* set (webrtcPeer.js, _sendSignal and its flush; webrtcConnection.js,
\* addIceCandidate and setRemoteDescription).
THEOREM NoCandidateStranded == Spec => []NoStrandedCandidate
<1>1. TransportInv => NoStrandedCandidate
  BY DEF TransportInv, Typed, Transports, Sound, NoStrandedCandidate
<1>. QED
  BY <1>1, TransportInvariant, PTL

\* When 'open' is emitted, by the channel or by the switch to the tunnel, the
\* page can send at once: the channel is open, or the socket is and a peer is
\* bound (webrtcPeer.js, _switchToTunnelMode and PEER_JOINED).
THEOREM OpenMeansUsable == Spec => OpenIsUsable
<1>1. TransportInv /\ [Next]_vars =>
        [\A t \in Peer : tr'[t].ready /\ ~tr[t].ready => IsOpen(tr'[t])]_vars
  BY NextTransport DEF Moves, Grows
<1>. QED
  BY <1>1, TransportInvariant, PTL DEF Spec, OpenIsUsable
==============================================================================
