--------------------------- MODULE SignalingServer ---------------------------
(***************************************************************************)
(* The WebSocket signaling server of WarpDrop (server/signaling.js).       *)
(*                                                                         *)
(* A session is a room in which at most one sender ("tx-...") and one      *)
(* receiver ("rx-...") meet.  The server keeps the rooms in memory, mirrors *)
(* their ids and tokens to a file, and relays messages between the two     *)
(* sockets of a room.  Node.js runs one handler at a time, so every handler *)
(* (connection, message, pong, close, error, the two interval timers) is   *)
(* one action.                                                             *)
(*                                                                         *)
(* Abstractions: a peerId is a model value that belongs to RxPeer, TxPeer  *)
(* or neither (its prefix); time is counted in sweep periods (30 s), and a *)
(* timestamp is kept as the number of periods since it was taken; every    *)
(* forwarded type (SDP, ICE, TUNNEL_FRAME) is the one type "FORWARD".      *)
(***************************************************************************)
EXTENDS Naturals, Sequences, FiniteSets

CONSTANTS
  Socket,          \* WebSocket connections the server may hold at a time
  Session,         \* session ids, all of the form session-...
  PeerId,          \* peer ids clients choose
  RxPeer, TxPeer,  \* the peer ids with prefix rx- and with prefix tx-
  Token,           \* tokens a message may carry
  IssuedToken,     \* those of the form tok-..., which createSession issues
  SessionTimeout,  \* sessionTimeoutMs, in sweep periods
  Downtime,        \* how many periods a restart may take ({}: no restarts)
  Timers,          \* which interval timers run: "heartbeat", "cleanup"
  AppClients,      \* clients behave as public/js/app.js does (see ClientMay)
  WriteMayFail,    \* writing the session file may throw
  NoSocket, NoPeer, NoToken, NoContext, Absent

ASSUME ConstantsAssumption ==
  /\ RxPeer \subseteq PeerId /\ TxPeer \subseteq PeerId
  /\ RxPeer \cap TxPeer = {}
  /\ IssuedToken \subseteq Token
  /\ SessionTimeout \in Nat \ {0}
  /\ Downtime \subseteq Nat
  /\ Timers \subseteq {"heartbeat", "cleanup"}
  /\ AppClients \in BOOLEAN /\ WriteMayFail \in BOOLEAN
  /\ NoSocket \notin Socket /\ NoPeer \notin PeerId /\ NoToken \notin Token
  /\ NoContext \notin [session : Session, peer : PeerId]
  /\ Absent \notin [token : Token, age : Nat]

VARIABLES
  sock,    \* state of each WebSocket
  alive,   \* ws.isAlive
  lost,    \* sockets whose network path died without a close frame
  ctx,     \* ws.peerContext
  token,   \* session.token, NoToken when the id is not in the sessions Map
  peers,   \* session.peers: peerId -> socket
  newest,  \* the peerId last inserted into session.peers (Map order)
  paired,  \* session.everHadTwoPeers
  age,     \* periods since session.lastActive
  file,    \* the session file: the entry of each session, or Absent
  sent     \* the messages the last handler sent, in order

sockVars == <<sock, alive, lost, ctx>>
roomVars == <<peers, newest, paired>>
vars == <<sockVars, token, roomVars, age, file, sent>>

(***************************************************************************)
(* A socket is "open", "closing" (the server called close; frames the      *)
(* client sent before it noticed still arrive), "broken" (CLOSING with     *)
(* nothing left to read: close frame received, terminated or failed) or    *)
(* "closed" (its close event has been handled; a new connection may take   *)
(* the value).                                                             *)
(***************************************************************************)
SocketState == {"open", "closing", "broken", "closed"}
Context == [session : Session, peer : PeerId]
Message == [type : {"PEER_JOINED", "PEER_LEFT", "FORWARD", "PONG", "ERROR"},
            to : Socket, from : Socket \cup {NoSocket},
            peer : PeerId \cup {NoPeer}]

live == {s \in Session : token[s] # NoToken}
EmptyRoom == [p \in PeerId |-> NoSocket]
Members(room) == {p \in PeerId : room[p] # NoSocket}
Open(w) == sock[w] = "open"
Readable(w) == sock[w] \in {"open", "closing"} /\ w \notin lost

TypeOK ==
  /\ sock \in [Socket -> SocketState]
  /\ alive \in [Socket -> BOOLEAN]
  /\ lost \in SUBSET Socket
  /\ ctx \in [Socket -> Context \cup {NoContext}]
  /\ token \in [Session -> Token \cup {NoToken}]
  /\ peers \in [Session -> [PeerId -> Socket \cup {NoSocket}]]
  /\ newest \in [Session -> PeerId \cup {NoPeer}]
  /\ paired \in [Session -> BOOLEAN]
  /\ age \in [Session -> 0 .. SessionTimeout]
  /\ file \in [Session -> [token : Token, age : 0 .. SessionTimeout] \cup {Absent}]
  /\ sent \in Seq(Message)

Init ==
  /\ sock = [w \in Socket |-> "closed"]
  /\ alive = [w \in Socket |-> TRUE]
  /\ lost = {}
  /\ ctx = [w \in Socket |-> NoContext]
  /\ token = [s \in Session |-> NoToken]
  /\ peers = [s \in Session |-> EmptyRoom]
  /\ newest = [s \in Session |-> NoPeer]
  /\ paired = [s \in Session |-> FALSE]
  /\ age = [s \in Session |-> 0]
  /\ file = [s \in Session |-> Absent]
  /\ sent = <<>>
------------------------------------------------------------------------------
(* The session file. *)

Snapshot(tok, ages) ==
  [s \in Session |-> IF tok[s] = NoToken THEN Absent
                     ELSE [token |-> tok[s], age |-> ages[s]]]

\* _savePersistedSessions: the whole Map is written; a write error is swallowed.
Save(old) == \/ file' = Snapshot(token', age')
             \/ WriteMayFail /\ file' = old

AgedBy(d, entry) ==
  IF entry = Absent THEN Absent
  ELSE [entry EXCEPT !.age = IF @ + d > SessionTimeout THEN SessionTimeout ELSE @ + d]

\* An id that createSession draws at random was never seen before.
Unused(s) == /\ token[s] = NoToken /\ file[s] = Absent
             /\ \A w \in Socket : ctx[w] # NoContext => ctx[w].session # s

CreateSession(s, t) ==
  /\ Unused(s)
  /\ token' = [token EXCEPT ![s] = t]
  /\ age' = [age EXCEPT ![s] = 0]
  /\ Save(file)
  /\ sent' = <<>>
  /\ UNCHANGED <<sockVars, roomVars>>
------------------------------------------------------------------------------
(* Connections. *)

Connect(w) ==
  /\ sock[w] = "closed"
  /\ \A s \in Session, p \in PeerId : peers[s][p] # w
  /\ sock' = [sock EXCEPT ![w] = "open"]
  /\ alive' = [alive EXCEPT ![w] = TRUE]
  /\ lost' = lost \ {w}
  /\ ctx' = [ctx EXCEPT ![w] = NoContext]
  /\ sent' = <<>>
  /\ UNCHANGED <<token, roomVars, age, file>>

\* The client closes its end, its host resets the connection, or TCP gives up.
ClientClose(w) ==
  /\ sock[w] \in {"open", "closing"}
  /\ sock' = [sock EXCEPT ![w] = "broken"]
  /\ sent' = <<>>
  /\ UNCHANGED <<alive, lost, ctx, token, roomVars, age, file>>

\* The network path dies silently: no frame, pong or close ever arrives again.
NetworkLoss(w) ==
  /\ Readable(w)
  /\ lost' = lost \cup {w}
  /\ sent' = <<>>
  /\ UNCHANGED <<sock, alive, ctx, token, roomVars, age, file>>

Pong(w) ==
  /\ Readable(w)
  /\ alive' = [alive EXCEPT ![w] = TRUE]
  /\ sent' = <<>>
  /\ UNCHANGED <<sock, lost, ctx, token, roomVars, age, file>>
------------------------------------------------------------------------------
(* Incoming messages. *)

Msg(type, to, from, p) == [type |-> type, to |-> to, from |-> from, peer |-> p]
ErrorTo(w) == IF Open(w) THEN <<Msg("ERROR", w, NoSocket, NoPeer)>> ELSE <<>>

(***************************************************************************)
(* What a client may send.  The page (app.js, webrtcPeer.js) draws a fresh *)
(* peerId for every connection, sends one JOIN on it and afterwards speaks *)
(* only for that session and peer.  Other clients may send anything.       *)
(***************************************************************************)
ClientMay(w, type, s, p) ==
  AppClients =>
    IF type = "JOIN"
    THEN /\ ctx[w] = NoContext
         /\ \A v \in Socket : ctx[v] # NoContext => ctx[v].peer # p
    ELSE ctx[w] # NoContext => ctx[w] = [session |-> s, peer |-> p]

\* A known session must be addressed with its token; an unknown one is restored
\* from any well-formed token.
Accepted(s, t) == IF s \in live THEN token[s] = t ELSE t \in IssuedToken

\* Mutant: a restored session is not written to the file.
TouchUnsaved(w, s, t) ==
  /\ token' = [token EXCEPT ![s] = t]
  /\ age' = [age EXCEPT ![s] = 0]
  /\ alive' = [alive EXCEPT ![w] = TRUE]
  /\ UNCHANGED file

\* Every accepted message restores an unknown session and refreshes lastActive.
Touch(w, s, t) ==
  /\ token' = [token EXCEPT ![s] = t]
  /\ age' = [age EXCEPT ![s] = 0]
  /\ alive' = [alive EXCEPT ![w] = TRUE]
  /\ IF s \in live THEN UNCHANGED file ELSE Save(file)

\* Rate limit, size, JSON and schema failures, unknown session, wrong token.
RejectMessage(w) ==
  /\ Readable(w)
  /\ sent' = ErrorTo(w)
  /\ UNCHANGED <<sockVars, token, roomVars, age, file>>

BinaryFrame(w) ==
  /\ Readable(w)
  /\ sent' = ErrorTo(w)
  /\ sock' = [sock EXCEPT ![w] = "closing"]
  /\ UNCHANGED <<alive, lost, ctx, token, roomVars, age, file>>

Ping(w, s, p, t) ==
  /\ Readable(w) /\ ClientMay(w, "PING", s, p) /\ Accepted(s, t)
  /\ Touch(w, s, t)
  /\ sent' = IF Open(w) THEN <<Msg("PONG", w, NoSocket, NoPeer)>> ELSE <<>>
  /\ UNCHANGED <<sock, lost, ctx, roomVars>>

\* _getOtherPeer: the first entry of the Map with another id.  A room holds at
\* most two peers, so the first of two is the one that is not the newest.
OtherPeer(room, last, p) ==
  LET others == Members(room) \ {p}
  IN IF others = {} THEN NoPeer
     ELSE CHOOSE q \in others : q # last \/ others = {q}

Forward(w, s, p, t) ==
  /\ Readable(w) /\ ClientMay(w, "FORWARD", s, p) /\ Accepted(s, t)
  /\ Touch(w, s, t)
  /\ LET q == OtherPeer(peers[s], newest[s], p)
         v == peers[s][q]
     IN sent' = IF ctx[w] = [session |-> s, peer |-> p] /\ q # NoPeer /\ Open(v)
                THEN <<Msg("FORWARD", v, w, p)>>
                ELSE ErrorTo(w)
  /\ UNCHANGED <<sock, lost, ctx, roomVars>>
------------------------------------------------------------------------------
(* JOIN. *)

\* Mutant: step 2 is missing.
PrunedDead(room, w, p) ==
  [q \in PeerId |-> IF room[q] # NoSocket /\ Open(room[q]) THEN room[q] ELSE NoSocket]

\* Steps 1 and 2: drop sockets that are not open, and the joining socket's
\* registration under another id.
Pruned(room, w, p) ==
  [q \in PeerId |-> IF /\ room[q] # NoSocket /\ Open(room[q])
                       /\ room[q] = w => q = p
                    THEN room[q] ELSE NoSocket]

\* Mutant: step 3 looks for senders only.
EvictedSenders(room, p) == {q \in Members(room) \ {p} : {p, q} \subseteq TxPeer}

\* Step 3: the peers of p's role that p replaces.
Evicted(room, p) ==
  {q \in Members(room) \ {p} : {p, q} \subseteq RxPeer \/ {p, q} \subseteq TxPeer}

Kept(room, p) == [q \in PeerId |-> IF q \in Evicted(room, p) THEN NoSocket ELSE room[q]]

\* Mutant: step 4 is missing.
NeverFull(room, p) == FALSE

\* Step 4.
Full(room, p) == Cardinality(Members(room)) >= 2 /\ p \notin Members(room)

\* Mutant: the sockets that are replaced stay open.
ReplacedSilently(room, w, p) == {}

\* Steps 3 and 5 close the sockets that lose their place to w.
Replaced(room, w, p) ==
  {room[q] : q \in Evicted(room, p)} \cup ({room[p]} \ {w, NoSocket})

Register(w, s, p, before, kept) ==
  LET room == [kept EXCEPT ![p] = w]
      order == IF kept[p] = w THEN newest[s] ELSE p
      q == OtherPeer(room, order, p)
  IN /\ sock' = [v \in Socket |-> IF v \in Replaced(before, w, p) THEN "closing" ELSE sock[v]]
     /\ ctx' = [ctx EXCEPT ![w] = [session |-> s, peer |-> p]]
     /\ peers' = [peers EXCEPT ![s] = room]
     /\ newest' = [newest EXCEPT ![s] = order]
     /\ paired' = [paired EXCEPT ![s] = @ \/ Cardinality(Members(room)) = 2]
     /\ sent' = LET own(m) == IF Open(w) THEN <<m>> ELSE <<>>
                IN own(Msg("PEER_JOINED", w, NoSocket, p))
                   \o IF q = NoPeer \/ sock'[room[q]] # "open" THEN <<>>
                      ELSE <<Msg("PEER_JOINED", room[q], NoSocket, p)>>
                           \o own(Msg("PEER_JOINED", w, NoSocket, q))

Join(w, s, p, t) ==
  /\ Readable(w) /\ ClientMay(w, "JOIN", s, p) /\ Accepted(s, t)
  /\ Touch(w, s, t)
  /\ UNCHANGED lost
  /\ LET before == Pruned(peers[s], w, p)
         kept == Kept(before, p)
     IN IF Full(kept, p)
        THEN /\ peers' = [peers EXCEPT ![s] = kept]
             /\ sent' = ErrorTo(w)
             /\ UNCHANGED <<sock, ctx, newest, paired>>
        ELSE Register(w, s, p, before, kept)
------------------------------------------------------------------------------
(* Disconnects and timers. *)

\* Deleting a session also drops the data of its entry.
Forget(gone) ==
  /\ token' = [s \in Session |-> IF s \in gone THEN NoToken ELSE token[s]]
  /\ newest' = [s \in Session |-> IF s \in gone THEN NoPeer ELSE newest[s]]
  /\ paired' = [s \in Session |-> IF s \in gone THEN FALSE ELSE paired[s]]

\* Mutant: a room that both peers have left waits for its expiry.
NeverCompleted(s, room) == FALSE

\* Both peers have been there and have left.
Completed(s, room) == Members(room) = {} /\ paired[s]

\* _handlePeerDisconnect(ws.peerContext), for the close and the error event.
Disconnect(w) ==
  IF ctx[w] = NoContext \/ ctx[w].session \notin live
  THEN sent' = <<>> /\ UNCHANGED <<token, roomVars, age, file>>
  ELSE LET s == ctx[w].session
           p == ctx[w].peer
           room == [peers[s] EXCEPT ![p] = NoSocket]
           q == OtherPeer(room, newest[s], p)
           done == Completed(s, room)
       IN /\ peers' = [peers EXCEPT ![s] = room]
          /\ age' = [age EXCEPT ![s] = 0]
          /\ sent' = IF q # NoPeer /\ sock'[room[q]] = "open"
                     THEN <<Msg("PEER_LEFT", room[q], NoSocket, p)>> ELSE <<>>
          /\ Forget(IF done THEN {s} ELSE {})
          /\ IF done THEN Save(file) ELSE UNCHANGED file

\* The object of a closed socket is never read again, so its context is dropped.
CloseEvent(w) ==
  /\ sock[w] \in {"closing", "broken"}
  /\ sock' = [sock EXCEPT ![w] = "closed"]
  /\ ctx' = [ctx EXCEPT ![w] = NoContext]
  /\ Disconnect(w)
  /\ UNCHANGED <<alive, lost>>

\* A frame the receiver cannot parse: 'error' is emitted now, 'close' later.
ErrorEvent(w) ==
  /\ Readable(w)
  /\ sock' = [sock EXCEPT ![w] = "broken"]
  /\ Disconnect(w)
  /\ UNCHANGED <<alive, lost, ctx>>

\* Mutant: isAlive is not reset when a ping is sent.
PingWithoutReset ==
  /\ "heartbeat" \in Timers
  /\ sock' = [w \in Socket |-> IF sock[w] # "closed" /\ ~alive[w] THEN "broken" ELSE sock[w]]
  /\ sent' = <<>>
  /\ UNCHANGED <<alive, lost, ctx, token, roomVars, age, file>>

\* _pingClients: terminate the sockets that have not answered, ping the others.
PingClients ==
  /\ "heartbeat" \in Timers
  /\ sock' = [w \in Socket |-> IF sock[w] # "closed" /\ ~alive[w] THEN "broken" ELSE sock[w]]
  /\ alive' = [w \in Socket |-> IF sock[w] # "closed" THEN FALSE ELSE alive[w]]
  /\ sent' = <<>>
  /\ UNCHANGED <<lost, ctx, token, roomVars, age, file>>

\* Mutant: a session is kept for one sweep too many.
ExpiredLate == {s \in live : age[s] > SessionTimeout}

\* Sessions whose lastActive is too old once another period has passed.
Expired == {s \in live : age[s] + 1 > SessionTimeout}

\* One sweep period passes and _cleanupExpiredSessions runs.
CleanupExpiredSessions ==
  LET lingering == {w \in Socket : Open(w) /\ \E s \in Expired, p \in PeerId : peers[s][p] = w}
  IN /\ "cleanup" \in Timers
     /\ sock' = [w \in Socket |-> IF w \in lingering THEN "closing" ELSE sock[w]]
     /\ Forget(Expired)
     /\ peers' = [s \in Session |-> IF s \in Expired THEN EmptyRoom ELSE peers[s]]
     /\ age' = [s \in Session |-> IF s \in live \ Expired THEN age[s] + 1 ELSE 0]
     /\ Save([s \in Session |-> AgedBy(1, file[s])])
     /\ sent' = <<>>
     /\ UNCHANGED <<alive, lost, ctx>>

\* The process dies and is back after d periods.  A crash in the middle of
\* writeFileSync leaves a file that does not parse, which loads as no session.
Restart(d, torn) ==
  LET left == [s \in Session |-> IF torn THEN Absent ELSE AgedBy(d, file[s])]
      loaded == {s \in Session : left[s] # Absent /\ left[s].age < SessionTimeout}
  IN /\ sock' = [w \in Socket |-> "closed"]
     /\ alive' = [w \in Socket |-> TRUE]
     /\ lost' = {}
     /\ ctx' = [w \in Socket |-> NoContext]
     /\ token' = [s \in Session |-> IF s \in loaded THEN left[s].token ELSE NoToken]
     /\ age' = [s \in Session |-> IF s \in loaded THEN left[s].age ELSE 0]
     /\ peers' = [s \in Session |-> EmptyRoom]
     /\ newest' = [s \in Session |-> NoPeer]
     /\ paired' = [s \in Session |-> FALSE]
     /\ file' = left
     /\ sent' = <<>>

Next ==
  \/ \E s \in Session, t \in IssuedToken : CreateSession(s, t)
  \/ \E w \in Socket :
       \/ Connect(w) \/ ClientClose(w) \/ NetworkLoss(w) \/ Pong(w)
       \/ RejectMessage(w) \/ BinaryFrame(w) \/ CloseEvent(w) \/ ErrorEvent(w)
       \/ \E s \in Session, p \in PeerId, t \in Token :
            Ping(w, s, p, t) \/ Forward(w, s, p, t) \/ Join(w, s, p, t)
  \/ PingClients
  \/ CleanupExpiredSessions
  \/ \E d \in Downtime, torn \in BOOLEAN : Restart(d, torn)

Spec == Init /\ [][Next]_vars

\* The heartbeat interval keeps firing, and the ws library closes every socket
\* the server has closed or terminated.  Clients and the network owe nothing.
FairSpec == Spec /\ WF_vars(PingClients) /\ \A w \in Socket : WF_vars(CloseEvent(w))
------------------------------------------------------------------------------
(* Properties. *)

\* _handleJoin step 4: a room never holds more than two peers, whatever the
\* order of joins, replacements, late closes, expiries and restores.
RoomCapacity == \A s \in Session : Cardinality(Members(peers[s])) <= 2

\* _handleJoin step 3: a room never holds two receivers or two senders.
OnePerRole ==
  \A s \in Session : \A p, q \in Members(peers[s]) :
    ({p, q} \subseteq RxPeer \/ {p, q} \subseteq TxPeer) => p = q

\* _handleMessage's identity check and _getOtherPeer together never hand a
\* message back to the socket that sent it, even after a re-join under a new id.
NoEcho == \A i \in DOMAIN sent : sent[i].type = "FORWARD" => sent[i].to # sent[i].from

\* _handlePeerDisconnect purges a room as soon as both of its peers are gone:
\* a room that has been paired is not left in memory with nobody connected.
EmptyRoomPurged ==
  \A s \in live : paired[s] =>
    \E p \in Members(peers[s]) : sock[peers[s][p]] # "closed"

\* A peer whose JOIN was confirmed stays reachable: as long as its socket is
\* open it is the one registered for its id, so that the counterpart's
\* messages reach it (replacement, expiry and failure close the socket).
JoinedMeansRegistered ==
  \A w \in Socket : Open(w) /\ ctx[w] # NoContext =>
    peers[ctx[w].session][ctx[w].peer] = w

\* The session file is what a restart will load: every session in memory is in
\* it with its token, anything else in it is too old to be loaded, and it lags
\* behind lastActive by less than one sweep.
FileMirrorsMemory ==
  \A s \in Session :
    IF s \in live
    THEN /\ file[s] # Absent
         /\ file[s].token = token[s]
         /\ age[s] > 0 => file[s].age = age[s]
    ELSE file[s] # Absent => file[s].age = SessionTimeout

\* The heartbeat: a connection whose network path died without a close frame is
\* eventually closed, so that its place in the room is given up.
LostSocketReleased ==
  \A w \in Socket :
    w \in lost ~> sock[w] = "closed" /\ \A s \in Session, p \in PeerId : peers[s][p] # w
==============================================================================
