------------------------ MODULE SignalingServerProofs ------------------------
(***************************************************************************)
(* Theorems about SignalingServer, for every set of sockets, sessions and  *)
(* peers and every bound: type correctness, the capacity and the roles of  *)
(* a room, and that no message is echoed to the socket that sent it; that  *)
(* the session file mirrors the memory, unless writing it fails; and, for  *)
(* clients that are pages, that who joined stays registered and that rooms *)
(* both peers have left are purged.                                        *)
(***************************************************************************)
EXTENDS SignalingServer, FiniteSetTheorems, TLAPS

Room == [PeerId -> Socket \cup {NoSocket}]
Entry == [token : Token, age : 0 .. SessionTimeout] \cup {Absent}
------------------------------------------------------------------------------
(* Lemmas about the operators of the model. *)

\* _getOtherPeer returns a member of the room other than p, or nothing.
LEMMA OtherPeerIsMember ==
  ASSUME NEW room \in Room, NEW last, NEW p,
         OtherPeer(room, last, p) # NoPeer
  PROVE  /\ OtherPeer(room, last, p) \in PeerId \ {p}
         /\ room[OtherPeer(room, last, p)] \in Socket
<1> DEFINE others == Members(room) \ {p}
<1>1. others # {}
  BY DEF OtherPeer
<1>2. \E q \in others : q # last \/ others = {q}
  BY <1>1
<1>3. OtherPeer(room, last, p) \in others
  BY <1>1, <1>2 DEF OtherPeer
<1>. QED  BY <1>3 DEF Members, Room

\* One sweep or a restart keeps the age of a persisted entry in range.
LEMMA AgedByType ==
  ASSUME NEW d \in Nat, NEW entry \in Entry
  PROVE  AgedBy(d, entry) \in Entry
<1>1. CASE entry = Absent
  BY <1>1 DEF AgedBy, Entry
<1>2. CASE entry # Absent
  <2>1. entry \in [token : Token, age : 0 .. SessionTimeout]
    BY <1>2 DEF Entry
  <2>2. SessionTimeout \in Nat
    BY ConstantsAssumption
  <2>3. (IF entry.age + d > SessionTimeout THEN SessionTimeout ELSE entry.age + d)
          \in 0 .. SessionTimeout
    BY <2>1, <2>2
  <2>. QED  BY <1>2, <2>1, <2>3 DEF AgedBy, Entry
<1>. QED  BY <1>1, <1>2

\* Whatever is saved is a possible content of the session file.
LEMMA SaveType ==
  ASSUME NEW old, old \in [Session -> Entry],
         token' \in [Session -> Token \cup {NoToken}],
         age' \in [Session -> 0 .. SessionTimeout],
         Save(old)
  PROVE  file' \in [Session -> Entry]
  BY DEF Save, Snapshot, Entry

\* Messages the server sends are well-formed.
LEMMA MsgType ==
  ASSUME NEW type \in {"PEER_JOINED", "PEER_LEFT", "FORWARD", "PONG", "ERROR"},
         NEW to \in Socket, NEW from \in Socket \cup {NoSocket},
         NEW p \in PeerId \cup {NoPeer}
  PROVE  Msg(type, to, from, p) \in Message
  BY DEF Msg, Message

\* One value of a set, or none, is a sequence over the set.
LEMMA ShortSequences ==
  ASSUME NEW S, NEW m \in S
  PROVE  <<m>> \in Seq(S) /\ <<>> \in Seq(S)
  OBVIOUS

\* An ERROR reply is a sequence of messages.
LEMMA ErrorToType ==
  ASSUME NEW w \in Socket
  PROVE  ErrorTo(w) \in Seq(Message)
  BY MsgType DEF ErrorTo
------------------------------------------------------------------------------
(* Type correctness. *)

\* The types hold initially.
LEMMA InitType == Init => TypeOK
<1>1. 0 \in 0 .. SessionTimeout
  BY ConstantsAssumption
<1>. QED  BY <1>1 DEF Init, TypeOK, SocketState, EmptyRoom

\* A JOIN keeps the types of the rooms, the sockets and what is sent.
LEMMA JoinType ==
  ASSUME TypeOK, NEW w \in Socket, NEW s \in Session, NEW p \in PeerId, NEW t \in Token,
         Join(w, s, p, t)
  PROVE  TypeOK'
<1> DEFINE before == Pruned(peers[s], w, p)
           kept == Kept(before, p)
           room == [kept EXCEPT ![p] = w]
<1>. USE ConstantsAssumption
<1>1. /\ token' \in [Session -> Token \cup {NoToken}]
      /\ age' \in [Session -> 0 .. SessionTimeout]
      /\ alive' \in [Socket -> BOOLEAN]
  BY DEF Join, Touch, TypeOK
<1>2. file' \in [Session -> Entry]
  <2>1. file \in [Session -> Entry]
    BY DEF TypeOK, Entry
  <2>. QED  BY <1>1, <2>1, SaveType DEF Join, Touch
<1>3. before \in Room /\ kept \in Room
  BY DEF Pruned, Kept, Room, TypeOK
<1>4. CASE Full(kept, p)
  <2>1. /\ peers' = [peers EXCEPT ![s] = kept]
        /\ sent' = ErrorTo(w)
        /\ UNCHANGED <<sock, ctx, newest, paired, lost>>
    BY <1>4 DEF Join
  <2>2. sent' \in Seq(Message)
    BY <2>1, ErrorToType
  <2>. QED  BY <1>1, <1>2, <1>3, <2>1, <2>2 DEF TypeOK, Entry, Room
<1>5. CASE ~Full(kept, p)
  <2>1. Register(w, s, p, before, kept) /\ UNCHANGED lost
    BY <1>5 DEF Join
  <2> DEFINE order == IF kept[p] = w THEN newest[s] ELSE p
             q == OtherPeer(room, order, p)
             own(m) == IF Open(w) THEN <<m>> ELSE <<>>
  <2>2. /\ sock' \in [Socket -> SocketState]
        /\ ctx' \in [Socket -> Context \cup {NoContext}]
        /\ peers' \in [Session -> Room]
        /\ newest' \in [Session -> PeerId \cup {NoPeer}]
        /\ paired' \in [Session -> BOOLEAN]
    BY <1>3, <2>1 DEF Register, TypeOK, Room, SocketState, Context
  <2>3. sent' \in Seq(Message)
    <3>1. own(Msg("PEER_JOINED", w, NoSocket, p)) \in Seq(Message)
      BY MsgType
    <3>2. CASE q = NoPeer \/ sock'[room[q]] # "open"
      <4>1. sent' = own(Msg("PEER_JOINED", w, NoSocket, p)) \o <<>>
        BY <2>1, <3>2 DEF Register
      <4>. HIDE DEF own, q, room
      <4>. QED  BY <3>1, <4>1
    <3>3. CASE ~(q = NoPeer \/ sock'[room[q]] # "open")
      <4>1. room \in Room
        BY <1>3 DEF Room
      <4>2. q \in PeerId /\ room[q] \in Socket
        BY <3>3, <4>1, OtherPeerIsMember
      <4>3. /\ <<Msg("PEER_JOINED", room[q], NoSocket, p)>> \in Seq(Message)
            /\ own(Msg("PEER_JOINED", w, NoSocket, q)) \in Seq(Message)
        BY <4>2, MsgType
      <4>4. sent' = own(Msg("PEER_JOINED", w, NoSocket, p))
                    \o (<<Msg("PEER_JOINED", room[q], NoSocket, p)>>
                        \o own(Msg("PEER_JOINED", w, NoSocket, q)))
        BY <2>1, <3>3 DEF Register
      <4>. HIDE DEF own, q, room
      <4>. QED  BY <3>1, <4>3, <4>4
    <3>. QED  BY <3>2, <3>3
  <2>. QED  BY <1>1, <1>2, <2>1, <2>2, <2>3 DEF TypeOK, Entry, Room
<1>. QED  BY <1>4, <1>5

\* So does a message that is forwarded or refused.
LEMMA ForwardType ==
  ASSUME TypeOK, NEW w \in Socket, NEW s \in Session, NEW p \in PeerId, NEW t \in Token,
         Forward(w, s, p, t)
  PROVE  TypeOK'
<1> DEFINE q == OtherPeer(peers[s], newest[s], p)
           v == peers[s][q]
<1>. USE ConstantsAssumption
<1>1. /\ token' \in [Session -> Token \cup {NoToken}]
      /\ age' \in [Session -> 0 .. SessionTimeout]
      /\ alive' \in [Socket -> BOOLEAN]
  BY DEF Forward, Touch, TypeOK
<1>2. file' \in [Session -> Entry]
  <2>1. file \in [Session -> Entry]
    BY DEF TypeOK, Entry
  <2>. QED  BY <1>1, <2>1, SaveType DEF Forward, Touch
<1>3. sent' \in Seq(Message)
  <2>1. CASE ctx[w] = [session |-> s, peer |-> p] /\ q # NoPeer /\ Open(v)
    <3>1. peers[s] \in Room
      BY DEF TypeOK, Room
    <3>2. v \in Socket
      BY <2>1, <3>1, OtherPeerIsMember
    <3>3. <<Msg("FORWARD", v, w, p)>> \in Seq(Message)
      BY <3>2, MsgType
    <3>. QED  BY <2>1, <3>3 DEF Forward
  <2>2. CASE ~(ctx[w] = [session |-> s, peer |-> p] /\ q # NoPeer /\ Open(v))
    BY <2>2, ErrorToType DEF Forward
  <2>. QED  BY <2>1, <2>2
<1>. QED  BY <1>1, <1>2, <1>3 DEF Forward, TypeOK, Entry, roomVars

\* So does a disconnect, which may purge the room.
LEMMA DisconnectType ==
  ASSUME TypeOK, NEW w \in Socket, Disconnect(w)
  PROVE  /\ token' \in [Session -> Token \cup {NoToken}]
         /\ peers' \in [Session -> Room]
         /\ newest' \in [Session -> PeerId \cup {NoPeer}]
         /\ paired' \in [Session -> BOOLEAN]
         /\ age' \in [Session -> 0 .. SessionTimeout]
         /\ file' \in [Session -> Entry]
         /\ sent' \in Seq(Message)
<1>1. CASE ctx[w] = NoContext \/ ctx[w].session \notin live
  <2>1. sent' = <<>> /\ UNCHANGED <<token, peers, newest, paired, age, file>>
    BY <1>1 DEF Disconnect, roomVars
  <2>2. sent' \in Seq(Message)
    BY <2>1
  <2>. QED  BY <2>1, <2>2 DEF TypeOK, Room, Entry
<1>2. CASE ~(ctx[w] = NoContext \/ ctx[w].session \notin live)
  <2> DEFINE s == ctx[w].session
             p == ctx[w].peer
             room == [peers[s] EXCEPT ![p] = NoSocket]
             q == OtherPeer(room, newest[s], p)
  <2>1. s \in Session /\ p \in PeerId
    BY <1>2 DEF TypeOK, Context
  <2>2. room \in Room
    BY <2>1 DEF TypeOK, Room
  <2>3. /\ peers' = [peers EXCEPT ![s] = room]
        /\ age' = [age EXCEPT ![s] = 0]
        /\ sent' = IF q # NoPeer /\ sock'[room[q]] = "open"
                   THEN <<Msg("PEER_LEFT", room[q], NoSocket, p)>> ELSE <<>>
        /\ Forget(IF Completed(s, room) THEN {s} ELSE {})
        /\ IF Completed(s, room) THEN Save(file) ELSE UNCHANGED file
    BY <1>2 DEF Disconnect
  <2>4. /\ token' \in [Session -> Token \cup {NoToken}]
        /\ newest' \in [Session -> PeerId \cup {NoPeer}]
        /\ paired' \in [Session -> BOOLEAN]
    BY <2>3 DEF Forget, TypeOK
  <2>5. age' \in [Session -> 0 .. SessionTimeout]
    BY <2>1, <2>3, ConstantsAssumption DEF TypeOK
  <2>6. file' \in [Session -> Entry]
    <3>1. file \in [Session -> Entry]
      BY DEF TypeOK, Entry
    <3>. QED  BY <2>3, <2>4, <2>5, <3>1, SaveType
  <2>7. sent' \in Seq(Message)
    <3> DEFINE left == Msg("PEER_LEFT", room[q], NoSocket, p)
    <3>1. sent' = <<>> \/ (q # NoPeer /\ sent' = <<left>>)
      BY <2>3
    <3>2. ASSUME q # NoPeer PROVE left \in Message
      <4>1. room[q] \in Socket
        BY <2>2, <3>2, OtherPeerIsMember
      <4>. QED  BY <2>1, <4>1, MsgType
    <3>3. CASE sent' = <<>>
      BY <3>3
    <3>4. CASE q # NoPeer /\ sent' = <<left>>
      <4>1. left \in Message
        BY <3>2, <3>4
      <4>. HIDE DEF left
      <4>. QED  BY <3>4, <4>1, ShortSequences, Zenon
    <3>. QED  BY <3>1, <3>3, <3>4
  <2>8. peers' \in [Session -> Room]
    BY <2>1, <2>2, <2>3 DEF TypeOK, Room
  <2>. QED  BY <2>4, <2>5, <2>6, <2>7, <2>8
<1>. QED  BY <1>1, <1>2

\* Every step keeps the types.
LEMMA NextType == TypeOK /\ [Next]_vars => TypeOK'
<1> SUFFICES ASSUME TypeOK, [Next]_vars PROVE TypeOK'
  OBVIOUS
<1>. USE ConstantsAssumption
<1>file. file \in [Session -> Entry]
  BY DEF TypeOK, Entry
<1>empty. <<>> \in Seq(Message)
  OBVIOUS
<1>1. ASSUME NEW s \in Session, NEW t \in IssuedToken, CreateSession(s, t)
      PROVE  TypeOK'
  <2>1. /\ token' \in [Session -> Token \cup {NoToken}]
        /\ age' \in [Session -> 0 .. SessionTimeout]
    BY <1>1 DEF CreateSession, TypeOK
  <2>2. file' \in [Session -> Entry]
    BY <1>1, <1>file, <2>1, SaveType DEF CreateSession
  <2>. QED  BY <1>1, <1>empty, <2>1, <2>2 DEF CreateSession, TypeOK, Entry, sockVars, roomVars
<1>2. ASSUME NEW w \in Socket, Connect(w) PROVE TypeOK'
  BY <1>2, <1>empty DEF Connect, TypeOK, SocketState, roomVars
<1>3. ASSUME NEW w \in Socket, ClientClose(w) \/ NetworkLoss(w) \/ Pong(w)
      PROVE  TypeOK'
  <2>1. CASE ClientClose(w)
    BY <2>1, <1>empty DEF ClientClose, TypeOK, SocketState, roomVars
  <2>2. CASE NetworkLoss(w)
    BY <2>2, <1>empty DEF NetworkLoss, TypeOK, roomVars
  <2>3. CASE Pong(w)
    BY <2>3, <1>empty DEF Pong, TypeOK, roomVars
  <2>. QED  BY <1>3, <2>1, <2>2, <2>3
<1>4. ASSUME NEW w \in Socket, RejectMessage(w) \/ BinaryFrame(w)
      PROVE  TypeOK'
  <2>1. ErrorTo(w) \in Seq(Message)
    BY ErrorToType
  <2>. QED  BY <1>4, <2>1 DEF RejectMessage, BinaryFrame, TypeOK, SocketState, sockVars, roomVars
<1>5. ASSUME NEW w \in Socket, NEW s \in Session, NEW p \in PeerId, NEW t \in Token,
             Ping(w, s, p, t)
      PROVE  TypeOK'
  <2>1. /\ token' \in [Session -> Token \cup {NoToken}]
        /\ age' \in [Session -> 0 .. SessionTimeout]
        /\ alive' \in [Socket -> BOOLEAN]
    BY <1>5 DEF Ping, Touch, TypeOK
  <2>2. file' \in [Session -> Entry]
    BY <1>5, <1>file, <2>1, SaveType DEF Ping, Touch
  <2>3. <<Msg("PONG", w, NoSocket, NoPeer)>> \in Seq(Message)
    BY MsgType
  <2>. QED  BY <1>5, <1>empty, <2>1, <2>2, <2>3 DEF Ping, TypeOK, Entry, roomVars
<1>6. ASSUME NEW w \in Socket, CloseEvent(w) \/ ErrorEvent(w) PROVE TypeOK'
  <2>1. Disconnect(w)
    BY <1>6 DEF CloseEvent, ErrorEvent
  <2>. HIDE DEF Disconnect
  <2>2. /\ sock' \in [Socket -> SocketState]
        /\ ctx' \in [Socket -> Context \cup {NoContext}]
        /\ UNCHANGED <<alive, lost>>
    BY <1>6 DEF CloseEvent, ErrorEvent, TypeOK, SocketState
  <2>. QED  BY <2>1, <2>2, DisconnectType DEF TypeOK, Room, Entry
<1>7. CASE PingClients
  BY <1>7, <1>empty DEF PingClients, TypeOK, SocketState, roomVars
<1>8. CASE CleanupExpiredSessions
  <2>1. /\ token' \in [Session -> Token \cup {NoToken}]
        /\ newest' \in [Session -> PeerId \cup {NoPeer}]
        /\ paired' \in [Session -> BOOLEAN]
        /\ peers' \in [Session -> Room]
        /\ sock' \in [Socket -> SocketState]
    BY <1>8 DEF CleanupExpiredSessions, Forget, EmptyRoom, TypeOK, Room, SocketState
  <2>2. age' \in [Session -> 0 .. SessionTimeout]
    <3>1. ASSUME NEW s \in live \ Expired PROVE age[s] + 1 \in 0 .. SessionTimeout
      BY DEF Expired, live, TypeOK
    <3>. QED  BY <1>8, <3>1 DEF CleanupExpiredSessions
  <2>3. [s \in Session |-> AgedBy(1, file[s])] \in [Session -> Entry]
    BY <1>file, AgedByType
  <2>4. file' \in [Session -> Entry]
    BY <1>8, <2>1, <2>2, <2>3, SaveType DEF CleanupExpiredSessions
  <2>. QED  BY <1>8, <1>empty, <2>1, <2>2, <2>4 DEF CleanupExpiredSessions, TypeOK, Entry, Room
<1>9. ASSUME NEW d \in Downtime, NEW torn \in BOOLEAN, Restart(d, torn) PROVE TypeOK'
  <2> DEFINE left == [s \in Session |-> IF torn THEN Absent ELSE AgedBy(d, file[s])]
             loaded == {s \in Session : left[s] # Absent /\ left[s].age < SessionTimeout}
  <2>1. left \in [Session -> Entry]
    BY <1>file, AgedByType DEF Entry
  <2>2. \A s \in loaded : left[s].token \in Token /\ left[s].age \in 0 .. SessionTimeout
    BY <2>1 DEF Entry
  <2>3. /\ sock' = [w \in Socket |-> "closed"]
        /\ alive' = [w \in Socket |-> TRUE]
        /\ lost' = {}
        /\ ctx' = [w \in Socket |-> NoContext]
        /\ token' = [s \in Session |-> IF s \in loaded THEN left[s].token ELSE NoToken]
        /\ age' = [s \in Session |-> IF s \in loaded THEN left[s].age ELSE 0]
        /\ peers' = [s \in Session |-> EmptyRoom]
        /\ newest' = [s \in Session |-> NoPeer]
        /\ paired' = [s \in Session |-> FALSE]
        /\ file' = left
        /\ sent' = <<>>
    BY <1>9 DEF Restart
  <2>. HIDE DEF left, loaded
  <2>4. loaded \subseteq Session
    BY DEF loaded
  <2>. QED  BY <1>empty, <2>1, <2>2, <2>3, <2>4 DEF TypeOK, SocketState, EmptyRoom, Entry
<1>10. CASE UNCHANGED vars
  BY <1>10 DEF vars, sockVars, roomVars, TypeOK
<1>. QED
  BY <1>1, <1>2, <1>3, <1>4, <1>5, <1>6, <1>7, <1>8, <1>9, <1>10, JoinType, ForwardType DEF Next

\* Every variable of the server keeps its type, whatever clients send and
\* whenever it restarts: no handler stores an undefined peer, socket or token.
THEOREM TypeCorrect == Spec => []TypeOK
<1>1. Init => TypeOK
  BY InitType
<1>2. TypeOK /\ [Next]_vars => TypeOK'
  BY NextType
<1>. QED  BY <1>1, <1>2, PTL DEF Spec
------------------------------------------------------------------------------
(* The rooms. *)

\* What a handler may do to the rooms: take peers out of them, or, for a JOIN,
\* put w in the place p that the steps before registration have left for it.
Shrunk(old, new) == \A q \in PeerId : new[q] \in {old[q], NoSocket}

Seated(w, s, p) ==
  LET kept == Kept(Pruned(peers[s], w, p), p)
  IN ~Full(kept, p) /\ peers' = [peers EXCEPT ![s] = [kept EXCEPT ![p] = w]]

\* What a JOIN keeps of a room is a part of it: no entry appears or changes.
LEMMA KeptShrinks ==
  ASSUME NEW room \in Room, NEW w, NEW p
  PROVE  /\ Shrunk(room, Kept(Pruned(room, w, p), p))
         /\ Kept(Pruned(room, w, p), p) \in Room
  BY DEF Shrunk, Kept, Pruned, Room

SomeJoin ==
  \E w \in Socket, s \in Session, p \in PeerId, t \in Token : Join(w, s, p, t)

\* Every handler but that of a JOIN takes peers out of the rooms, and changes the
\* context of a socket only by dropping it.
LEMMA StepWithoutJoin ==
  ASSUME TypeOK, [Next]_vars, ~SomeJoin
  PROVE  /\ \A s \in Session : Shrunk(peers[s], peers'[s])
         /\ \A w \in Socket : ctx'[w] \in {ctx[w], NoContext}
<1>. DEFINE Fewer == \A s \in Session : Shrunk(peers[s], peers'[s])
            Dropped == \A w \in Socket : ctx'[w] \in {ctx[w], NoContext}
<1>1. (peers' = peers => Fewer) /\ (ctx' = ctx => Dropped)
  BY DEF Shrunk
<1>2. (\A s \in Session : peers'[s] \in {peers[s], EmptyRoom}) => Fewer
  BY DEF Shrunk, EmptyRoom
<1>3. ASSUME NEW w \in Socket, Disconnect(w) PROVE Fewer
  <2>1. CASE ctx[w] = NoContext \/ ctx[w].session \notin live
    BY <1>1, <1>3, <2>1 DEF Disconnect, roomVars
  <2>2. CASE ~(ctx[w] = NoContext \/ ctx[w].session \notin live)
    <3> DEFINE s == ctx[w].session
               p == ctx[w].peer
    <3>1. peers' = [peers EXCEPT ![s] = [peers[s] EXCEPT ![p] = NoSocket]]
      BY <1>3, <2>2 DEF Disconnect
    <3>. QED  BY <3>1 DEF Shrunk, TypeOK
  <2>. QED  BY <2>1, <2>2
<1>4. ASSUME NEW w \in Socket, CloseEvent(w) \/ ErrorEvent(w) PROVE Fewer /\ Dropped
  <2>1. Fewer
    BY <1>3, <1>4 DEF CloseEvent, ErrorEvent
  <2>2. Dropped
    BY <1>4 DEF CloseEvent, ErrorEvent, TypeOK
  <2>. QED  BY <2>1, <2>2
<1>5. CleanupExpiredSessions => Fewer /\ Dropped
  BY <1>1, <1>2 DEF CleanupExpiredSessions
<1>6. ASSUME NEW d \in Downtime, NEW torn \in BOOLEAN, Restart(d, torn) PROVE Fewer /\ Dropped
  BY <1>2, <1>6 DEF Restart
<1>7. ASSUME NEW s \in Session, NEW t \in IssuedToken, CreateSession(s, t)
      PROVE  Fewer /\ Dropped
  BY <1>1, <1>7 DEF CreateSession, roomVars, sockVars
<1>8. ASSUME NEW w \in Socket,
             ClientClose(w) \/ NetworkLoss(w) \/ Pong(w) \/ RejectMessage(w) \/ BinaryFrame(w)
      PROVE  Fewer /\ Dropped
  BY <1>1, <1>8 DEF ClientClose, NetworkLoss, Pong, RejectMessage, BinaryFrame, roomVars, sockVars
<1>9. ASSUME NEW w \in Socket, Connect(w) PROVE Fewer /\ Dropped
  BY <1>1, <1>9 DEF Connect, roomVars, TypeOK
<1>10. ASSUME NEW w \in Socket, NEW s \in Session, NEW p \in PeerId, NEW t \in Token,
              Ping(w, s, p, t) \/ Forward(w, s, p, t)
       PROVE  Fewer /\ Dropped
  BY <1>1, <1>10 DEF Ping, Forward, roomVars
<1>11. PingClients \/ UNCHANGED vars => Fewer /\ Dropped
  BY <1>1 DEF PingClients, vars, roomVars, sockVars
<1>12. Fewer /\ Dropped
  <2>. HIDE DEF Fewer, Dropped
  <2>. QED
    BY <1>4, <1>5, <1>6, <1>7, <1>8, <1>9, <1>10, <1>11 DEF Next, SomeJoin
<1>. QED  BY <1>12

\* A JOIN adds at most one peer, to the room it names.
LEMMA RoomStep ==
  ASSUME TypeOK, [Next]_vars
  PROVE  \/ \A s \in Session : Shrunk(peers[s], peers'[s])
         \/ \E w \in Socket, s \in Session, p \in PeerId : Seated(w, s, p)
<1>1. CASE ~SomeJoin
  BY <1>1, StepWithoutJoin
<1>2. ASSUME NEW w \in Socket, NEW s \in Session, NEW p \in PeerId, NEW t \in Token,
             Join(w, s, p, t)
      PROVE  Seated(w, s, p) \/ \A u \in Session : Shrunk(peers[u], peers'[u])
  <2> DEFINE kept == Kept(Pruned(peers[s], w, p), p)
  <2>1. CASE Full(kept, p)
    <3>1. peers' = [peers EXCEPT ![s] = kept]
      BY <1>2, <2>1 DEF Join
    <3>2. peers[s] \in Room
      BY DEF TypeOK, Room
    <3>3. Shrunk(peers[s], kept)
      BY <3>2, KeptShrinks
    <3>. QED  BY <3>1, <3>3 DEF Shrunk, TypeOK
  <2>2. CASE ~Full(kept, p)
    BY <1>2, <2>2 DEF Join, Register, Seated
  <2>. QED  BY <2>1, <2>2
<1>. QED  BY <1>1, <1>2 DEF SomeJoin
------------------------------------------------------------------------------
\* _handleJoin step 3, for any number of peers and sockets: replacing the holder
\* of the role keeps every room at one sender and one receiver.
THEOREM RolesAreExclusive == Spec => []OnePerRole
<1>1. Init => OnePerRole
  BY DEF Init, OnePerRole, Members, EmptyRoom
<1>2. TypeOK /\ OnePerRole /\ [Next]_vars => OnePerRole'
  <2>. SUFFICES ASSUME TypeOK, OnePerRole, [Next]_vars PROVE OnePerRole'
    OBVIOUS
  <2>1. CASE \A s \in Session : Shrunk(peers[s], peers'[s])
    BY <2>1 DEF OnePerRole, Members, Shrunk
  <2>2. ASSUME NEW w \in Socket, NEW s \in Session, NEW p \in PeerId, Seated(w, s, p)
        PROVE  OnePerRole'
    <3> DEFINE before == Pruned(peers[s], w, p)
               kept == Kept(before, p)
    <3>1. peers' = [peers EXCEPT ![s] = [kept EXCEPT ![p] = w]]
      BY <2>2 DEF Seated
    <3>2. Shrunk(peers[s], kept) /\ kept \in Room
      <4>1. peers[s] \in Room
        BY DEF TypeOK, Room
      <4>. QED  BY <4>1, KeptShrinks
    <3>3. \A q \in Members(kept) \ {p} : ~({p, q} \subseteq RxPeer \/ {p, q} \subseteq TxPeer)
      BY DEF Kept, Members, Evicted
    <3>. HIDE DEF kept
    <3>4. \A q \in Members(peers'[s]) : q = p \/ q \in Members(kept)
      BY <3>1, <3>2 DEF Members, TypeOK, Room
    <3>5. Members(kept) \subseteq Members(peers[s])
      BY <3>2 DEF Members, Shrunk
    <3>6. \A q, r \in Members(peers'[s]) :
            ({q, r} \subseteq RxPeer \/ {q, r} \subseteq TxPeer) => q = r
      BY <3>3, <3>4, <3>5 DEF OnePerRole
    <3>7. \A u \in Session \ {s} : peers'[u] = peers[u]
      BY <3>1 DEF TypeOK
    <3>. QED  BY <3>6, <3>7 DEF OnePerRole
  <2>3. \/ \A s \in Session : Shrunk(peers[s], peers'[s])
        \/ \E w \in Socket, s \in Session, p \in PeerId : Seated(w, s, p)
    BY RoomStep
  <2>. HIDE DEF OnePerRole
  <2>. QED  BY <2>1, <2>2, <2>3
<1>. QED  BY <1>1, <1>2, TypeCorrect, PTL DEF Spec

\* Finiteness of the rooms is what makes their capacity inductive.
SmallRooms ==
  \A s \in Session : IsFiniteSet(Members(peers[s])) /\ Cardinality(Members(peers[s])) <= 2

\* It is inductive.
LEMMA RoomsStaySmall == Spec => []SmallRooms
<1>1. Init => SmallRooms
  <2>. SUFFICES ASSUME Init, NEW s \in Session
                PROVE  IsFiniteSet(Members(peers[s])) /\ Cardinality(Members(peers[s])) <= 2
    BY DEF SmallRooms
  <2>1. Members(peers[s]) = {}
    BY DEF Init, Members, EmptyRoom
  <2>. QED  BY <2>1, FS_EmptySet
<1>2. TypeOK /\ SmallRooms /\ [Next]_vars => SmallRooms'
  <2>. SUFFICES ASSUME TypeOK, SmallRooms, [Next]_vars, NEW s \in Session
                PROVE  /\ IsFiniteSet(Members(peers'[s]))
                       /\ Cardinality(Members(peers'[s])) <= 2
    BY DEF SmallRooms
  <2>1. ASSUME NEW room, Shrunk(peers[s], room)
        PROVE  /\ IsFiniteSet(Members(room))
               /\ Cardinality(Members(room)) \in Nat
               /\ Cardinality(Members(room)) <= 2
    <3>1. Members(room) \subseteq Members(peers[s])
      BY <2>1 DEF Members, Shrunk
    <3>2. IsFiniteSet(Members(peers[s])) /\ Cardinality(Members(peers[s])) <= 2
      BY DEF SmallRooms
    <3>3. /\ IsFiniteSet(Members(room))
          /\ Cardinality(Members(room)) <= Cardinality(Members(peers[s]))
      BY <3>1, <3>2, FS_Subset
    <3>4. Cardinality(Members(room)) \in Nat /\ Cardinality(Members(peers[s])) \in Nat
      BY <3>2, <3>3, FS_CardinalityType
    <3>. QED  BY <3>2, <3>3, <3>4
  <2>2. CASE \A u \in Session : Shrunk(peers[u], peers'[u])
    BY <2>1, <2>2
  <2>3. ASSUME NEW w \in Socket, NEW u \in Session, NEW p \in PeerId, Seated(w, u, p)
        PROVE  /\ IsFiniteSet(Members(peers'[s]))
               /\ Cardinality(Members(peers'[s])) <= 2
    <3> DEFINE kept == Kept(Pruned(peers[u], w, p), p)
    <3>1. ~Full(kept, p) /\ peers' = [peers EXCEPT ![u] = [kept EXCEPT ![p] = w]]
      BY <2>3 DEF Seated
    <3>2. Shrunk(peers[u], kept) /\ kept \in Room
      <4>1. peers[u] \in Room
        BY DEF TypeOK, Room
      <4>. QED  BY <4>1, KeptShrinks
    <3>. HIDE DEF kept
    <3>3. CASE s = u
      <4>1. Members(peers'[s]) = Members(kept) \cup {p}
        BY <3>1, <3>2, <3>3, ConstantsAssumption DEF Members, TypeOK, Room
      <4>2. /\ IsFiniteSet(Members(kept))
            /\ Cardinality(Members(kept)) \in Nat
            /\ Cardinality(Members(kept)) <= 2
        BY <2>1, <3>2, <3>3
      <4>3. p \in Members(kept) \/ Cardinality(Members(kept)) < 2
        BY <3>1, <4>2 DEF Full
      <4>4. /\ IsFiniteSet(Members(kept) \cup {p})
            /\ p \in Members(kept) => Cardinality(Members(kept) \cup {p}) = Cardinality(Members(kept))
            /\ p \notin Members(kept) => Cardinality(Members(kept) \cup {p}) = Cardinality(Members(kept)) + 1
        BY <4>2, FS_AddElement
      <4>. QED  BY <4>1, <4>2, <4>3, <4>4
    <3>4. CASE s # u
      <4>1. peers'[s] = peers[s]
        BY <3>1, <3>4 DEF TypeOK
      <4>. QED  BY <4>1 DEF SmallRooms
    <3>. QED  BY <3>3, <3>4
  <2>4. \/ \A u \in Session : Shrunk(peers[u], peers'[u])
        \/ \E w \in Socket, u \in Session, p \in PeerId : Seated(w, u, p)
    BY RoomStep
  <2>. QED  BY <2>2, <2>3, <2>4
<1>. QED  BY <1>1, <1>2, TypeCorrect, PTL DEF Spec

\* _handleJoin step 4, for any number of peers and sockets: the test against two
\* peers after the two replacement steps keeps every room at two peers or fewer.
THEOREM CapacityIsKept == Spec => []RoomCapacity
<1>1. SmallRooms => RoomCapacity
  BY DEF SmallRooms, RoomCapacity
<1>. QED  BY <1>1, RoomsStaySmall, PTL
------------------------------------------------------------------------------
(* No message is echoed to its sender. *)

NotForwarded(msgs) == \A i \in DOMAIN msgs : msgs[i].type # "FORWARD"

\* A socket is registered in the session of its latest JOIN under the id of that
\* JOIN only: step 2 removes what an earlier JOIN has left.
OneIdPerSocket ==
  \A s \in Session, q \in PeerId, w \in Socket :
    peers[s][q] = w /\ ctx[w] # NoContext /\ ctx[w].session = s => ctx[w].peer = q

\* Replies and notices are not forwarded messages.
LEMMA ReplyNotForwarded ==
  ASSUME NEW w, NEW type \in {"PEER_JOINED", "PEER_LEFT", "PONG", "ERROR"},
         NEW to, NEW from, NEW p
  PROVE  /\ NotForwarded(<<Msg(type, to, from, p)>>)
         /\ NotForwarded(ErrorTo(w))
         /\ NotForwarded(<<>>)
  BY DEF NotForwarded, Msg, ErrorTo

\* Replies one after the other forward nothing.
LEMMA ConcatNotForwarded ==
  ASSUME NEW m \in Seq(Message), NEW n \in Seq(Message), NotForwarded(m), NotForwarded(n)
  PROVE  NotForwarded(m \o n)
<1> SUFFICES ASSUME NEW i \in DOMAIN (m \o n) PROVE (m \o n)[i].type # "FORWARD"
  BY DEF NotForwarded
<1>1. CASE i <= Len(m)
  <2>1. i \in DOMAIN m /\ (m \o n)[i] = m[i]
    BY <1>1
  <2>. QED  BY <2>1 DEF NotForwarded
<1>2. CASE ~(i <= Len(m))
  <2>1. i - Len(m) \in DOMAIN n /\ (m \o n)[i] = n[i - Len(m)]
    BY <1>2
  <2>. QED  BY <2>1 DEF NotForwarded
<1>. QED  BY <1>1, <1>2

\* A JOIN is answered and announced, never forwarded.
LEMMA JoinNotForwarded ==
  ASSUME TypeOK, NEW w \in Socket, NEW s \in Session, NEW p \in PeerId, NEW t \in Token,
         Join(w, s, p, t)
  PROVE  NotForwarded(sent')
<1> DEFINE kept == Kept(Pruned(peers[s], w, p), p)
           room == [kept EXCEPT ![p] = w]
           q == OtherPeer(room, IF kept[p] = w THEN newest[s] ELSE p, p)
           own(m) == IF Open(w) THEN <<m>> ELSE <<>>
           answer == own(Msg("PEER_JOINED", w, NoSocket, p))
           notice == <<Msg("PEER_JOINED", room[q], NoSocket, p)>>
           other == own(Msg("PEER_JOINED", w, NoSocket, q))
<1>. USE ConstantsAssumption
<1>1. CASE Full(kept, p)
  BY <1>1, ReplyNotForwarded DEF Join
<1>2. CASE ~Full(kept, p)
  <2>1. room \in Room
    <3>1. peers[s] \in Room
      BY DEF TypeOK, Room
    <3>2. kept \in Room
      BY <3>1, KeptShrinks
    <3>. QED  BY <3>2 DEF Room
  <2>2. answer \in Seq(Message) /\ NotForwarded(answer)
    BY MsgType, ReplyNotForwarded
  <2>3. sent' = answer \o <<>> \/ (q # NoPeer /\ sent' = answer \o (notice \o other))
    BY <1>2 DEF Join, Register
  <2>4. CASE sent' = answer \o <<>>
    <3>. HIDE DEF answer
    <3>1. <<>> \in Seq(Message) /\ NotForwarded(<<>>)
      BY DEF NotForwarded
    <3>. QED  BY <2>2, <2>4, <3>1, ConcatNotForwarded
  <2>5. CASE q # NoPeer /\ sent' = answer \o (notice \o other)
    <3>1. q \in PeerId /\ room[q] \in Socket
      BY <2>1, <2>5, OtherPeerIsMember
    <3>2. notice \in Seq(Message) /\ NotForwarded(notice)
      BY <3>1, MsgType, ReplyNotForwarded
    <3>3. other \in Seq(Message) /\ NotForwarded(other)
      BY <3>1, MsgType, ReplyNotForwarded
    <3>. HIDE DEF answer, notice, other
    <3>4. notice \o other \in Seq(Message) /\ NotForwarded(notice \o other)
      BY <3>2, <3>3, ConcatNotForwarded
    <3>. QED  BY <2>2, <2>5, <3>4, ConcatNotForwarded
  <2>. QED  BY <2>3, <2>4, <2>5
<1>. QED  BY <1>1, <1>2

\* Contexts and registrations change together.
LEMMA OneIdPerSocketStep ==
  ASSUME TypeOK, OneIdPerSocket, [Next]_vars
  PROVE  OneIdPerSocket'
<1>. USE ConstantsAssumption
<1>1. ASSUME NEW w \in Socket, NEW s \in Session, NEW p \in PeerId, NEW t \in Token,
             Join(w, s, p, t)
      PROVE  OneIdPerSocket'
  <2> DEFINE before == Pruned(peers[s], w, p)
             kept == Kept(before, p)
  <2>1. Shrunk(peers[s], kept) /\ kept \in Room
    <3>1. peers[s] \in Room
      BY DEF TypeOK, Room
    <3>. QED  BY <3>1, KeptShrinks
  <2>2. \A q \in PeerId : kept[q] = w => q = p
    BY DEF Kept, Pruned
  <2>3. CASE Full(kept, p)
    <3>1. peers' = [peers EXCEPT ![s] = kept] /\ ctx' = ctx
      BY <1>1, <2>3 DEF Join
    <3>. HIDE DEF kept
    <3>2. \A u \in Session, q \in PeerId : peers'[u][q] \in {peers[u][q], NoSocket}
      BY <2>1, <3>1 DEF Shrunk, TypeOK
    <3>. QED  BY <3>1, <3>2 DEF OneIdPerSocket
  <2>4. CASE ~Full(kept, p)
    <3>1. /\ peers' = [peers EXCEPT ![s] = [kept EXCEPT ![p] = w]]
          /\ ctx' = [ctx EXCEPT ![w] = [session |-> s, peer |-> p]]
      BY <1>1, <2>4 DEF Join, Register
    <3>. HIDE DEF kept
    <3> SUFFICES ASSUME NEW u \in Session, NEW q \in PeerId, NEW v \in Socket,
                        peers'[u][q] = v, ctx'[v] # NoContext, ctx'[v].session = u
                 PROVE  ctx'[v].peer = q
      BY DEF OneIdPerSocket
    <3>2. CASE v = w
      <4>1. u = s /\ ctx'[v].peer = p
        BY <3>1, <3>2 DEF TypeOK
      <4>2. [kept EXCEPT ![p] = w][q] = w
        BY <3>1, <3>2, <4>1 DEF TypeOK
      <4>3. q = p
        BY <2>1, <2>2, <4>2 DEF Room
      <4>. QED  BY <4>1, <4>3
    <3>3. CASE v # w
      <4>1. ctx'[v] = ctx[v]
        BY <3>1, <3>3 DEF TypeOK
      <4>2. peers[u][q] = v
        <5>1. CASE u # s
          BY <3>1, <5>1 DEF TypeOK
        <5>2. CASE u = s
          <6>1. [kept EXCEPT ![p] = w][q] = v
            BY <3>1, <5>2 DEF TypeOK
          <6>2. kept[q] = v
            BY <2>1, <3>3, <6>1 DEF Room
          <6>. QED  BY <2>1, <5>2, <6>2 DEF Shrunk
        <5>. QED  BY <5>1, <5>2
      <4>. QED  BY <4>1, <4>2 DEF OneIdPerSocket
    <3>. QED  BY <3>2, <3>3
  <2>. QED  BY <2>3, <2>4
<1>2. CASE ~SomeJoin
  BY <1>2, StepWithoutJoin DEF OneIdPerSocket, Shrunk
<1>. HIDE DEF OneIdPerSocket
<1>. QED  BY <1>1, <1>2 DEF SomeJoin

\* A forwarded message goes to another peer's socket, and that is another socket.
LEMMA ForwardNotEchoed ==
  ASSUME TypeOK, OneIdPerSocket,
         NEW w \in Socket, NEW s \in Session, NEW p \in PeerId, NEW t \in Token,
         Forward(w, s, p, t)
  PROVE  NoEcho'
<1> DEFINE q == OtherPeer(peers[s], newest[s], p)
           v == peers[s][q]
<1>1. CASE ctx[w] = [session |-> s, peer |-> p] /\ q # NoPeer /\ Open(v)
  <2>1. peers[s] \in Room
    BY DEF TypeOK, Room
  <2>2. q \in PeerId \ {p} /\ v \in Socket
    BY <1>1, <2>1, OtherPeerIsMember
  <2>3. ctx[w] # NoContext /\ ctx[w].session = s /\ ctx[w].peer = p
    BY <1>1, ConstantsAssumption
  <2>4. v # w
    BY <2>2, <2>3 DEF OneIdPerSocket
  <2>5. sent' = <<Msg("FORWARD", v, w, p)>>
    BY <1>1 DEF Forward
  <2>. HIDE DEF v, q
  <2>. QED  BY <2>4, <2>5 DEF NoEcho, Msg
<1>2. CASE ~(ctx[w] = [session |-> s, peer |-> p] /\ q # NoPeer /\ Open(v))
  BY <1>2, ReplyNotForwarded DEF Forward, NoEcho, NotForwarded
<1>. QED  BY <1>1, <1>2

\* The identity check of _handleMessage and _getOtherPeer: no message is handed
\* back to the socket it came from, whatever ids its client has joined under.
THEOREM NothingIsEchoed == Spec => []NoEcho
<1>1. Init => OneIdPerSocket /\ NoEcho
  BY ConstantsAssumption DEF Init, OneIdPerSocket, NoEcho
<1>2. TypeOK /\ OneIdPerSocket /\ [Next]_vars => OneIdPerSocket'
  BY OneIdPerSocketStep
<1>3. TypeOK /\ OneIdPerSocket /\ NoEcho /\ [Next]_vars => NoEcho'
  <2>. SUFFICES ASSUME TypeOK, OneIdPerSocket, NoEcho, [Next]_vars PROVE NoEcho'
    OBVIOUS
  <2>1. (sent' = <<>> \/ NotForwarded(sent') \/ sent' = sent) => NoEcho'
    BY DEF NoEcho, NotForwarded
  <2>2. ASSUME NEW s \in Session, NEW t \in IssuedToken, CreateSession(s, t) PROVE NoEcho'
    BY <2>1, <2>2 DEF CreateSession
  <2>3. ASSUME NEW w \in Socket,
               Connect(w) \/ ClientClose(w) \/ NetworkLoss(w) \/ Pong(w)
        PROVE  NoEcho'
    BY <2>1, <2>3 DEF Connect, ClientClose, NetworkLoss, Pong
  <2>4. ASSUME NEW w \in Socket, RejectMessage(w) \/ BinaryFrame(w) PROVE NoEcho'
    BY <2>1, <2>4, ReplyNotForwarded DEF RejectMessage, BinaryFrame
  <2>5. ASSUME NEW w \in Socket, NEW s \in Session, NEW p \in PeerId, NEW t \in Token,
               Ping(w, s, p, t)
        PROVE  NoEcho'
    BY <2>1, <2>5, ReplyNotForwarded DEF Ping
  <2>6. ASSUME NEW w \in Socket, NEW s \in Session, NEW p \in PeerId, NEW t \in Token,
               Join(w, s, p, t)
        PROVE  NoEcho'
    BY <2>1, <2>6, JoinNotForwarded
  <2>7. ASSUME NEW w \in Socket, CloseEvent(w) \/ ErrorEvent(w) PROVE NoEcho'
    <3>1. Disconnect(w)
      BY <2>7 DEF CloseEvent, ErrorEvent
    <3>2. NotForwarded(sent')
      <4>1. \/ sent' = <<>>
            \/ \E to, p : sent' = <<Msg("PEER_LEFT", to, NoSocket, p)>>
        BY <3>1 DEF Disconnect
      <4>2. NotForwarded(<<>>)
        BY DEF NotForwarded
      <4>. QED  BY <4>1, <4>2, ReplyNotForwarded
    <3>. QED  BY <2>1, <3>2
  <2>8. PingClients \/ CleanupExpiredSessions \/ UNCHANGED vars => NoEcho'
    BY <2>1 DEF PingClients, CleanupExpiredSessions, vars
  <2>9. ASSUME NEW d \in Downtime, NEW torn \in BOOLEAN, Restart(d, torn) PROVE NoEcho'
    BY <2>1, <2>9 DEF Restart
  <2>. HIDE DEF NoEcho
  <2>. QED
    BY <2>2, <2>3, <2>4, <2>5, <2>6, <2>7, <2>8, <2>9, ForwardNotEchoed DEF Next
<1>. QED  BY <1>1, <1>2, <1>3, TypeCorrect, PTL DEF Spec
------------------------------------------------------------------------------
(* The session file. *)

\* A write that does not fail makes the file the image of the sessions Map ...
LEMMA SavedMirrors ==
  ASSUME TypeOK', ~WriteMayFail, NEW old, Save(old)
  PROVE  FileMirrorsMemory'
<1>1. file' = Snapshot(token', age')
  BY DEF Save
<1>2. ASSUME NEW s \in Session, token'[s] # NoToken
      PROVE  [token |-> token'[s], age |-> age'[s]] # Absent
  <2>1. token'[s] \in Token /\ age'[s] \in Nat
    BY <1>2, ConstantsAssumption DEF TypeOK
  <2>. QED  BY <2>1, ConstantsAssumption
<1>. QED  BY <1>1, <1>2 DEF FileMirrorsMemory, Snapshot, live

\* ... and one that is not needed leaves it so: ages are only reset meanwhile.
LEMMA UnsavedMirrors ==
  ASSUME FileMirrorsMemory, TypeOK', UNCHANGED <<token, file>>,
         \A s \in Session : age'[s] \in {age[s], 0}
  PROVE  FileMirrorsMemory'
<1>1. ~(0 > 0)
  OBVIOUS
<1>. QED  BY <1>1 DEF FileMirrorsMemory, live

\* As long as no write fails, the file holds what a restart must load: each session
\* of the server with its token, and as recently used as in memory but for the time
\* since the last sweep.
THEOREM FileIsMirror == ASSUME ~WriteMayFail PROVE Spec => []FileMirrorsMemory
<1>1. Init => FileMirrorsMemory
  BY DEF Init, FileMirrorsMemory, live
<1>2. TypeOK /\ TypeOK' /\ FileMirrorsMemory /\ [Next]_vars => FileMirrorsMemory'
  <2> SUFFICES ASSUME TypeOK, TypeOK', FileMirrorsMemory, [Next]_vars
               PROVE  FileMirrorsMemory'
    OBVIOUS
  <2>1. ASSUME NEW s \in Session, NEW t \in IssuedToken, CreateSession(s, t)
        PROVE  FileMirrorsMemory'
    BY <2>1, SavedMirrors DEF CreateSession
  <2>2. ASSUME UNCHANGED <<token, age, file>> PROVE FileMirrorsMemory'
    BY <2>2, UnsavedMirrors
  <2>3. ASSUME NEW w \in Socket, NEW s \in Session, NEW t \in Token, Accepted(s, t), Touch(w, s, t)
        PROVE  FileMirrorsMemory'
    <3>1. CASE s \in live
      <4>1. UNCHANGED <<token, file>>
        BY <2>3, <3>1 DEF Accepted, Touch, TypeOK
      <4>2. \A u \in Session : age'[u] \in {age[u], 0}
        BY <2>3 DEF Touch, TypeOK
      <4>. QED  BY <4>1, <4>2, UnsavedMirrors
    <3>2. CASE s \notin live
      BY <2>3, <3>2, SavedMirrors DEF Touch
    <3>. QED  BY <3>1, <3>2
  <2>4. ASSUME NEW w \in Socket, Disconnect(w) PROVE FileMirrorsMemory'
    <3> DEFINE s == ctx[w].session
               room == [peers[s] EXCEPT ![ctx[w].peer] = NoSocket]
    <3>1. CASE ctx[w] = NoContext \/ s \notin live
      BY <2>2, <2>4, <3>1 DEF Disconnect
    <3>2. CASE ~(ctx[w] = NoContext \/ s \notin live) /\ Completed(s, room)
      BY <2>4, <3>2, SavedMirrors DEF Disconnect
    <3>3. CASE ~(ctx[w] = NoContext \/ s \notin live) /\ ~Completed(s, room)
      <4>1. /\ age' = [age EXCEPT ![s] = 0] /\ Forget({}) /\ file' = file
        BY <2>4, <3>3 DEF Disconnect
      <4>2. token' = token /\ \A u \in Session : age'[u] \in {age[u], 0}
        BY <4>1 DEF Forget, TypeOK
      <4>. QED  BY <4>1, <4>2, UnsavedMirrors
    <3>. QED  BY <3>1, <3>2, <3>3
  <2>5. CASE CleanupExpiredSessions
    BY <2>5, SavedMirrors DEF CleanupExpiredSessions
  <2>6. ASSUME NEW d \in Downtime, NEW torn \in BOOLEAN, Restart(d, torn)
        PROVE  FileMirrorsMemory'
    <3> DEFINE loaded == {s \in Session : file'[s] # Absent /\ file'[s].age < SessionTimeout}
    <3>1. \A s \in Session : file'[s] # Absent =>
            file'[s].token \in Token /\ file'[s].age \in 0 .. SessionTimeout
      BY DEF TypeOK
    <3>2. /\ token' = [s \in Session |-> IF s \in loaded THEN file'[s].token ELSE NoToken]
          /\ age' = [s \in Session |-> IF s \in loaded THEN file'[s].age ELSE 0]
      BY <2>6 DEF Restart
    <3>3. \A s \in Session : s \in live' <=> s \in loaded
      BY <3>1, <3>2, ConstantsAssumption DEF live
    <3>4. ASSUME NEW s \in Session, s \notin loaded, file'[s] # Absent
          PROVE  file'[s].age = SessionTimeout
      BY <3>1, <3>4, ConstantsAssumption
    <3>5. \A s \in loaded : file'[s] # Absent /\ token'[s] = file'[s].token /\ age'[s] = file'[s].age
      BY <3>2
    <3>. HIDE DEF loaded
    <3>. QED  BY <3>3, <3>4, <3>5 DEF FileMirrorsMemory
  <2>7. ASSUME NEW w \in Socket,
               \/ Connect(w) \/ ClientClose(w) \/ NetworkLoss(w) \/ Pong(w)
               \/ RejectMessage(w) \/ BinaryFrame(w) \/ CloseEvent(w) \/ ErrorEvent(w)
        PROVE  FileMirrorsMemory'
    BY <2>2, <2>4, <2>7 DEF Connect, ClientClose, NetworkLoss, Pong, RejectMessage, BinaryFrame,
                            CloseEvent, ErrorEvent
  <2>8. ASSUME NEW w \in Socket, NEW s \in Session, NEW p \in PeerId, NEW t \in Token,
               Ping(w, s, p, t) \/ Forward(w, s, p, t) \/ Join(w, s, p, t)
        PROVE  FileMirrorsMemory'
    BY <2>3, <2>8 DEF Ping, Forward, Join
  <2>9. PingClients \/ UNCHANGED vars => FileMirrorsMemory'
    BY <2>2 DEF PingClients, vars
  <2>. QED  BY <2>1, <2>5, <2>6, <2>7, <2>8, <2>9 DEF Next
<1>. QED  BY <1>1, <1>2, TypeCorrect, PTL DEF Spec
------------------------------------------------------------------------------
(* The rooms, when all clients are pages of the application. *)

\* No two connections are those of one peer.
OwnPeer ==
  \A v, w \in Socket :
    ctx[v] # NoContext /\ ctx[w] # NoContext /\ ctx[v].peer = ctx[w].peer => v = w

\* Who is registered in a room has joined it, and is there until its close event.
RegisteredAsJoined ==
  \A s \in Session, p \in PeerId, w \in Socket : peers[s][p] = w =>
    ctx[w] = [session |-> s, peer |-> p] /\ sock[w] # "closed" /\ s \in live

\* A room that has been paired is not left empty.
PairedNotEmpty == \A s \in Session : paired[s] => Members(peers[s]) # {}

\* The rooms as a page relies on them.
RoomInv ==
  OwnPeer /\ RegisteredAsJoined /\ PairedNotEmpty /\ JoinedMeansRegistered

\* A handler that leaves rooms and contexts alone, and opens or frees no socket.
LEMMA RoomsAlike ==
  ASSUME TypeOK, RoomInv, UNCHANGED <<ctx, peers, paired>>, live \subseteq live',
         \A w \in Socket : sock'[w] \in {sock[w], "broken", "closing"} /\
                           (sock'[w] # "closed" <=> sock[w] # "closed")
  PROVE  RoomInv'
<1>1. \A w \in Socket : sock'[w] = "open" => sock[w] = "open"
  OBVIOUS
<1>2. OwnPeer' /\ PairedNotEmpty'
  BY DEF RoomInv, OwnPeer, PairedNotEmpty
<1>3. RegisteredAsJoined'
  BY DEF RoomInv, RegisteredAsJoined
<1>4. JoinedMeansRegistered'
  BY <1>1 DEF RoomInv, JoinedMeansRegistered, Open
<1>. QED  BY <1>2, <1>3, <1>4 DEF RoomInv

\* An accepted message leaves the server with no fewer sessions, and with its own.
LEMMA TouchKeepsLive ==
  ASSUME TypeOK, NEW w \in Socket, NEW s \in Session, NEW t \in Token, Touch(w, s, t)
  PROVE  live \subseteq live' /\ s \in live'
  BY ConstantsAssumption DEF Touch, TypeOK, live

\* A room that is full keeps everybody: nobody was replaced on the way to step 4.
LEMMA FullKeepsAll ==
  ASSUME TypeOK, SmallRooms, NEW s \in Session, NEW w \in Socket, NEW p \in PeerId,
         Full(Kept(Pruned(peers[s], w, p), p), p)
  PROVE  Kept(Pruned(peers[s], w, p), p) = peers[s]
<1> DEFINE kept == Kept(Pruned(peers[s], w, p), p)
<1>1. peers[s] \in Room
  BY DEF TypeOK, Room
<1>2. Shrunk(peers[s], kept) /\ kept \in Room
  BY <1>1, KeptShrinks
<1>. HIDE DEF kept
<1>3. Members(kept) \subseteq Members(peers[s])
  BY <1>2 DEF Shrunk, Members
<1>4. IsFiniteSet(Members(peers[s])) /\ Cardinality(Members(peers[s])) <= 2
  BY DEF SmallRooms
<1>5. /\ IsFiniteSet(Members(kept))
      /\ Cardinality(Members(kept)) <= Cardinality(Members(peers[s]))
      /\ Cardinality(Members(peers[s])) = Cardinality(Members(kept)) =>
           Members(peers[s]) = Members(kept)
  BY <1>3, <1>4, FS_Subset
<1>6. Cardinality(Members(kept)) \in Nat /\ Cardinality(Members(peers[s])) \in Nat
  BY <1>4, <1>5, FS_CardinalityType
<1>7. Cardinality(Members(kept)) >= 2
  BY DEF Full, kept
<1>8. Members(kept) = Members(peers[s])
  BY <1>4, <1>5, <1>6, <1>7
<1>9. \A q \in PeerId : kept[q] = peers[s][q]
  BY <1>2, <1>8 DEF Members, Shrunk
<1>10. kept = peers[s]
  BY <1>1, <1>2, <1>9 DEF Room
<1>. QED  BY <1>10 DEF kept

\* A context is a record of a session and a peer.
LEMMA ContextIs ==
  ASSUME NEW s \in Session, NEW p \in PeerId
  PROVE  /\ [session |-> s, peer |-> p] # NoContext
         /\ [session |-> s, peer |-> p].session = s /\ [session |-> s, peer |-> p].peer = p
<1>1. [session |-> s, peer |-> p] \in [session : Session, peer : PeerId]
  OBVIOUS
<1>. QED  BY <1>1, ConstantsAssumption

\* A JOIN of a page: the peer is new, and so is the connection.
LEMMA JoinRooms ==
  ASSUME AppClients, TypeOK, RoomInv, SmallRooms,
         NEW w \in Socket, NEW s \in Session, NEW p \in PeerId, NEW t \in Token, Join(w, s, p, t)
  PROVE  RoomInv'
<1> DEFINE before == Pruned(peers[s], w, p)
           kept == Kept(before, p)
<1>1. ctx[w] = NoContext /\ \A v \in Socket : ctx[v] # NoContext => ctx[v].peer # p
  BY DEF Join, ClientMay
<1>2. \A u \in Session, q \in PeerId : peers[u][q] # w
  <2>1. ASSUME NEW u \in Session, NEW q \in PeerId, peers[u][q] = w PROVE FALSE
    <3>1. ctx[w] = [session |-> u, peer |-> q]
      BY <2>1 DEF RoomInv, RegisteredAsJoined
    <3>. QED  BY <1>1, <3>1, ContextIs
  <2>. QED  BY <2>1
<1>3. live \subseteq live' /\ s \in live'
  BY TouchKeepsLive DEF Join
<1>4. sock[w] \in {"open", "closing"}
  BY DEF Join, Readable
<1>5. peers[s] \in Room /\ Shrunk(peers[s], kept) /\ kept \in Room
  <2>1. peers[s] \in Room
    BY DEF TypeOK, Room
  <2>. QED  BY <2>1, KeptShrinks
<1>6. CASE Full(kept, p)
  <2>1. kept = peers[s]
    BY <1>6, FullKeepsAll
  <2>2. /\ peers' = [peers EXCEPT ![s] = kept]
        /\ UNCHANGED <<sock, ctx, paired>>
    BY <1>6 DEF Join
  <2>3. peers' = peers
    BY <2>1, <2>2 DEF TypeOK
  <2>. QED  BY <1>3, <2>2, <2>3, RoomsAlike
<1>7. CASE ~Full(kept, p)
  <2> DEFINE room == [kept EXCEPT ![p] = w]
             context == [session |-> s, peer |-> p]
  <2>1. /\ sock' = [v \in Socket |-> IF v \in Replaced(before, w, p) THEN "closing" ELSE sock[v]]
        /\ ctx' = [ctx EXCEPT ![w] = context]
        /\ peers' = [peers EXCEPT ![s] = room]
        /\ paired' = [paired EXCEPT ![s] = @ \/ Cardinality(Members(room)) = 2]
    BY <1>7 DEF Join, Register
  <2>2. ASSUME NEW u \in Session, NEW q \in PeerId, ~(u = s /\ q = p)
        PROVE  peers'[u][q] \in {peers[u][q], NoSocket}
    <3>. HIDE DEF kept
    <3>. QED  BY <1>5, <2>1, <2>2 DEF Shrunk, TypeOK, Room
  <2>3. peers'[s][p] = w
    <3>. HIDE DEF kept
    <3>. QED  BY <1>5, <2>1 DEF TypeOK, Room
  <2>4. ctx'[w] = context /\ \A v \in Socket \ {w} : ctx'[v] = ctx[v]
    BY <2>1 DEF TypeOK
  <2>5. \A v \in Socket : sock'[v] \in {sock[v], "closing"}
    BY <2>1
  <2>6. context.session = s /\ context.peer = p /\ w # NoSocket
    BY ContextIs, ConstantsAssumption
  <2>. HIDE DEF context
  <2>7. OwnPeer'
    BY <1>1, <2>4, <2>6 DEF RoomInv, OwnPeer
  <2>8. RegisteredAsJoined'
    <3> SUFFICES ASSUME NEW u \in Session, NEW q \in PeerId, NEW v \in Socket, peers'[u][q] = v
                 PROVE  ctx'[v] = [session |-> u, peer |-> q] /\ sock'[v] # "closed" /\ u \in live'
      BY DEF RegisteredAsJoined
    <3>1. CASE u = s /\ q = p
      BY <1>3, <1>4, <2>3, <2>4, <2>5, <3>1 DEF context
    <3>2. CASE ~(u = s /\ q = p)
      <4>1. peers[u][q] = v
        BY <2>2, <3>2, ConstantsAssumption
      <4>2. v # w
        BY <1>2, <4>1
      <4>. QED  BY <1>3, <2>4, <2>5, <4>1, <4>2 DEF RoomInv, RegisteredAsJoined
    <3>. QED  BY <3>1, <3>2
  <2>9. PairedNotEmpty'
    <3>1. p \in Members(peers'[s])
      BY <2>3, <2>6 DEF Members
    <3>2. \A u \in Session \ {s} : peers'[u] = peers[u] /\ paired'[u] = paired[u]
      BY <2>1 DEF TypeOK
    <3>. QED  BY <3>1, <3>2 DEF RoomInv, PairedNotEmpty
  <2>10. JoinedMeansRegistered'
    <3> SUFFICES ASSUME NEW v \in Socket, sock'[v] = "open", ctx'[v] # NoContext
                 PROVE  peers'[ctx'[v].session][ctx'[v].peer] = v
      BY DEF JoinedMeansRegistered, Open
    <3>1. CASE v = w
      BY <2>3, <2>4, <2>6, <3>1
    <3>2. CASE v # w
      <4> DEFINE u == ctx[v].session
                 q == ctx[v].peer
      <4>1. ctx'[v] = ctx[v] /\ ctx[v] # NoContext /\ u \in Session /\ q \in PeerId /\ q # p
        BY <1>1, <2>4, <3>2 DEF TypeOK, Context
      <4>2. sock[v] = "open" /\ v \notin Replaced(before, w, p)
        BY <2>1
      <4>3. peers[u][q] = v
        BY <4>1, <4>2 DEF RoomInv, JoinedMeansRegistered, Open
      <4>. HIDE DEF u, q
      <4>4. CASE u = s
        <5>1. before[q] = v /\ v # NoSocket
          BY <3>2, <4>1, <4>2, <4>3, <4>4, ConstantsAssumption DEF Pruned, Open
        <5>2. q \notin Evicted(before, p)
          BY <4>2, <5>1 DEF Replaced
        <5>3. kept[q] = v
          BY <4>1, <5>1, <5>2 DEF Kept
        <5>4. peers'[s][q] = kept[q]
          <6>. HIDE DEF kept
          <6>. QED  BY <1>5, <2>1, <4>1 DEF TypeOK, Room
        <5>. QED  BY <4>1, <4>4, <5>3, <5>4 DEF u, q
      <4>5. CASE u # s
        <5>1. peers'[u] = peers[u]
          BY <2>1, <4>1, <4>5 DEF TypeOK
        <5>. QED  BY <4>1, <4>3, <5>1 DEF u, q
      <4>. QED  BY <4>4, <4>5
    <3>. QED  BY <3>1, <3>2
  <2>. QED  BY <2>7, <2>8, <2>9, <2>10 DEF RoomInv
<1>. QED  BY <1>6, <1>7

\* A disconnect takes the connection out of its room, and nobody else.
LEMMA DisconnectRooms ==
  ASSUME TypeOK, RoomInv, NEW w \in Socket, Disconnect(w),
         sock'[w] \in {"closed", "broken"}, sock'[w] = "closed" => ctx'[w] = NoContext,
         ctx'[w] \in {ctx[w], NoContext},
         \A v \in Socket \ {w} : sock'[v] = sock[v] /\ ctx'[v] = ctx[v]
  PROVE  RoomInv'
<1> DEFINE s == ctx[w].session
           p == ctx[w].peer
           room == [peers[s] EXCEPT ![p] = NoSocket]
           joined == ctx[w] # NoContext /\ s \in live
<1>1. joined => /\ s \in Session /\ p \in PeerId
                /\ peers' = [peers EXCEPT ![s] = room]
                /\ Forget(IF Completed(s, room) THEN {s} ELSE {})
  BY DEF Disconnect, TypeOK, Context
<1>2. ~joined => UNCHANGED <<peers, paired, token>>
  BY DEF Disconnect, roomVars
<1>. USE ConstantsAssumption
<1>3. ASSUME NEW u \in Session, NEW q \in PeerId
      PROVE  IF peers[u][q] = w THEN peers'[u][q] = NoSocket ELSE peers'[u][q] = peers[u][q]
  <2>1. CASE peers[u][q] = w
    <3>1. ctx[w] = [session |-> u, peer |-> q] /\ u \in live
      BY <2>1 DEF RoomInv, RegisteredAsJoined
    <3>2. joined /\ u = s /\ q = p
      BY <3>1, ContextIs
    <3>. QED  BY <1>1, <2>1, <3>2 DEF TypeOK
  <2>2. CASE peers[u][q] # w
    <3>1. CASE joined /\ u = s /\ q = p
      <4>1. peers[u][q] = NoSocket
        <5>1. ASSUME peers[u][q] \in Socket PROVE FALSE
          <6>1. ctx[peers[u][q]] = [session |-> u, peer |-> q]
            BY <5>1 DEF RoomInv, RegisteredAsJoined
          <6>2. ctx[peers[u][q]] # NoContext /\ ctx[peers[u][q]].peer = p
            BY <3>1, <6>1, ContextIs
          <6>. QED  BY <2>2, <3>1, <5>1, <6>2 DEF RoomInv, OwnPeer
        <5>. QED  BY <5>1 DEF TypeOK
      <4>. QED  BY <1>1, <3>1, <4>1 DEF TypeOK
    <3>2. CASE ~joined
      BY <1>2, <2>2, <3>2
    <3>3. CASE joined /\ u # s
      <4>. HIDE DEF room
      <4>. QED  BY <1>1, <2>2, <3>3 DEF TypeOK
    <3>4. CASE joined /\ u = s /\ q # p
      BY <1>1, <2>2, <3>4 DEF TypeOK
    <3>. QED  BY <3>1, <3>2, <3>3, <3>4
  <2>. QED  BY <2>1, <2>2
<1>4. ASSUME NEW u \in Session
      PROVE  /\ u \in live /\ Members(peers'[u]) # {} => u \in live'
             /\ paired'[u] => paired[u] /\ Members(peers'[u]) # {}
  <2>1. CASE ~joined \/ u # s
    <3>1. peers'[u] = peers[u] /\ paired'[u] = paired[u] /\ token'[u] = token[u]
      <4>1. CASE ~joined
        BY <1>2, <4>1
      <4>2. CASE joined /\ u # s
        <5>. HIDE DEF room
        <5>1. peers'[u] = peers[u]
          BY <1>1, <4>2 DEF TypeOK
        <5>2. PICK gone \in SUBSET {s} : Forget(gone)
          BY <1>1, <4>2
        <5>. QED  BY <4>2, <5>1, <5>2 DEF Forget
      <4>. QED  BY <2>1, <4>1, <4>2
    <3>. QED  BY <3>1 DEF RoomInv, PairedNotEmpty, live
  <2>2. CASE joined /\ u = s
    <3>1. peers'[s] = room
      BY <1>1, <2>2 DEF TypeOK
    <3>. HIDE DEF room
    <3>2. CASE Completed(s, room)
      BY <1>1, <2>2, <3>1, <3>2 DEF Forget, Completed
    <3>3. CASE ~Completed(s, room)
      <4>1. paired'[s] = paired[s] /\ token'[s] = token[s]
        BY <1>1, <2>2, <3>3 DEF Forget
      <4>. QED  BY <2>2, <3>1, <3>3, <4>1 DEF Completed, live
    <3>. QED  BY <2>2, <3>2, <3>3
  <2>. QED  BY <2>1, <2>2
<1>5. OwnPeer'
  BY DEF RoomInv, OwnPeer
<1>6. RegisteredAsJoined'
  <2> SUFFICES ASSUME NEW u \in Session, NEW q \in PeerId, NEW v \in Socket, peers'[u][q] = v
               PROVE  ctx'[v] = [session |-> u, peer |-> q] /\ sock'[v] # "closed" /\ u \in live'
    BY DEF RegisteredAsJoined
  <2>1. v # w /\ peers[u][q] = v
    BY <1>3
  <2>2. q \in Members(peers'[u])
    BY DEF Members
  <2>. QED  BY <1>4, <2>1, <2>2 DEF RoomInv, RegisteredAsJoined
<1>7. PairedNotEmpty'
  BY <1>4 DEF PairedNotEmpty
<1>8. JoinedMeansRegistered'
  <2> SUFFICES ASSUME NEW v \in Socket, sock'[v] = "open", ctx'[v] # NoContext
               PROVE  peers'[ctx'[v].session][ctx'[v].peer] = v
    BY DEF JoinedMeansRegistered, Open
  <2>1. v # w /\ ctx'[v] = ctx[v] /\ sock[v] = "open"
    OBVIOUS
  <2>2. ctx[v].session \in Session /\ ctx[v].peer \in PeerId
    BY <2>1 DEF TypeOK, Context
  <2>3. peers[ctx[v].session][ctx[v].peer] = v
    BY <2>1 DEF RoomInv, JoinedMeansRegistered, Open
  <2>. QED  BY <1>3, <2>1, <2>2, <2>3
<1>. QED  BY <1>5, <1>6, <1>7, <1>8 DEF RoomInv

\* Every step of a server whose clients are pages keeps its rooms so.
LEMMA RoomInvStep ==
  ASSUME AppClients, TypeOK, RoomInv, SmallRooms, [Next]_vars
  PROVE  RoomInv'
<1>. USE ConstantsAssumption
<1>1. ASSUME NEW s \in Session, NEW t \in IssuedToken, CreateSession(s, t) PROVE RoomInv'
  <2>1. live \subseteq live'
    BY <1>1 DEF CreateSession, TypeOK, live
  <2>. QED  BY <1>1, <2>1, RoomsAlike DEF CreateSession, sockVars, roomVars
<1>2. ASSUME NEW w \in Socket, Connect(w) PROVE RoomInv'
  <2>1. /\ sock[w] = "closed" /\ \A s \in Session, p \in PeerId : peers[s][p] # w
        /\ UNCHANGED <<token, peers, paired>> /\ ctx'[w] = NoContext
        /\ \A v \in Socket \ {w} : sock'[v] = sock[v] /\ ctx'[v] = ctx[v]
    BY <1>2 DEF Connect, roomVars, TypeOK
  <2>2. OwnPeer' /\ PairedNotEmpty'
    BY <2>1 DEF RoomInv, OwnPeer, PairedNotEmpty
  <2>3. RegisteredAsJoined'
    BY <2>1 DEF RoomInv, RegisteredAsJoined, live
  <2>4. JoinedMeansRegistered'
    BY <2>1 DEF RoomInv, JoinedMeansRegistered, Open
  <2>. QED  BY <2>2, <2>3, <2>4 DEF RoomInv
<1>3. ASSUME NEW w \in Socket, ClientClose(w) \/ BinaryFrame(w) PROVE RoomInv'
  <2>1. sock[w] \in {"open", "closing"} /\ UNCHANGED <<ctx, peers, paired, token>>
    BY <1>3 DEF ClientClose, BinaryFrame, Readable, roomVars
  <2>2. \A v \in Socket : IF v = w THEN sock'[v] \in {"broken", "closing"} ELSE sock'[v] = sock[v]
    BY <1>3 DEF ClientClose, BinaryFrame, TypeOK
  <2>. QED  BY <2>1, <2>2, RoomsAlike DEF live
<1>4. ASSUME UNCHANGED <<sock, ctx, peers, paired, token>> PROVE RoomInv'
  BY <1>4, RoomsAlike DEF live
<1>5. ASSUME NEW w \in Socket, NetworkLoss(w) \/ Pong(w) \/ RejectMessage(w) PROVE RoomInv'
  BY <1>4, <1>5 DEF NetworkLoss, Pong, RejectMessage, sockVars, roomVars
<1>6. ASSUME NEW w \in Socket, NEW s \in Session, NEW p \in PeerId, NEW t \in Token,
             Ping(w, s, p, t) \/ Forward(w, s, p, t)
      PROVE  RoomInv'
  <2>1. Touch(w, s, t) /\ UNCHANGED <<sock, ctx, peers, paired>>
    BY <1>6 DEF Ping, Forward, roomVars
  <2>. QED  BY <2>1, TouchKeepsLive, RoomsAlike
<1>7. ASSUME NEW w \in Socket, CloseEvent(w) \/ ErrorEvent(w) PROVE RoomInv'
  <2>1. /\ Disconnect(w) /\ sock'[w] \in {"closed", "broken"}
        /\ sock'[w] = "closed" => ctx'[w] = NoContext
        /\ ctx'[w] \in {ctx[w], NoContext}
        /\ \A v \in Socket \ {w} : sock'[v] = sock[v] /\ ctx'[v] = ctx[v]
    BY <1>7 DEF CloseEvent, ErrorEvent, TypeOK
  <2>. QED  BY <2>1, DisconnectRooms
<1>8. CASE PingClients
  <2>1. UNCHANGED <<ctx, peers, paired, token>>
    BY <1>8 DEF PingClients, roomVars
  <2>2. \A w \in Socket : IF sock[w] = "closed" THEN sock'[w] = "closed"
                          ELSE sock'[w] \in {sock[w], "broken"}
    BY <1>8 DEF PingClients
  <2>. QED  BY <2>1, <2>2, RoomsAlike DEF live
<1>9. CASE CleanupExpiredSessions
  <2> DEFINE lingering ==
               {w \in Socket : Open(w) /\ \E s \in Expired, p \in PeerId : peers[s][p] = w}
  <2>1. /\ sock' = [w \in Socket |-> IF w \in lingering THEN "closing" ELSE sock[w]]
        /\ peers' = [s \in Session |-> IF s \in Expired THEN EmptyRoom ELSE peers[s]]
        /\ Forget(Expired) /\ ctx' = ctx
    BY <1>9 DEF CleanupExpiredSessions
  <2>2. \A s \in Session \ Expired : token'[s] = token[s] /\ peers'[s] = peers[s]
                                    /\ paired'[s] = paired[s]
    BY <2>1 DEF Forget
  <2>3. \A s \in Expired : ~paired'[s] /\ \A p \in PeerId : peers'[s][p] = NoSocket
    BY <2>1 DEF Forget, EmptyRoom, Expired, live
  <2>4. \A w \in Socket : /\ sock'[w] \in {sock[w], "closing"}
                          /\ sock'[w] = "open" => Open(w) /\ w \notin lingering
    BY <2>1 DEF Open
  <2>5. OwnPeer' /\ PairedNotEmpty'
    BY <2>1, <2>2, <2>3 DEF RoomInv, OwnPeer, PairedNotEmpty
  <2>6. RegisteredAsJoined'
    <3> SUFFICES ASSUME NEW s \in Session, NEW p \in PeerId, NEW w \in Socket, peers'[s][p] = w
                 PROVE  ctx'[w] = [session |-> s, peer |-> p] /\ sock'[w] # "closed" /\ s \in live'
      BY DEF RegisteredAsJoined
    <3>1. s \notin Expired
      BY <2>3
    <3>2. peers[s][p] = w /\ token'[s] = token[s]
      BY <2>2, <3>1
    <3>. QED  BY <2>1, <2>4, <3>2 DEF RoomInv, RegisteredAsJoined, live
  <2>7. JoinedMeansRegistered'
    <3> SUFFICES ASSUME NEW w \in Socket, sock'[w] = "open", ctx[w] # NoContext
                 PROVE  peers'[ctx[w].session][ctx[w].peer] = w
      BY <2>1 DEF JoinedMeansRegistered, Open
    <3>1. ctx[w].session \in Session /\ ctx[w].peer \in PeerId
      BY DEF TypeOK, Context
    <3>2. peers[ctx[w].session][ctx[w].peer] = w
      BY <2>4 DEF RoomInv, JoinedMeansRegistered
    <3>3. ctx[w].session \notin Expired
      BY <2>4, <3>1, <3>2
    <3>. QED  BY <2>2, <3>1, <3>2, <3>3
  <2>. QED  BY <2>5, <2>6, <2>7 DEF RoomInv
<1>10. ASSUME NEW d \in Downtime, NEW torn \in BOOLEAN, Restart(d, torn) PROVE RoomInv'
  <2>1. /\ \A w \in Socket : ctx'[w] = NoContext
        /\ \A s \in Session : ~paired'[s] /\ \A p \in PeerId : peers'[s][p] = NoSocket
    BY <1>10 DEF Restart, EmptyRoom
  <2>. QED  BY <2>1 DEF RoomInv, OwnPeer, RegisteredAsJoined, PairedNotEmpty,
                        JoinedMeansRegistered
<1>11. CASE UNCHANGED vars
  BY <1>4, <1>11 DEF vars, sockVars, roomVars
<1>12. ASSUME NEW w \in Socket, NEW s \in Session, NEW p \in PeerId, NEW t \in Token,
              Join(w, s, p, t)
       PROVE  RoomInv'
  BY <1>12, JoinRooms
<1>. HIDE DEF RoomInv
<1>. QED
  BY <1>1, <1>2, <1>3, <1>5, <1>6, <1>7, <1>8, <1>9, <1>10, <1>11, <1>12 DEF Next

\* The inductive invariant.
LEMMA RoomInvariant == ASSUME AppClients PROVE Spec => []RoomInv
<1>1. Init => RoomInv
  BY ConstantsAssumption DEF Init, EmptyRoom, RoomInv, OwnPeer, RegisteredAsJoined,
                             PairedNotEmpty, JoinedMeansRegistered
<1>2. TypeOK /\ SmallRooms /\ RoomInv /\ [Next]_vars => RoomInv'
  BY RoomInvStep
<1>. QED  BY <1>1, <1>2, TypeCorrect, RoomsStaySmall, PTL DEF Spec

\* A page whose JOIN was confirmed can be reached as long as its socket is open, for
\* any number of pages, rooms, replacements, expiries and restarts.
THEOREM JoinedStayRegistered == ASSUME AppClients PROVE Spec => []JoinedMeansRegistered
<1>1. RoomInv => JoinedMeansRegistered
  BY DEF RoomInv
<1>. QED  BY <1>1, RoomInvariant, PTL

\* A room in which two pages have met is purged when the last of them has gone.
THEOREM EmptyRoomsPurged == ASSUME AppClients PROVE Spec => []EmptyRoomPurged
<1>1. TypeOK /\ RoomInv => EmptyRoomPurged
  <2> SUFFICES ASSUME TypeOK, RoomInv, NEW s \in live, paired[s]
               PROVE  \E p \in Members(peers[s]) : sock[peers[s][p]] # "closed"
    BY DEF EmptyRoomPurged
  <2>1. PICK p \in Members(peers[s]) : TRUE
    BY DEF RoomInv, PairedNotEmpty, live
  <2>2. peers[s][p] \in Socket
    BY DEF Members, live, TypeOK
  <2>3. sock[peers[s][p]] # "closed"
    BY <2>2 DEF RoomInv, RegisteredAsJoined, Members, live
  <2>. QED  BY <2>3
<1>. QED  BY <1>1, RoomInvariant, TypeCorrect, PTL
==============================================================================
