----------------------------- MODULE TunnelRelay -----------------------------
(***************************************************************************)
(* A transfer in tunnel mode: the sender's transport cuts each frame into  *)
(* TUNNEL_FRAME messages (webrtcPeer.js, _sendTunnelFrame), the server     *)
(* passes each through its RateLimiter, and the receiver's transport puts  *)
(* the fragments together again.                                           *)
(*                                                                         *)
(* The sockets are FIFO and stay open; joining and leaving are the subject *)
(* of SignalingServer and PeerTransport.  A tick is the time of a pause of *)
(* the streaming loop, so that a frame is sent per tick at most.           *)
(***************************************************************************)
EXTENDS RateLimiter, Sequences

CONSTANTS
  SenderIp,   \* the sender's address; its other traffic and that of others
  Frames,     \* frames the sender has to send
  Fragments,  \* fragments of a frame
  MaxOthers   \* bound on the other messages from that address

ASSUME RelayAssumption ==
  /\ SenderIp \in Key
  /\ Frames \in Nat /\ Fragments \in Nat \ {0} /\ MaxOthers \in Nat

VARIABLES
  sent,      \* frames the streaming loop has sent
  rested,    \* its pause is over
  up, down,  \* fragments on their way to the server and to the receiver
  incoming,  \* incomingFragments: per frame id, the frame each fragment is of
  got,       \* frames emitted by the receiver's transport: what they consist of
  others     \* other messages from SenderIp so far

relay == <<sent, rested, up, down, incoming, got, others>>
vars == <<limiterVars, relay>>

FrameNo == 1 .. Frames
Fragment(f, i) == [frame |-> f, frag |-> i]
NoParts == <<>>   \* the function with an empty domain

TypeOK ==
  /\ LimiterTypeOK
  /\ sent \in 0 .. Frames /\ rested \in BOOLEAN /\ others \in 0 .. MaxOthers
  /\ DOMAIN incoming = FrameNo
  /\ \A id \in FrameNo : DOMAIN incoming[id] \subseteq 1 .. Fragments
  \* a record is deleted as soon as it is complete
  /\ \A id \in FrameNo : DOMAIN incoming[id] # 1 .. Fragments

Init ==
  /\ LimiterInit
  /\ sent = 0 /\ rested = TRUE /\ others = 0
  /\ up = <<>> /\ down = <<>> /\ got = <<>>
  /\ incoming = [id \in FrameNo |-> NoParts]
------------------------------------------------------------------------------
\* _sendTunnelFrame: all fragments at once, whatever is still under way.
SendFrame ==
  /\ sent < Frames /\ rested
  /\ sent' = sent + 1 /\ rested' = FALSE
  /\ up' = up \o [i \in 1 .. Fragments |-> Fragment(sent + 1, i)]
  /\ UNCHANGED <<limiterVars, down, incoming, got, others>>

\* The server handles a fragment; one over the limit is answered with an ERROR.
ServerForwards ==
  /\ up # <<>>
  /\ TryConsume(SenderIp)
  /\ up' = Tail(up)
  /\ down' = IF Admits(SenderIp) THEN Append(down, Head(up)) ELSE down
  /\ UNCHANGED <<sent, rested, incoming, got, others>>

\* Heartbeats, control frames, and whoever shares the address.
OtherMessage ==
  /\ others < MaxOthers /\ others' = others + 1
  /\ TryConsume(SenderIp)
  /\ UNCHANGED <<sent, rested, up, down, incoming, got>>

\* Mutant: the fragments of all frames are kept under one id.
SlotShared(f) == 1

\* The id under which the fragments of a frame are kept.
Slot(f) == f

\* Mutant: the count of fragments is compared off by one.
CompleteOffByOne(parts) == DOMAIN parts = 1 .. Fragments + 1

\* All fragments of a frame are there.
Complete(parts) == DOMAIN parts = 1 .. Fragments

\* TUNNEL_FRAME: the fragment is stored; a complete frame is emitted.
ReceiveFragment ==
  LET msg == Head(down)
      id == Slot(msg.frame)
      parts == [i \in DOMAIN incoming[id] \cup {msg.frag} |->
                  IF i = msg.frag THEN msg.frame ELSE incoming[id][i]]
  IN /\ down # <<>>
     /\ down' = Tail(down)
     /\ IF Complete(parts)
        THEN /\ incoming' = [incoming EXCEPT ![id] = NoParts]
             /\ got' = Append(got, parts)
        ELSE /\ incoming' = [incoming EXCEPT ![id] = parts]
             /\ UNCHANGED got
     /\ UNCHANGED <<limiterVars, sent, rested, up, others>>

\* Time passes: buckets fill and the pause of the streaming loop ends.
Time ==
  /\ \/ Tick
     \/ elapsed = MaxElapsed /\ Observe
  /\ rested' = TRUE
  /\ UNCHANGED <<sent, up, down, incoming, got, others>>

Sweep == Cleanup /\ UNCHANGED relay

Next == SendFrame \/ ServerForwards \/ OtherMessage \/ ReceiveFragment \/ Time \/ Sweep

Spec == Init /\ [][Next]_vars

\* The pages and the server keep running, and time passes.
FairSpec ==
  Spec /\ WF_vars(SendFrame) /\ WF_vars(ServerForwards) /\ WF_vars(ReceiveFragment)
       /\ WF_vars(Time)
------------------------------------------------------------------------------
\* An emitted frame is one that was sent: all of its fragments, of no other one,
\* although fragments of earlier frames may have been dropped by the server.
EmittedWhole ==
  \A j \in DOMAIN got : \E f \in FrameNo : got[j] = [i \in 1 .. Fragments |-> f]

\* "Backpressure handled by FlowController": whatever the sender's loop sends
\* arrives, at whatever speed it sends and the network carries it.
RelayDelivers == <>(Len(got) = Frames)
==============================================================================
