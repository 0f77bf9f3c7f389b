-------------------------- MODULE TunnelRelayProofs --------------------------
(***************************************************************************)
(* The tunnel for any number of frames and fragments and any limits: what  *)
(* the receiver emits is a frame that was sent, whatever the server drops, *)
(* and the limiter inside the relay behaves as the one of RateLimiter,     *)
(* whose theorems therefore hold here.                                     *)
(***************************************************************************)
EXTENDS TunnelRelay, RateLimiterProofs

\* The fragments of the frames that were sent.
SentFragment == [frame : 1 .. sent, frag : 1 .. Fragments]

\* A frame of which all fragments are there.
WholeFrame(f) == [i \in 1 .. Fragments |-> f]

\* On the sockets are fragments of frames that were sent; what is kept under an id
\* is of that frame; what was emitted was whole.
RelayInv ==
  /\ TypeOK
  /\ up \in Seq(SentFragment) /\ down \in Seq(SentFragment)
  /\ \A id \in FrameNo : \A i \in DOMAIN incoming[id] : incoming[id][i] = id
  /\ got \in Seq({WholeFrame(f) : f \in FrameNo})

\* What the relay changes when no fragment moves.
LEMMA RelayRests ==
  ASSUME RelayInv, LimiterTypeOK', UNCHANGED <<sent, up, down, incoming, got>>,
         rested' \in BOOLEAN, others' \in 0 .. MaxOthers
  PROVE  RelayInv'
BY DEF RelayInv, TypeOK, SentFragment

\* A step of the relay is a step of the limiter or leaves it alone.
LEMMA StepOfLimiter == [Next]_vars => [LimiterNext]_limiterVars
<1>. SUFFICES ASSUME [Next]_vars PROVE [LimiterNext]_limiterVars
  OBVIOUS
<1>1. CASE SendFrame \/ ReceiveFragment \/ UNCHANGED vars
  BY <1>1 DEF SendFrame, ReceiveFragment, vars
<1>2. CASE ServerForwards \/ OtherMessage
  BY <1>2, RelayAssumption DEF ServerForwards, OtherMessage, LimiterNext
<1>3. CASE Time \/ Sweep
  BY <1>3 DEF Time, Sweep, LimiterNext
<1>. QED
  BY <1>1, <1>2, <1>3 DEF Next

\* The invariant holds initially.
LEMMA InitRelay == Init => RelayInv
<1>. SUFFICES ASSUME Init PROVE RelayInv
  OBVIOUS
<1>1. LimiterTypeOK
  BY RateAssumption DEF Init, LimiterInit, LimiterTypeOK
<1>2. DOMAIN NoParts = {} /\ {} # 1 .. Fragments
  <2>1. 1 \in 1 .. Fragments
    BY RelayAssumption
  <2>. QED
    BY <2>1 DEF NoParts
<1>. QED
  BY <1>1, <1>2, RelayAssumption DEF Init, RelayInv, TypeOK

\* The loop of _sendTunnelFrame appends all the fragments of a frame.
LEMMA SendRelay == RelayInv /\ SendFrame => RelayInv'
<1>. SUFFICES ASSUME RelayInv, SendFrame PROVE RelayInv'
  OBVIOUS
<1>. DEFINE cut == [i \in 1 .. Fragments |-> Fragment(sent + 1, i)]
<1>1. /\ sent \in 0 .. Frames /\ sent < Frames /\ sent' = sent + 1 /\ rested' = FALSE
      /\ up' = up \o cut
      /\ UNCHANGED <<limiterVars, down, incoming, got, others>>
  BY DEF SendFrame, RelayInv, TypeOK
<1>2. SentFragment \subseteq SentFragment'
  BY <1>1, RelayAssumption DEF SentFragment
<1>3. cut \in Seq(SentFragment')
  <2>1. \A i \in 1 .. Fragments : Fragment(sent + 1, i) \in SentFragment'
    BY <1>1, RelayAssumption DEF Fragment, SentFragment
  <2>. QED
    BY <2>1, RelayAssumption
<1>4. up \in Seq(SentFragment') /\ down \in Seq(SentFragment')
  BY <1>2 DEF RelayInv
<1>5. up' \in Seq(SentFragment') /\ down' \in Seq(SentFragment')
  <2>. HIDE DEF cut
  <2>. QED
    BY <1>1, <1>3, <1>4
<1>6. TypeOK'
  <2>1. sent' \in 0 .. Frames
    BY <1>1, RelayAssumption
  <2>2. LimiterTypeOK'
    BY <1>1 DEF RelayInv, TypeOK, LimiterTypeOK, limiterVars, bucket, window
  <2>. QED
    BY <1>1, <2>1, <2>2 DEF RelayInv, TypeOK
<1>. QED
  BY <1>1, <1>5, <1>6 DEF RelayInv

\* The server passes a fragment on or drops it.
LEMMA ForwardRelay == RelayInv /\ LimiterTypeOK' /\ ServerForwards => RelayInv'
<1>. SUFFICES ASSUME RelayInv, LimiterTypeOK', ServerForwards PROVE RelayInv'
  OBVIOUS
<1>1. /\ up # <<>> /\ up' = Tail(up)
      /\ down' = Append(down, Head(up)) \/ down' = down
      /\ UNCHANGED <<sent, rested, incoming, got, others>>
  BY DEF ServerForwards
<1>2. up' \in Seq(SentFragment) /\ down' \in Seq(SentFragment)
  <2>1. up \in Seq(SentFragment) /\ down \in Seq(SentFragment)
    BY DEF RelayInv
  <2>2. up' \in Seq(SentFragment) /\ Head(up) \in SentFragment
    BY <1>1, <2>1
  <2>3. Append(down, Head(up)) \in Seq(SentFragment)
    BY <2>1, <2>2
  <2>. QED
    BY <1>1, <2>1, <2>2, <2>3
<1>3. SentFragment' = SentFragment
  BY <1>1 DEF SentFragment
<1>. QED
  BY <1>1, <1>2, <1>3 DEF RelayInv, TypeOK

\* A fragment is kept under the id of its frame, and completes no other frame.
LEMMA ReceiveRelay == RelayInv /\ ReceiveFragment => RelayInv'
<1>. SUFFICES ASSUME RelayInv, ReceiveFragment PROVE RelayInv'
  OBVIOUS
<1>. DEFINE id == Head(down).frame
            frag == Head(down).frag
            parts == [i \in DOMAIN incoming[id] \cup {frag} |->
                        IF i = frag THEN id ELSE incoming[id][i]]
<1>1. /\ down # <<>> /\ down' = Tail(down)
      /\ \/ /\ Complete(parts) /\ got' = Append(got, parts)
            /\ incoming' = [incoming EXCEPT ![id] = NoParts]
         \/ /\ ~Complete(parts) /\ got' = got
            /\ incoming' = [incoming EXCEPT ![id] = parts]
      /\ UNCHANGED <<limiterVars, sent, rested, up, others>>
  BY DEF ReceiveFragment, Slot
<1>2. down' \in Seq(SentFragment) /\ Head(down) \in SentFragment
  BY <1>1 DEF RelayInv
<1>3. id \in FrameNo /\ frag \in 1 .. Fragments
  BY <1>2, RelayAssumption DEF SentFragment, FrameNo, RelayInv, TypeOK
<1>4. /\ DOMAIN parts \subseteq 1 .. Fragments
      /\ \A i \in DOMAIN parts : parts[i] = id
  BY <1>3 DEF RelayInv, TypeOK
<1>5. Complete(parts) => parts = WholeFrame(id)
  BY <1>4 DEF Complete, WholeFrame
<1>6. SentFragment' = SentFragment
  BY <1>1 DEF SentFragment
<1>7. LimiterTypeOK'
  BY <1>1 DEF RelayInv, TypeOK, LimiterTypeOK, limiterVars, bucket, window
<1>. DEFINE kept == incoming'[id]
<1>8. /\ DOMAIN incoming' = FrameNo
      /\ \A k \in FrameNo \ {id} : incoming'[k] = incoming[k]
      /\ kept = NoParts \/ (kept = parts /\ ~Complete(parts))
  <2>. HIDE DEF parts
  <2>. QED
    BY <1>1, <1>3 DEF RelayInv, TypeOK
<1>9. DOMAIN NoParts = {} /\ {} # 1 .. Fragments
  <2>1. 1 \in 1 .. Fragments
    BY RelayAssumption
  <2>. QED
    BY <2>1 DEF NoParts
<1>10. /\ DOMAIN kept \subseteq 1 .. Fragments /\ DOMAIN kept # 1 .. Fragments
       /\ \A i \in DOMAIN kept : kept[i] = id
  <2>. HIDE DEF parts, kept, id
  <2>. QED
    BY <1>4, <1>8, <1>9 DEF Complete
<1>11. /\ \A k \in FrameNo : DOMAIN incoming'[k] \subseteq 1 .. Fragments
       /\ \A k \in FrameNo : DOMAIN incoming'[k] # 1 .. Fragments
       /\ \A k \in FrameNo : \A i \in DOMAIN incoming'[k] : incoming'[k][i] = k
  <2>. HIDE DEF id
  <2>. QED
    BY <1>8, <1>10 DEF RelayInv, TypeOK
<1>12. got' \in Seq({WholeFrame(f) : f \in FrameNo})
  <2>. DEFINE whole == {WholeFrame(f) : f \in FrameNo}
  <2>1. Complete(parts) => parts \in whole
    BY <1>3, <1>5
  <2>2. got \in Seq(whole)
    BY DEF RelayInv
  <2>. HIDE DEF parts, id, whole
  <2>3. got' \in Seq(whole)
    BY <1>1, <2>1, <2>2
  <2>. QED
    BY <2>3 DEF whole
<1>. QED
  BY <1>1, <1>2, <1>6, <1>7, <1>8, <1>11, <1>12 DEF RelayInv, TypeOK, FrameNo

\* Every step keeps the invariant.
LEMMA NextRelay == RelayInv /\ [Next]_vars => RelayInv'
<1>. SUFFICES ASSUME RelayInv, [Next]_vars PROVE RelayInv'
  OBVIOUS
<1>1. LimiterTypeOK'
  BY StepOfLimiter, LimiterStepType DEF RelayInv, TypeOK
<1>2. CASE SendFrame
  BY <1>2, SendRelay
<1>3. CASE ServerForwards
  BY <1>1, <1>3, ForwardRelay
<1>4. CASE ReceiveFragment
  BY <1>4, ReceiveRelay
<1>5. CASE OtherMessage
  <2>1. others \in 0 .. MaxOthers /\ others < MaxOthers /\ others' = others + 1
    BY <1>5 DEF OtherMessage, RelayInv, TypeOK
  <2>2. others' \in 0 .. MaxOthers
    BY <2>1, RelayAssumption
  <2>3. rested' \in BOOLEAN /\ UNCHANGED <<sent, up, down, incoming, got>>
    BY <1>5 DEF OtherMessage, RelayInv, TypeOK
  <2>. QED
    BY <1>1, <2>2, <2>3, RelayRests
<1>6. CASE Time \/ Sweep \/ UNCHANGED vars
  <2>1. /\ rested' \in BOOLEAN /\ others' \in 0 .. MaxOthers
        /\ UNCHANGED <<sent, up, down, incoming, got>>
    BY <1>6 DEF Time, Sweep, relay, vars, RelayInv, TypeOK
  <2>. QED
    BY <1>1, <2>1, RelayRests
<1>. QED
  BY <1>2, <1>3, <1>4, <1>5, <1>6 DEF Next

LEMMA RelayInvariant == Spec => []RelayInv
BY InitRelay, NextRelay, PTL DEF Spec

\* The types of the relay; a record of fragments is deleted when it is complete.
THEOREM RelayTypeCorrect == Spec => []TypeOK
<1>1. RelayInv => TypeOK
  BY DEF RelayInv
<1>. QED
  BY <1>1, RelayInvariant, PTL

\* A frame that the receiver's transport emits is all of one frame that was sent,
\* although the server drops fragments of any frame.
THEOREM EmittedIsWhole == Spec => []EmittedWhole
<1>1. RelayInv => EmittedWhole
  <2>. SUFFICES ASSUME RelayInv, NEW j \in DOMAIN got
                PROVE  \E f \in FrameNo : got[j] = [i \in 1 .. Fragments |-> f]
    BY DEF EmittedWhole
  <2>1. got[j] \in {WholeFrame(f) : f \in FrameNo}
    BY DEF RelayInv
  <2>. QED
    BY <2>1 DEF WholeFrame
<1>. QED
  BY <1>1, RelayInvariant, PTL

\* The limiter the fragments pass is used as RateLimiter describes.
LEMMA RelayUsesLimiter == Spec => LimiterSpec
<1>1. Init => LimiterInit
  BY DEF Init
<1>. QED
  BY <1>1, StepOfLimiter, PTL DEF Spec, LimiterSpec

\* The messages of an address that pass in any stretch of time are bounded,
\* fragments and other messages together.
THEOREM RelayWindowIsBounded == Spec => []WindowBound
BY RelayUsesLimiter, WindowIsBounded, PTL

\* Behind the relay's fragments the limiter is the bucket filled all the time.
THEOREM RelayImplementsBucket == Spec => BucketSpec
BY RelayUsesLimiter, LimiterImplementsBucket, PTL
==============================================================================
