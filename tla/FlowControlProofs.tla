-------------------------- MODULE FlowControlProofs --------------------------
(***************************************************************************)
(* The memory bound of FlowControl, for any marks, any size of a send and  *)
(* any finite set of callers.                                              *)
(***************************************************************************)
EXTENDS FlowControl, FiniteSetTheorems, TLAPS

\* What the buffer stays below once k sends have been added above the mark.
Above(k) == HighWaterMark + k * Chunk

\* BufferBound is not inductive: a "low" event under way releases whoever waits,
\* so that what it may still add has to be accounted for before it is dispatched.
BoundInv ==
  /\ TypeOK
  /\ notify # {} => "low" \notin events
  /\ "low" \in events => buffered < Above(1 + expired)
  /\ buffered < Above(1 + expired + Cardinality(Caller) - Cardinality(notify))

\* One more send raises the bound by Chunk.
LEMMA AboveStep == ASSUME NEW k \in Int PROVE Above(k + 1) = Above(k) + Chunk
  BY FlowAssumption DEF Above

\* The bound grows with the number of sends.
LEMMA AboveMonotone ==
  ASSUME NEW k \in Int, NEW m \in Int, k <= m
  PROVE  Above(k) <= Above(m)
<1>1. m * Chunk - k * Chunk = (m - k) * Chunk
  BY FlowAssumption
<1>2. (m - k) * Chunk >= 0
  BY FlowAssumption
<1>. QED
  BY <1>1, <1>2, FlowAssumption DEF Above

\* The bound of a natural number of sends is above the mark.
LEMMA AboveMark ==
  ASSUME NEW k \in Nat
  PROVE  Above(k) \in Int /\ HighWaterMark <= Above(k)
<1>1. k * Chunk \in Nat
  BY FlowAssumption
<1>. QED
  BY <1>1, FlowAssumption DEF Above

\* Sets of callers are finite and no larger than Caller.
LEMMA CallerSubsets ==
  ASSUME NEW S \in SUBSET Caller
  PROVE  /\ IsFiniteSet(S)
         /\ Cardinality(S) \in Nat
         /\ Cardinality(Caller) \in Nat
         /\ Cardinality(S) <= Cardinality(Caller)
  BY FlowAssumption, FS_Subset, FS_CardinalityType

\* What is below the mark stays below the bound of one send when a send is added.
LEMMA OneSend ==
  ASSUME NEW b \in Nat, b < HighWaterMark, NEW k \in Nat, k >= 1
  PROVE  b + Chunk < Above(k)
<1>1. Above(0 + 1) = Above(0) + Chunk
  BY AboveStep
<1>2. Above(0) = HighWaterMark
  BY FlowAssumption DEF Above
<1>3. Above(1) <= Above(k)
  BY AboveMonotone
<1>. QED
  BY <1>1, <1>2, <1>3, FlowAssumption, AboveMark
------------------------------------------------------------------------------
\* A send that goes on keeps the types, and adds a Chunk at most.
LEMMA GoOnTyped ==
  ASSUME TypeOK, NEW c \in Caller, GoOn(c), left[c] > 0
  PROVE  /\ buffered' \in Nat
         /\ buffered' = buffered \/ (open /\ buffered' = buffered + Chunk)
         /\ failed' = failed \/ (~open /\ failed' = failed \cup {c})
         /\ left' \in [Caller -> 0 .. Sends]
         /\ \A d \in Caller \ {c} : left'[d] = left[d]
<1>. USE FlowAssumption DEF TypeOK
<1>1. CASE open
  <2>1. left' = [left EXCEPT ![c] = left[c] - 1] /\ failed' = failed
    BY <1>1 DEF GoOn
  <2>2. left[c] - 1 \in 0 .. Sends
    OBVIOUS
  <2>3. buffered' = buffered + Chunk
    BY <1>1 DEF GoOn
  <2>. QED
    BY <1>1, <2>1, <2>2, <2>3
<1>2. CASE ~open
  BY <1>2 DEF GoOn
<1>. QED
  BY <1>1, <1>2

\* A step that settles a wait keeps the types.
LEMMA ResolveTyped ==
  ASSUME TypeOK, NEW c \in Caller, Resolve(c)
  PROVE  /\ buffered' \in Nat
         /\ buffered' = buffered \/ (open /\ buffered' = buffered + Chunk)
         /\ waiting' \subseteq Caller /\ failed' \subseteq Caller \ waiting'
         /\ left' \in [Caller -> 0 .. Sends] /\ \A d \in waiting' : left'[d] > 0
<1>1. c \in waiting /\ GoOn(c) /\ waiting' = waiting \ {c}
  BY DEF Resolve
<1>2. left[c] > 0
  BY <1>1 DEF TypeOK
<1>. QED
  BY <1>1, <1>2, GoOnTyped DEF TypeOK
------------------------------------------------------------------------------
\* The invariant holds initially.
LEMMA InitBound == Init => BoundInv
<1>. SUFFICES ASSUME Init PROVE BoundInv
  OBVIOUS
<1>1. TypeOK
  BY FlowAssumption DEF Init, TypeOK
<1>2. Cardinality({}) = 0 /\ Cardinality(Caller) \in Nat
  BY FS_EmptySet, CallerSubsets
<1>3. 0 + Chunk < Above(1 + 0 + Cardinality(Caller) - 0)
  BY <1>2, OneSend, FlowAssumption
<1>. QED
  BY <1>1, <1>2, <1>3, FlowAssumption, AboveMark DEF Init, BoundInv

\* Every step keeps the invariant.
LEMMA NextBound == BoundInv /\ [Next]_vars => BoundInv'
<1>. SUFFICES ASSUME BoundInv, [Next]_vars PROVE BoundInv'
  OBVIOUS
<1>. USE FlowAssumption
<1>0. TypeOK
  BY DEF BoundInv
<1>t. /\ Cardinality(Caller) \in Nat /\ Cardinality(notify) \in Nat
      /\ Cardinality(notify) <= Cardinality(Caller)
      /\ expired \in Nat /\ buffered \in Nat
  BY <1>0, CallerSubsets DEF TypeOK
<1>. DEFINE Released == Cardinality(Caller) - Cardinality(notify)
<1>r. Released \in Nat /\ Above(1 + expired) <= Above(1 + expired + Released)
  BY <1>t, AboveMonotone
<1>e. /\ Above(1 + expired) \in Int /\ Above(1 + expired + Released) \in Int
      /\ Above(1 + (expired + 1)) = Above(1 + expired) + Chunk
      /\ Above(1 + (expired + 1) + Released) = Above(1 + expired + Released) + Chunk
  BY <1>t, <1>r, AboveMark, AboveStep
<1>1. ASSUME NEW c \in Caller, Send(c) PROVE BoundInv'
  <2>1. TypeOK'
    <3>1. CASE open /\ ShouldWait
      BY <1>1, <1>0, <3>1 DEF Send, TypeOK
    <3>2. CASE ~(open /\ ShouldWait)
      BY <1>1, <1>0, <3>2, GoOnTyped DEF Send, TypeOK
    <3>. QED
      BY <3>1, <3>2
  <2>2. UNCHANGED <<events, notify, expired>>
    BY <1>1 DEF Send
  <2>3. buffered' = buffered \/ (buffered < HighWaterMark /\ buffered' = buffered + Chunk)
    BY <1>1, <1>0 DEF Send, GoOn, ShouldWait, TypeOK
  <2>4. buffered < HighWaterMark =>
          /\ buffered + Chunk < Above(1 + expired)
          /\ buffered + Chunk < Above(1 + expired + Released)
    BY <1>t, <1>r, OneSend
  <2>. QED
    BY <2>1, <2>2, <2>3, <2>4, <1>t, <1>e DEF BoundInv
<1>2. ASSUME NEW c \in Caller, OnLow(c) PROVE BoundInv'
  <2>1. TypeOK'
    BY <1>2, <1>0, ResolveTyped DEF OnLow, TypeOK
  <2>2. /\ c \in notify /\ notify' = notify \ {c} /\ UNCHANGED <<events, expired>>
        /\ "low" \notin events
    BY <1>2 DEF OnLow, BoundInv
  <2>3. Cardinality(notify') = Cardinality(notify) - 1
    BY <2>2, <1>0, CallerSubsets, FS_RemoveElement DEF TypeOK
  <2>4. buffered' <= buffered + Chunk
    BY <1>2, <1>0, ResolveTyped, <1>t DEF OnLow
  <2>5. Above(1 + expired + Released + 1) = Above(1 + expired + Released) + Chunk
    BY <1>t, <1>r, AboveStep
  <2>6. 1 + expired' + Cardinality(Caller) - Cardinality(notify') = 1 + expired + Released + 1
    BY <2>2, <2>3, <1>t
  <2>7. buffered' < Above(1 + expired + Released + 1)
    BY <2>1, <2>4, <2>5, <1>t, <1>e DEF BoundInv, TypeOK
  <2>. QED
    BY <2>1, <2>2, <2>6, <2>7 DEF BoundInv
<1>3. ASSUME NEW c \in Caller, Poll(c) PROVE BoundInv'
  <2>1. TypeOK'
    BY <1>3, <1>0, ResolveTyped DEF Poll, TypeOK
  <2>2. UNCHANGED <<events, notify, expired>> /\ buffered < HighWaterMark
    BY <1>3, <1>t DEF Poll
  <2>3. buffered' <= buffered + Chunk
    BY <1>3, <1>0, ResolveTyped, <1>t DEF Poll
  <2>4. /\ buffered + Chunk < Above(1 + expired)
        /\ buffered + Chunk < Above(1 + expired + Released)
    BY <2>2, <1>t, <1>r, OneSend
  <2>5. buffered' \in Nat
    BY <2>1 DEF TypeOK
  <2>. QED
    BY <2>1, <2>2, <2>3, <2>4, <2>5, <1>t, <1>e DEF BoundInv
<1>4. ASSUME NEW c \in Caller, TimeOut(c) PROVE BoundInv'
  <2>1. TypeOK'
    BY <1>4, <1>0, ResolveTyped DEF TimeOut, TypeOK
  <2>2. UNCHANGED <<events, notify>>
    BY <1>4 DEF TimeOut
  <2>3. \/ buffered' = buffered + Chunk /\ expired' = expired + 1
        \/ buffered' = buffered /\ expired' \in {expired, expired + 1}
    BY <1>4, <1>0, ResolveTyped DEF TimeOut
  <2>. QED
    BY <2>1, <2>2, <2>3, <1>t, <1>e DEF BoundInv
<1>5. CASE LowEvent
  <2>1. TypeOK'
    BY <1>5, <1>0 DEF LowEvent, TypeOK
  <2>2. "low" \notin events' /\ UNCHANGED <<buffered, expired>> /\ notify' = waiting
    BY <1>5 DEF LowEvent
  <2>3. Cardinality(waiting) \in Nat /\ Cardinality(waiting) <= Cardinality(Caller)
    BY <1>0, CallerSubsets DEF TypeOK
  <2>4. buffered < Above(1 + expired)
    BY <1>5 DEF LowEvent, BoundInv
  <2>5. /\ Above(1 + expired) <= Above(1 + expired + Cardinality(Caller) - Cardinality(waiting))
        /\ Above(1 + expired + Cardinality(Caller) - Cardinality(waiting)) \in Int
    BY <2>3, <1>t, AboveMonotone, AboveMark
  <2>. QED
    BY <2>1, <2>2, <2>4, <2>5, <1>t, <1>e DEF BoundInv
<1>6. CASE CloseEvent
  <2>1. TypeOK'
    BY <1>6, <1>0 DEF CloseEvent, TypeOK
  <2>. QED
    BY <2>1, <1>6 DEF CloseEvent, BoundInv
<1>7. CASE Drain
  <2>1. /\ buffered' \in Nat /\ buffered' <= buffered
        /\ UNCHANGED <<notify, expired>> /\ notify = {}
        /\ events' = events \/ (buffered' <= LowWaterMark /\ events' = events \cup {"low"})
    BY <1>7, <1>t DEF Drain, Idle
  <2>2. TypeOK'
    BY <1>7, <1>0, <2>1 DEF Drain, TypeOK
  <2>3. buffered' <= LowWaterMark => buffered' < Above(1 + expired)
    BY <2>1, <1>t, AboveMark
  <2>. QED
    BY <2>1, <2>2, <2>3, <1>t, <1>e DEF BoundInv
<1>8. CASE ChannelCloses
  <2>1. TypeOK'
    BY <1>8, <1>0 DEF ChannelCloses, TypeOK
  <2>2. UNCHANGED <<buffered, notify, expired>> /\ ("low" \in events' => "low" \in events)
    BY <1>8 DEF ChannelCloses
  <2>. QED
    BY <2>1, <2>2, <1>8 DEF ChannelCloses, BoundInv, Idle
<1>9. CASE UNCHANGED vars
  BY <1>9 DEF vars, BoundInv, TypeOK
<1>. QED
  BY <1>1, <1>2, <1>3, <1>4, <1>5, <1>6, <1>7, <1>8, <1>9 DEF Next

\* What the invariant says of an event under way implies the bound.
LEMMA BoundInvImplies == BoundInv => BufferBound
<1>. SUFFICES ASSUME BoundInv PROVE BufferBound
  OBVIOUS
<1>1. /\ Cardinality(Caller) \in Nat /\ Cardinality(notify) \in Nat
      /\ Cardinality(notify) <= Cardinality(Caller)
      /\ expired \in Nat /\ buffered \in Nat
  BY CallerSubsets DEF BoundInv, TypeOK
<1>. DEFINE k == 1 + expired + Cardinality(Caller) - Cardinality(notify)
            m == Cardinality(Caller) + 1 + expired
<1>2. k \in Nat /\ m \in Nat /\ k <= m
  BY <1>1
<1>3. Above(k) <= Above(m) /\ Above(k) \in Int /\ Above(m) \in Int
  BY <1>2, AboveMonotone, AboveMark
<1>4. buffered < Above(k)
  BY DEF BoundInv
<1>. QED
  BY <1>1, <1>3, <1>4 DEF BufferBound, Above

\* The buffer of the DataChannel stays below the mark plus one send, one for each
\* caller an event may release and one for each timeout (shouldWait, waitForDrain).
THEOREM BufferIsBounded == Spec => []BufferBound
  BY InitBound, NextBound, BoundInvImplies, PTL DEF Spec

\* The types of the state of FlowControl: a send that waits has not been done.
THEOREM FlowTypeCorrect == Spec => []TypeOK
<1>1. BoundInv => TypeOK
  BY DEF BoundInv
<1>. QED
  BY <1>1, InitBound, NextBound, PTL DEF Spec
==============================================================================
