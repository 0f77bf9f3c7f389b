-------------------------- MODULE RateLimiterProofs --------------------------
(***************************************************************************)
(* For every choice of the constants: the window bound of RateLimiter, and *)
(* that it implements TokenBucket.  Both rest on one fact about each step: *)
(* what it does to the level of every bucket.                              *)
(***************************************************************************)
EXTENDS RateLimiter, TLAPS

\* A level is a number between 0 and MaxTokens.
LEMMA LevelType ==
  ASSUME LimiterTypeOK, NEW k \in Key
  PROVE  Level(k) \in 0 .. MaxTokens
<1>1. CASE tokens[k] = Absent
  BY <1>1, RateAssumption DEF Level
<1>2. CASE tokens[k] # Absent
  <2>1. tokens[k] \in 0 .. MaxTokens /\ idle[k] \in Nat
    BY <1>2, RateAssumption DEF LimiterTypeOK
  <2>2. idle[k] * Refill \in Nat
    BY <2>1, RateAssumption
  <2> QED
    BY <1>2, <2>1, <2>2, RateAssumption DEF Level, Least
<1> QED
  BY <1>1, <1>2

\* A tick adds Refill to every level, up to MaxTokens.
LEMMA TickLevel ==
  ASSUME LimiterTypeOK, Tick, NEW k \in Key
  PROVE  Level(k)' = Least(MaxTokens, Level(k) + Refill)
<1>1. CASE tokens[k] = Absent
  <2>1. tokens'[k] = Absent
    BY <1>1 DEF Tick
  <2> QED
    BY <1>1, <2>1, RateAssumption DEF Level, Least
<1>2. CASE tokens[k] # Absent
  <2>1. tokens[k] \in 0 .. MaxTokens /\ idle[k] \in 0 .. IdleTimeout + 1
    BY <1>2 DEF LimiterTypeOK
  <2>2. tokens'[k] = tokens[k] /\ idle'[k] = Least(idle[k] + 1, IdleTimeout + 1)
    BY <1>2 DEF Tick
  <2>3. CASE idle[k] <= IdleTimeout
    <3>1. idle'[k] = idle[k] + 1
      BY <2>1, <2>2, <2>3, RateAssumption DEF Least
    <3>2. (idle[k] + 1) * Refill = idle[k] * Refill + Refill /\ idle[k] * Refill \in Nat
      BY <2>1, RateAssumption
    <3>3. Level(k)' = Least(MaxTokens, tokens[k] + (idle[k] * Refill + Refill))
      BY <1>2, <2>2, <3>1, <3>2 DEF Level
    <3>4. Level(k) = Least(MaxTokens, tokens[k] + idle[k] * Refill)
      BY <1>2 DEF Level
    <3> DEFINE gain == idle[k] * Refill
    <3>5. gain \in Nat
      BY <3>2
    <3>6. Level(k)' = Least(MaxTokens, tokens[k] + (gain + Refill))
          /\ Level(k) = Least(MaxTokens, tokens[k] + gain)
      BY <3>3, <3>4
    <3> HIDE DEF gain
    <3> QED
      BY <2>1, <3>5, <3>6, RateAssumption DEF Least
  <2>4. CASE idle[k] = IdleTimeout + 1
    <3>1. idle'[k] = IdleTimeout + 1
      BY <2>1, <2>2, <2>4, RateAssumption DEF Least
    <3>2. (IdleTimeout + 1) * Refill >= MaxTokens /\ (IdleTimeout + 1) * Refill \in Nat
      BY RateAssumption
    <3> DEFINE gain == (IdleTimeout + 1) * Refill
    <3>3. Level(k)' = Least(MaxTokens, tokens[k] + gain)
          /\ Level(k) = Least(MaxTokens, tokens[k] + gain)
      BY <1>2, <2>2, <2>4, <3>1 DEF Level
    <3>4. gain >= MaxTokens /\ gain \in Nat
      BY <3>2
    <3> HIDE DEF gain
    <3> QED
      BY <2>1, <3>3, <3>4, RateAssumption DEF Least
  <2> QED
    BY <2>1, <2>3, <2>4, RateAssumption
<1> QED
  BY <1>1, <1>2

\* tryConsume takes one token of its client, if there is one.
LEMMA ConsumeLevel ==
  ASSUME LimiterTypeOK, NEW c \in Key, TryConsume(c), NEW k \in Key
  PROVE  Level(k)' = IF k = c /\ Level(k) >= 1 THEN Level(k) - 1 ELSE Level(k)
<1>1. Level(k) \in 0 .. MaxTokens
  BY LevelType
<1>2. CASE k = c
  <2> DEFINE left == IF Level(k) >= 1 THEN Level(k) - 1 ELSE Level(k)
  <2>1. tokens'[k] = left /\ idle'[k] = 0
    BY <1>2 DEF TryConsume, LimiterTypeOK
  <2>2. left \in 0 .. MaxTokens
    BY <1>1, RateAssumption
  <2>3. left # Absent /\ 0 * Refill = 0
    BY <2>2, RateAssumption
  <2>4. Level(k)' = Least(MaxTokens, tokens'[k] + idle'[k] * Refill)
    BY <2>1, <2>3 DEF Level
  <2>5. Level(k)' = Least(MaxTokens, left + 0)
    BY <2>1, <2>3, <2>4
  <2> HIDE DEF left
  <2>6. Level(k)' = left
    BY <2>2, <2>5, RateAssumption DEF Least
  <2> QED
    BY <1>2, <2>6 DEF left
<1>3. CASE k # c
  BY <1>3 DEF TryConsume, LimiterTypeOK, Level
<1> QED
  BY <1>2, <1>3

\* cleanup changes no level: the records it deletes are full.
LEMMA CleanupLevel ==
  ASSUME LimiterTypeOK, Cleanup, NEW k \in Key
  PROVE  Level(k)' = Level(k)
<1>1. CASE tokens[k] # Absent /\ idle[k] > IdleTimeout
  <2>1. tokens'[k] = Absent
    BY <1>1 DEF Cleanup
  <2>2. tokens[k] \in 0 .. MaxTokens /\ idle[k] = IdleTimeout + 1
    BY <1>1, RateAssumption DEF LimiterTypeOK
  <2>3. (IdleTimeout + 1) * Refill >= MaxTokens /\ (IdleTimeout + 1) * Refill \in Nat
    BY RateAssumption
  <2> DEFINE gain == (IdleTimeout + 1) * Refill
  <2>4. Level(k) = Least(MaxTokens, tokens[k] + gain)
    BY <1>1, <2>2 DEF Level
  <2>5. gain >= MaxTokens /\ gain \in Nat
    BY <2>3
  <2> HIDE DEF gain
  <2>6. Level(k) = MaxTokens
    BY <2>2, <2>4, <2>5, RateAssumption DEF Least
  <2> QED
    BY <2>1, <2>6 DEF Level
<1>2. CASE ~(tokens[k] # Absent /\ idle[k] > IdleTimeout)
  BY <1>2 DEF Cleanup, Level
<1> QED
  BY <1>1, <1>2

\* Every step keeps the variables in their types.
LEMMA LimiterStepType ==
  LimiterTypeOK /\ [LimiterNext]_limiterVars => LimiterTypeOK'
<1> SUFFICES ASSUME LimiterTypeOK, [LimiterNext]_limiterVars PROVE LimiterTypeOK'
  OBVIOUS
<1>1. CASE Tick
  BY <1>1, RateAssumption DEF Tick, LimiterTypeOK, Least
<1>2. CASE Cleanup
  BY <1>2, RateAssumption DEF Cleanup, LimiterTypeOK, window
<1>3. CASE Observe
  BY <1>3 DEF Observe, LimiterTypeOK, bucket
<1>4. ASSUME NEW c \in Key, TryConsume(c) PROVE LimiterTypeOK'
  <2>1. Level(c) \in 0 .. MaxTokens
    BY LevelType
  <2> DEFINE left == IF Level(c) >= 1 THEN Level(c) - 1 ELSE Level(c)
  <2>2. left \in 0 .. MaxTokens
    BY <2>1, RateAssumption
  <2>3. tokens' = [tokens EXCEPT ![c] = left]
    BY <1>4 DEF TryConsume
  <2> HIDE DEF left
  <2> QED
    BY <1>4, <2>2, <2>3, RateAssumption DEF TryConsume, LimiterTypeOK
<1>5. CASE UNCHANGED limiterVars
  BY <1>5 DEF limiterVars, bucket, window, LimiterTypeOK
<1> QED
  BY <1>1, <1>2, <1>3, <1>4, <1>5 DEF LimiterNext

\* The types, for every run of the limiter.
THEOREM LimiterTypeCorrect == LimiterSpec => []LimiterTypeOK
<1>1. LimiterInit => LimiterTypeOK
  BY RateAssumption DEF LimiterInit, LimiterTypeOK
<1> QED
  BY <1>1, LimiterStepType, PTL DEF LimiterSpec

\* A step gives a bucket no more than the observed window allows.
LEMMA WindowStep ==
  WindowInv /\ [LimiterNext]_limiterVars => WindowInv'
<1> SUFFICES ASSUME WindowInv, [LimiterNext]_limiterVars PROVE WindowInv'
  OBVIOUS
<1> USE DEF WindowInv
<1>1. LimiterTypeOK'
  BY LimiterStepType
<1> SUFFICES ASSUME NEW k \in Key
             PROVE  Level(k)' + admitted'[k] <= MaxTokens + Refill * elapsed'
  BY <1>1
<1>2. /\ Level(k) \in Nat /\ Level(k) <= MaxTokens
      /\ admitted[k] \in Nat /\ elapsed \in Nat
      /\ Level(k) + admitted[k] <= MaxTokens + Refill * elapsed
  BY LevelType, RateAssumption DEF LimiterTypeOK
<1>3. CASE Tick
  <2>1. Level(k)' = Least(MaxTokens, Level(k) + Refill)
    BY <1>3, TickLevel
  <2>2. admitted' = admitted /\ elapsed' = elapsed + 1
    BY <1>3 DEF Tick
  <2>3. Refill * (elapsed + 1) = Refill * elapsed + Refill /\ Refill * elapsed \in Nat
    BY <1>2, RateAssumption
  <2> DEFINE gain == Refill * elapsed
  <2>4. Refill * elapsed' = gain + Refill /\ gain \in Nat
        /\ Level(k) + admitted[k] <= MaxTokens + gain
    BY <1>2, <2>2, <2>3
  <2> HIDE DEF gain
  <2> QED
    BY <1>2, <2>1, <2>2, <2>4, RateAssumption DEF Least
<1>4. CASE Cleanup
  <2>1. Level(k)' = Level(k)
    BY <1>4, CleanupLevel
  <2>2. admitted' = admitted /\ elapsed' = elapsed
    BY <1>4 DEF Cleanup, window
  <2> QED
    BY <1>2, <2>1, <2>2
<1>5. CASE Observe
  <2>1. Level(k)' = Level(k)
    BY <1>5 DEF Observe, bucket, Level
  <2>2. admitted'[k] = 0 /\ elapsed' = 0
    BY <1>5 DEF Observe
  <2> QED
    BY <1>2, <2>1, <2>2, RateAssumption
<1>6. ASSUME NEW c \in Key, TryConsume(c)
      PROVE  Level(k)' + admitted'[k] <= MaxTokens + Refill * elapsed'
  <2>1. Level(k)' = IF k = c /\ Level(k) >= 1 THEN Level(k) - 1 ELSE Level(k)
    BY <1>6, ConsumeLevel
  <2>2. /\ admitted'[k] = IF k = c /\ Level(k) >= 1 THEN admitted[k] + 1 ELSE admitted[k]
        /\ elapsed' = elapsed
    BY <1>6 DEF TryConsume, LimiterTypeOK
  <2>3. Level(k)' + admitted'[k] = Level(k) + admitted[k]
    BY <1>2, <2>1, <2>2
  <2> QED
    BY <1>2, <2>2, <2>3
<1>7. CASE UNCHANGED limiterVars
  <2>1. Level(k)' = Level(k) /\ admitted' = admitted /\ elapsed' = elapsed
    BY <1>7 DEF limiterVars, bucket, window, Level
  <2> QED
    BY <1>2, <2>1
<1> QED
  BY <1>3, <1>4, <1>5, <1>6, <1>7 DEF LimiterNext

\* The window bound, for every number of clients, rate and idle timeout.
THEOREM WindowIsBounded == LimiterSpec => []WindowBound
<1>1. LimiterInit => WindowInv
  <2> SUFFICES ASSUME LimiterInit PROVE WindowInv
    OBVIOUS
  <2>1. LimiterTypeOK
    BY RateAssumption DEF LimiterInit, LimiterTypeOK
  <2>2. ASSUME NEW k \in Key
        PROVE  Level(k) + admitted[k] <= MaxTokens + Refill * elapsed
    BY RateAssumption DEF LimiterInit, Level
  <2> QED
    BY <2>1, <2>2 DEF WindowInv
<1>2. WindowInv => WindowBound
  <2> SUFFICES ASSUME WindowInv, NEW k \in Key
               PROVE  admitted[k] <= MaxTokens + Refill * elapsed
    BY DEF WindowBound
  <2>1. Level(k) \in Nat /\ admitted[k] \in Nat /\ elapsed \in Nat
    BY LevelType, RateAssumption DEF WindowInv, LimiterTypeOK
  <2>2. Level(k) + admitted[k] <= MaxTokens + Refill * elapsed
    BY DEF WindowInv
  <2>3. Refill * elapsed \in Nat
    BY <2>1, RateAssumption
  <2> QED
    BY <2>1, <2>2, <2>3, RateAssumption
<1> QED
  BY <1>1, <1>2, WindowStep, PTL DEF LimiterSpec

\* The lazy limiter implements the abstract bucket: a tick lets time pass for
\* it, an admitted message takes a token, and everything else changes nothing.
THEOREM LimiterImplementsBucket == LimiterSpec => BucketSpec
<1> DEFINE levels == [k \in Key |-> Level(k)]
<1>1. LimiterInit => Bucket!Init
  BY DEF LimiterInit, Bucket!Init, Level
<1>2. LimiterTypeOK /\ [LimiterNext]_limiterVars => [Bucket!Next]_levels
  <2> SUFFICES ASSUME LimiterTypeOK, [LimiterNext]_limiterVars PROVE [Bucket!Next]_levels
    OBVIOUS
  <2>1. CASE Tick
    <3>1. \A k \in Key : Level(k)' = Least(MaxTokens, Level(k) + Refill)
      BY <2>1, TickLevel
    <3>2. Bucket!Pass
      BY <3>1 DEF Bucket!Pass, Bucket!Least, Least
    <3> QED
      BY <3>2 DEF Bucket!Next
  <2>2. CASE Cleanup
    BY <2>2, CleanupLevel
  <2>3. CASE Observe
    BY <2>3 DEF Observe, bucket, Level
  <2>4. ASSUME NEW c \in Key, TryConsume(c) PROVE [Bucket!Next]_levels
    <3>1. \A k \in Key : Level(k)' = IF k = c /\ Level(k) >= 1 THEN Level(k) - 1
                                      ELSE Level(k)
      BY <2>4, ConsumeLevel
    <3>2. CASE Level(c) >= 1
      <4>1. levels' = [levels EXCEPT ![c] = @ - 1]
        BY <3>1, <3>2
      <4>2. Bucket!Admit(c)
        BY <3>2, <4>1 DEF Bucket!Admit
      <4> QED
        BY <4>2 DEF Bucket!Next
    <3>3. CASE ~(Level(c) >= 1)
      BY <3>1, <3>3
    <3> QED
      BY <3>2, <3>3
  <2>5. CASE UNCHANGED limiterVars
    BY <2>5 DEF limiterVars, bucket, window, Level
  <2> QED
    BY <2>1, <2>2, <2>3, <2>4, <2>5 DEF LimiterNext
<1> QED
  BY <1>1, <1>2, LimiterTypeCorrect, PTL DEF LimiterSpec, BucketSpec, Bucket!Spec
==============================================================================
