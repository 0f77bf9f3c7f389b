----------------------------- MODULE RateLimiter -----------------------------
(***************************************************************************)
(* The RateLimiter of the signaling server (server/security.js), one for   *)
(* all sockets, keyed by client IP.  It is a lazy token bucket: a record   *)
(* is refilled only when its client sends, and cleanup, which the server   *)
(* calls with every sweep, deletes the records that have been idle.        *)
(*                                                                         *)
(* Time is counted in ticks in which a bucket gains Refill tokens; instead *)
(* of lastRefill a record has the number of ticks since then.              *)
(***************************************************************************)
EXTENDS Naturals

CONSTANTS
  Key,          \* client addresses
  MaxTokens,    \* maxTokens
  Refill,       \* tokens a bucket gains per tick
  IdleTimeout,  \* idleTimeoutMs, in ticks
  MaxElapsed,   \* bound on the length of the observed window
  Absent

\* The last conjunct is what makes cleanup harmless: an idle bucket has filled
\* up by the time it is deleted (signaling.js: 500 tokens, 250 per second, 60 s).
ASSUME RateAssumption ==
  /\ MaxTokens \in Nat \ {0} /\ Refill \in Nat /\ IdleTimeout \in Nat
  /\ MaxElapsed \in Nat
  /\ Absent \notin Nat
  /\ MaxTokens <= IdleTimeout * Refill

VARIABLES
  tokens,    \* clients: the tokens of each record, or Absent
  idle,      \* ticks since lastRefill (IdleTimeout + 1: longer than that)
  admitted,  \* messages of each client admitted in the observed window
  elapsed    \* ticks since the observed window began

bucket == <<tokens, idle>>
window == <<admitted, elapsed>>
limiterVars == <<bucket, window>>

Least(a, b) == IF a < b THEN a ELSE b

LimiterTypeOK ==
  /\ tokens \in [Key -> 0 .. MaxTokens \cup {Absent}]
  /\ idle \in [Key -> 0 .. IdleTimeout + 1]
  /\ admitted \in [Key -> Nat]
  /\ elapsed \in Nat

LimiterInit ==
  /\ tokens = [k \in Key |-> Absent]
  /\ idle = [k \in Key |-> 0]
  /\ admitted = [k \in Key |-> 0]
  /\ elapsed = 0

\* The tokens tryConsume finds: a new record is full, another one is refilled.
Level(k) == IF tokens[k] = Absent THEN MaxTokens
            ELSE Least(MaxTokens, tokens[k] + idle[k] * Refill)

\* Mutant: lastRefill is left as it was when a message is admitted.
TryConsumeKeepsTime(k) ==
  /\ tokens' = [tokens EXCEPT ![k] = IF Level(k) >= 1 THEN Level(k) - 1 ELSE Level(k)]
  /\ idle' = idle
  /\ admitted' = [admitted EXCEPT ![k] = IF Level(k) >= 1 THEN @ + 1 ELSE @]
  /\ UNCHANGED elapsed

\* tryConsume; it is also what brings the record up to date.
TryConsume(k) ==
  /\ tokens' = [tokens EXCEPT ![k] = IF Level(k) >= 1 THEN Level(k) - 1 ELSE Level(k)]
  /\ idle' = [idle EXCEPT ![k] = 0]
  /\ admitted' = [admitted EXCEPT ![k] = IF Level(k) >= 1 THEN @ + 1 ELSE @]
  /\ UNCHANGED elapsed

Admits(k) == Level(k) >= 1

\* Time passes.
Tick ==
  /\ elapsed < MaxElapsed
  /\ elapsed' = elapsed + 1
  /\ idle' = [k \in Key |-> IF tokens[k] = Absent THEN 0
                            ELSE Least(idle[k] + 1, IdleTimeout + 1)]
  /\ UNCHANGED <<tokens, admitted>>

\* Mutant: a record is deleted as soon as a sweep finds it idle.
CleanupEarly ==
  LET old == {k \in Key : tokens[k] # Absent /\ idle[k] > 0}
  IN /\ tokens' = [k \in Key |-> IF k \in old THEN Absent ELSE tokens[k]]
     /\ idle' = [k \in Key |-> IF k \in old THEN 0 ELSE idle[k]]
     /\ UNCHANGED window

\* cleanup
Cleanup ==
  LET old == {k \in Key : tokens[k] # Absent /\ idle[k] > IdleTimeout}
  IN /\ tokens' = [k \in Key |-> IF k \in old THEN Absent ELSE tokens[k]]
     /\ idle' = [k \in Key |-> IF k \in old THEN 0 ELSE idle[k]]
     /\ UNCHANGED window

\* An observer starts a new window: nothing of the code, but it may be any time.
Observe ==
  /\ admitted' = [k \in Key |-> 0]
  /\ elapsed' = 0
  /\ UNCHANGED bucket

LimiterNext == Tick \/ Cleanup \/ Observe \/ \E k \in Key : TryConsume(k)

LimiterSpec == LimiterInit /\ [][LimiterNext]_limiterVars
------------------------------------------------------------------------------
\* In no stretch of time, wherever it begins, are more messages of a client
\* admitted than its bucket holds and gains meanwhile; that a record is refilled
\* late, or deleted and made anew, changes nothing.
WindowBound == \A k \in Key : admitted[k] <= MaxTokens + Refill * elapsed

\* The inductive form: what is left in the bucket counts too.
WindowInv ==
  /\ LimiterTypeOK
  /\ \A k \in Key : Level(k) + admitted[k] <= MaxTokens + Refill * elapsed

\* The lazy limiter with its cleanup implements the bucket that is refilled all
\* the time: nobody can tell a deleted record from a full one.
Bucket == INSTANCE TokenBucket WITH level <- [k \in Key |-> Level(k)]
BucketSpec == Bucket!Spec
==============================================================================
