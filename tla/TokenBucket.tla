----------------------------- MODULE TokenBucket -----------------------------
(***************************************************************************)
(* What a rate limiter promises: every key has a bucket of MaxTokens that  *)
(* is refilled all the time, and a message of the key costs one token.     *)
(***************************************************************************)
EXTENDS Naturals

CONSTANTS Key, MaxTokens, Refill

VARIABLE level

Least(a, b) == IF a < b THEN a ELSE b

Init == level = [k \in Key |-> MaxTokens]

Admit(k) == level[k] >= 1 /\ level' = [level EXCEPT ![k] = @ - 1]

Pass == level' = [k \in Key |-> Least(MaxTokens, level[k] + Refill)]

Next == Pass \/ \E k \in Key : Admit(k)

Spec == Init /\ [][Next]_level
==============================================================================
