----------------------------- MODULE Reassembler -----------------------------
(***************************************************************************)
(* FileReassembler (src/protocol/reassembler.js) with its MemoryChunkSink: *)
(* frames are received concurrently, since decryption is asynchronous and  *)
(* completes in any order, and finalize yields to the event loop while it  *)
(* hashes.  A frame is the index it claims and what its ciphertext is:     *)
(* "original", the chunk of the file; "conflict", another plaintext with a *)
(* valid tag; "damaged", rejected by decryption.  Chunk and tag are        *)
(* identified, as the tag is a function of the plaintext.                  *)
(*                                                                         *)
(* abort() has no caller in src/ and is left out.                          *)
(***************************************************************************)
EXTENDS Naturals, FiniteSets

CONSTANTS
  NumChunks,    \* totalChunks
  YieldEvery,   \* chunks hashed between two yields (256)
  Contents,     \* which of the three frames may carry
  Copies        \* bound: times the same frame arrives

ASSUME ReassemblerAssumption ==
  /\ NumChunks \in Nat \ {0} /\ YieldEvery \in Nat \ {0} /\ Copies \in Nat
  /\ Contents \subseteq {"original", "conflict", "damaged"}

Index == 1 .. NumChunks
Frame == [index : Index, content : Contents]
None == "none"
Original == [i \in Index |-> "original"]

VARIABLES
  isApproved,
  received,    \* receivedChunkIndices
  chunkTags,   \* of the accepted chunks
  chunks,      \* of the sink
  decrypting,  \* per frame, how many of it are being decrypted
  arrived,     \* per frame, how often it came (bounds the model)
  phase,       \* of finalize: "no", "hashing", "failed", "done" (isFinalized)
  hashed,      \* the chunks hashed so far
  file         \* what finalize returned

vars == <<isApproved, received, chunkTags, chunks, decrypting, arrived, phase, hashed, file>>

Stored == Contents \cup {None}

TypeOK ==
  /\ isApproved \in BOOLEAN /\ received \subseteq Index
  /\ chunkTags \in [Index -> Stored] /\ chunks \in [Index -> Stored]
  /\ decrypting \in [Frame -> 0 .. Copies] /\ arrived \in [Frame -> 0 .. Copies]
  /\ phase \in {"no", "hashing", "failed", "done"}
  /\ \E n \in 0 .. NumChunks : hashed \in [1 .. n -> Contents]
  /\ file \in [Index -> Stored]
  /\ phase # "no" => received = Index

Init ==
  /\ isApproved = FALSE /\ received = {} /\ phase = "no" /\ hashed = <<>>
  /\ chunkTags = [i \in Index |-> None] /\ chunks = [i \in Index |-> None]
  /\ decrypting = [f \in Frame |-> 0] /\ arrived = [f \in Frame |-> 0]
  /\ file = [i \in Index |-> None]
------------------------------------------------------------------------------
approve ==
  /\ isApproved' = TRUE
  /\ UNCHANGED <<received, chunkTags, chunks, decrypting, arrived, phase, hashed, file>>

\* A frame that receiveChunk neither rejects nor ignores: it is decrypted.
Accepts(f) == phase # "done" /\ f.index \notin received

\* receiveChunk up to the decryption; it throws before the approval.
receiveChunk(f) ==
  /\ isApproved
  /\ arrived[f] < Copies /\ arrived' = [arrived EXCEPT ![f] = @ + 1]
  /\ decrypting' = IF Accepts(f) THEN [decrypting EXCEPT ![f] = @ + 1] ELSE decrypting
  /\ UNCHANGED <<isApproved, received, chunkTags, chunks, phase, hashed, file>>

\* Mutant: the tag of the first duplicate is kept with the chunk of the last.
StoreFirstTag(f) ==
  /\ chunks' = [chunks EXCEPT ![f.index] = f.content]
  /\ received' = received \cup {f.index}
  /\ chunkTags' = [chunkTags EXCEPT ![f.index] = IF @ = None THEN f.content ELSE @]

\* Mutant: the index is recorded without the chunk.
StoreIndexOnly(f) ==
  /\ received' = received \cup {f.index}
  /\ chunkTags' = [chunkTags EXCEPT ![f.index] = f.content]
  /\ UNCHANGED chunks

\* The write to the sink and the records of it.
Store(f) ==
  /\ chunks' = [chunks EXCEPT ![f.index] = f.content]
  /\ received' = received \cup {f.index}
  /\ chunkTags' = [chunkTags EXCEPT ![f.index] = f.content]

\* receiveChunk after the decryption: nothing is looked up again.
Decrypted(f) ==
  /\ decrypting[f] > 0 /\ decrypting' = [decrypting EXCEPT ![f] = @ - 1]
  /\ IF f.content # "damaged" THEN Store(f) ELSE UNCHANGED <<chunks, received, chunkTags>>
  /\ UNCHANGED <<isApproved, arrived, phase, hashed, file>>

\* Mutant: one chunk short of complete.
AlmostComplete == Cardinality(received) + 1 >= NumChunks

isComplete == Cardinality(received) = NumChunks

\* finalize is called: after a chunk that completed the file, or on COMPLETE; the
\* page does not call it while a call of it is under way.
finalize ==
  /\ isApproved /\ phase \in {"no", "failed"} /\ isComplete
  /\ phase' = "hashing" /\ hashed' = <<>>
  /\ UNCHANGED <<isApproved, received, chunkTags, chunks, decrypting, arrived, file>>

\* Once n chunks are hashed the loop yields.
YieldsAfter(n) == n > 1 /\ (n - 1) % YieldEvery = 0

\* Where the loop may stop, n chunks being hashed, and where it does.
Stops(n) == {m \in n .. NumChunks : m = NumChunks \/ (m > n /\ YieldsAfter(m))}
NextStop(n) == CHOOSE m \in Stops(n) : \A k \in Stops(n) : m <= k

\* Mutant: the digest covers all chunks but the last.
VerifiedButLast(h) == \A i \in 1 .. NumChunks - 1 : h[i] = Original[i]

\* The digest equals that of the manifest.
Verified(h) == h = Original

\* The loop runs until it yields; at its end the digest is compared, and the sink
\* assembles the file or is emptied.
Hash ==
  LET n == Cardinality(DOMAIN hashed)
      m == NextStop(n)
      now == [i \in 1 .. m |-> IF i <= n THEN hashed[i] ELSE chunks[i]]
      ends == m = NumChunks /\ (n = m \/ ~YieldsAfter(m))
  IN /\ phase = "hashing"
     /\ \/ /\ \E i \in n + 1 .. m : chunks[i] = None
           /\ phase' = "failed"
           /\ UNCHANGED <<hashed, file, chunks>>
        \/ /\ \A i \in n + 1 .. m : chunks[i] # None
           /\ hashed' = now
           /\ \/ ~ends /\ UNCHANGED <<phase, file, chunks>>
              \/ ends /\ Verified(now) /\ phase' = "done" /\ file' = chunks /\ UNCHANGED chunks
              \/ /\ ends /\ ~Verified(now)
                 /\ phase' = "failed" /\ chunks' = [i \in Index |-> None]
                 /\ UNCHANGED file
     /\ UNCHANGED <<isApproved, received, chunkTags, decrypting, arrived>>

Next ==
  \/ approve \/ finalize \/ Hash
  \/ \E f \in Frame : receiveChunk(f) \/ Decrypted(f)

Spec == Init /\ [][Next]_vars

\* The frames of the file come (DataChannels deliver), a decryption completes and
\* the page runs finalize once the file is complete.
FairSpec ==
  /\ Spec /\ WF_vars(approve) /\ WF_vars(finalize) /\ WF_vars(Hash)
  /\ \A f \in Frame : WF_vars(Decrypted(f)) /\ (f.content # "original" \/ WF_vars(receiveChunk(f)))
------------------------------------------------------------------------------
\* The tag a later duplicate is compared with is that of the chunk that is stored,
\* whatever duplicates were decrypted at the same time; only a failed verification
\* empties the sink.
TagsMatchChunks ==
  \A i \in received :
    /\ chunkTags[i] # None
    /\ chunks[i] = chunkTags[i] \/ (phase # "no" /\ chunks[i] = None)

\* "Mandatory Integrity Check": a file is returned only if it is the one of the
\* manifest.
ReturnedIsVerified == phase = "done" => file = Original

\* "conflicting duplicates (mismatched tag) are rejected": the chunk accepted for an
\* index is never replaced by another one.
ConflictsRejected ==
  [][\A i \in received : chunkTags'[i] = chunkTags[i]]_vars

\* Retransmitted and damaged frames do not keep a file from being returned.
Conflicted == \E f \in Frame : f.content = "conflict" /\ arrived[f] > 0
FileReturned == <>(phase = "done" \/ Conflicted)
==============================================================================
