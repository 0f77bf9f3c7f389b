-------------------------- MODULE ReassemblerProofs --------------------------
(***************************************************************************)
(* The file that finalize returns is the one of the manifest, for any      *)
(* number of chunks and any duplicates: if finalize does not yield (files  *)
(* of at most YieldEvery chunks), or if no frame conflicts with the file.  *)
(***************************************************************************)
EXTENDS Reassembler, FiniteSetTheorems, WellFoundedInduction, TLAPS

\* The file is hashed in one go, or no other plaintext has a valid tag.
Settled == NumChunks <= YieldEvery \/ "conflict" \notin Contents

\* A frame being decrypted has arrived; damaged frames are not stored; the sink
\* keeps what is hashed; a file hashed in one go is never half hashed.
ReassemblyInv ==
  /\ TypeOK
  /\ \A f \in Frame : decrypting[f] <= arrived[f]
  /\ \A i \in Index : chunks[i] # "damaged"
  /\ phase = "hashing" => \A i \in DOMAIN hashed : chunks[i] # None
  /\ phase = "hashing" /\ NumChunks <= YieldEvery => DOMAIN hashed = {}
  /\ Settled => ReturnedIsVerified

\* The loop of finalize stops at a place where it may.
LEMMA NextStopIsStop ==
  ASSUME NEW n \in 0 .. NumChunks
  PROVE  NextStop(n) \in Stops(n)
<1>. USE ReassemblerAssumption
<1>1. NumChunks \in Stops(n) /\ Stops(n) \subseteq Nat
  BY DEF Stops
<1>2. PICK m \in Stops(n) : \A k \in Stops(n) : ~(<<k, m>> \in OpToRel(<, Nat))
  BY <1>1, WFMin, NatLessThanWellFounded
<1>3. ASSUME NEW k \in Stops(n) PROVE m <= k
  <2>1. ~(<<k, m>> \in {ss \in Nat \X Nat : ss[1] < ss[2]})
    BY <1>2 DEF OpToRel
  <2>2. <<k, m>> \in Nat \X Nat
    BY <1>1
  <2>. QED
    BY <1>1, <2>1, <2>2
<1>. QED
  BY <1>3 DEF NextStop

\* A file of at most YieldEvery chunks is hashed in one go.
LEMMA OneRun ==
  ASSUME NumChunks <= YieldEvery
  PROVE  NextStop(0) = NumChunks /\ ~YieldsAfter(NumChunks)
<1>. USE ReassemblerAssumption
<1>1. ASSUME NEW m \in 1 .. NumChunks PROVE ~YieldsAfter(m)
  <2>1. m > 1 => (m - 1) % YieldEvery = m - 1
    BY <1>1
  <2>. QED
    BY <2>1 DEF YieldsAfter
<1>2. NextStop(0) \in Stops(0)
  BY NextStopIsStop
<1>. QED
  BY <1>1, <1>2 DEF Stops

\* What is complete has all the indices (isComplete compares sizes).
LEMMA CompleteIsAll == TypeOK /\ isComplete => received = Index
<1>. SUFFICES ASSUME TypeOK, isComplete PROVE received = Index
  OBVIOUS
<1>1. IsFiniteSet(Index) /\ Cardinality(Index) = NumChunks
  BY FS_Interval, ReassemblerAssumption DEF Index
<1>. QED
  BY <1>1, FS_Subset DEF TypeOK, isComplete
------------------------------------------------------------------------------
\* The invariant holds initially.
LEMMA InitReassembly == Init => ReassemblyInv
<1>. SUFFICES ASSUME Init PROVE ReassemblyInv
  OBVIOUS
<1>1. hashed \in [1 .. 0 -> Contents] /\ DOMAIN hashed = {} /\ 0 \in 0 .. NumChunks
  BY ReassemblerAssumption DEF Init
<1>2. TypeOK
  <2>1. \E k \in 0 .. NumChunks : hashed \in [1 .. k -> Contents]
    BY <1>1
  <2>2. /\ chunkTags \in [Index -> Stored] /\ chunks \in [Index -> Stored]
        /\ file \in [Index -> Stored]
    BY DEF Init, Stored
  <2>3. decrypting \in [Frame -> 0 .. Copies] /\ arrived \in [Frame -> 0 .. Copies]
    BY ReassemblerAssumption DEF Init
  <2>. QED
    BY <2>1, <2>2, <2>3 DEF Init, TypeOK
<1>. QED
  BY <1>1, <1>2, ReassemblerAssumption DEF Init, ReassemblyInv, ReturnedIsVerified, None

\* The run of the loop up to its next stop keeps the invariant.
LEMMA HashReassembly == ReassemblyInv /\ Hash => ReassemblyInv'
<1>. SUFFICES ASSUME ReassemblyInv, Hash PROVE ReassemblyInv'
  OBVIOUS
<1>. USE ReassemblerAssumption
<1>1. PICK n \in 0 .. NumChunks : hashed \in [1 .. n -> Contents]
  BY DEF ReassemblyInv, TypeOK
<1>2. Cardinality(DOMAIN hashed) = n
  BY <1>1, FS_Interval
<1>. DEFINE m == NextStop(n)
            now == [i \in 1 .. m |-> IF i <= n THEN hashed[i] ELSE chunks[i]]
            ends == m = NumChunks /\ (n = m \/ ~YieldsAfter(m))
<1>3. m \in n .. NumChunks
  BY <1>1, NextStopIsStop DEF Stops
<1>4. /\ phase = "hashing" /\ received = Index
      /\ UNCHANGED <<isApproved, received, chunkTags, decrypting, arrived>>
      /\ chunks \in [Index -> Stored] /\ file \in [Index -> Stored]
  BY DEF Hash, ReassemblyInv, TypeOK
<1>5. \A i \in 1 .. n : chunks[i] # None
  BY <1>1, <1>4 DEF ReassemblyInv
<1>. HIDE DEF m
<1>6. CASE /\ \E i \in n + 1 .. m : chunks[i] = None
           /\ phase' = "failed" /\ UNCHANGED <<hashed, file, chunks>>
  BY <1>4, <1>6 DEF ReassemblyInv, TypeOK, ReturnedIsVerified
<1>7. CASE /\ \A i \in n + 1 .. m : chunks[i] # None
           /\ hashed' = now
           /\ \/ ~ends /\ UNCHANGED <<phase, file, chunks>>
              \/ ends /\ Verified(now) /\ phase' = "done" /\ file' = chunks /\ UNCHANGED chunks
              \/ /\ ends /\ ~Verified(now)
                 /\ phase' = "failed" /\ chunks' = [i \in Index |-> None]
                 /\ UNCHANGED file
  <2>1. \A i \in 1 .. m : chunks[i] # None
    BY <1>3, <1>5, <1>7
  <2>2. hashed' \in [1 .. m -> Contents] /\ DOMAIN hashed' = 1 .. m
    BY <1>1, <1>3, <1>4, <1>7, <2>1 DEF Stored, Index
  <2>3. TypeOK'
    <3>1. m \in 0 .. NumChunks
      BY <1>3
    <3>2. (\E k \in 0 .. NumChunks : hashed \in [1 .. k -> Contents])'
      BY <2>2, <3>1
    <3>3. chunks' \in [Index -> Stored] /\ file' \in [Index -> Stored]
      BY <1>4, <1>7 DEF Stored
    <3>4. phase' \in {"hashing", "failed", "done"}
      BY <1>4, <1>7
    <3>. QED
      BY <1>4, <3>2, <3>3, <3>4 DEF ReassemblyInv, TypeOK
  <2>4. (\A f \in Frame : decrypting[f] <= arrived[f])'
    BY <1>4 DEF ReassemblyInv
  <2>5. (\A i \in Index : chunks[i] # "damaged")'
    BY <1>7 DEF ReassemblyInv, None
  <2>6. (phase = "hashing" => \A i \in DOMAIN hashed : chunks[i] # None)'
    BY <1>7, <2>1, <2>2
  <2>7. (phase = "hashing" /\ NumChunks <= YieldEvery => DOMAIN hashed = {})'
    <3>1. NumChunks <= YieldEvery => ends
      BY <1>1, <1>4, OneRun DEF ReassemblyInv, m
    <3>. QED
      BY <1>7, <3>1
  <2>8. (Settled => ReturnedIsVerified)'
    <3>. SUFFICES ASSUME Settled, phase' = "done" PROVE file' = Original
      BY DEF ReturnedIsVerified, Settled
    <3>1. file' = chunks /\ now = Original /\ m = NumChunks
      BY <1>4, <1>7 DEF Verified
    <3>2. CASE "conflict" \notin Contents
      <4>1. ASSUME NEW i \in Index PROVE chunks[i] = "original"
        <5>1. chunks[i] \in Contents /\ chunks[i] # "damaged"
          BY <1>4, <2>1, <3>1 DEF ReassemblyInv, Index, Stored
        <5>. QED
          BY <3>2, <5>1
      <4>. QED
        BY <1>4, <3>1, <4>1 DEF Original
    <3>3. CASE NumChunks <= YieldEvery
      <4>1. n = 0
        BY <1>1, <1>4, <3>3 DEF ReassemblyInv
      <4>. QED
        BY <1>4, <3>1, <4>1 DEF Index, Original
    <3>. QED
      BY <3>2, <3>3 DEF Settled
  <2>. QED
    BY <2>3, <2>4, <2>5, <2>6, <2>7, <2>8 DEF ReassemblyInv
<1>. QED
  BY <1>2, <1>6, <1>7 DEF Hash, m

\* A frame that is decrypted keeps the invariant, whatever was stored before.
LEMMA DecryptedReassembly ==
  ASSUME ReassemblyInv, NEW f \in Frame, Decrypted(f)
  PROVE  ReassemblyInv'
<1>. USE ReassemblerAssumption
<1>1. /\ f.index \in Index /\ f.content \in Contents
      /\ UNCHANGED <<isApproved, arrived, phase, hashed, file>>
  BY DEF Decrypted, Frame
<1>2. /\ decrypting' \in [Frame -> 0 .. Copies]
      /\ \A g \in Frame : decrypting'[g] <= arrived'[g]
  <2>1. decrypting[f] > 0 /\ decrypting' = [decrypting EXCEPT ![f] = decrypting[f] - 1]
    BY DEF Decrypted
  <2>. QED
    BY <1>1, <2>1 DEF ReassemblyInv, TypeOK
<1>3. CASE f.content = "damaged"
  BY <1>1, <1>2, <1>3 DEF Decrypted, ReassemblyInv, TypeOK, ReturnedIsVerified
<1>4. CASE f.content # "damaged"
  <2>1. /\ chunks' = [chunks EXCEPT ![f.index] = f.content]
        /\ received' = received \cup {f.index}
        /\ chunkTags' = [chunkTags EXCEPT ![f.index] = f.content]
    BY <1>4 DEF Decrypted, Store
  <2>2. TypeOK'
    BY <1>1, <1>2, <2>1 DEF ReassemblyInv, TypeOK, Stored
  <2>3. \A i \in Index : chunks'[i] = chunks[i] \/ chunks'[i] = f.content
    BY <1>1, <2>1 DEF ReassemblyInv, TypeOK
  <2>4. f.content # None /\ DOMAIN hashed \subseteq Index
    BY <1>1 DEF None, ReassemblyInv, TypeOK, Index
  <2>. QED
    BY <1>1, <1>2, <1>4, <2>2, <2>3, <2>4 DEF ReassemblyInv, ReturnedIsVerified, Settled
<1>. QED
  BY <1>3, <1>4

\* Every step keeps the invariant.
LEMMA NextReassembly == ReassemblyInv /\ [Next]_vars => ReassemblyInv'
<1>. SUFFICES ASSUME ReassemblyInv, [Next]_vars PROVE ReassemblyInv'
  OBVIOUS
<1>. USE ReassemblerAssumption
<1>1. CASE approve
  BY <1>1 DEF approve, ReassemblyInv, TypeOK, ReturnedIsVerified
<1>2. CASE finalize
  <2>1. received = Index
    BY <1>2, CompleteIsAll DEF finalize, ReassemblyInv
  <2>2. /\ hashed' \in [1 .. 0 -> Contents] /\ DOMAIN hashed' = {}
        /\ 0 \in 0 .. NumChunks
    BY <1>2 DEF finalize
  <2>3. TypeOK'
    <3>1. (\E k \in 0 .. NumChunks : hashed \in [1 .. k -> Contents])'
      BY <2>2
    <3>. QED
      BY <1>2, <2>1, <3>1 DEF finalize, ReassemblyInv, TypeOK
  <2>. QED
    BY <1>2, <2>2, <2>3 DEF finalize, ReassemblyInv, ReturnedIsVerified
<1>3. CASE Hash
  BY <1>3, HashReassembly
<1>4. ASSUME NEW f \in Frame, receiveChunk(f) PROVE ReassemblyInv'
  <2>1. /\ arrived[f] < Copies /\ arrived' = [arrived EXCEPT ![f] = arrived[f] + 1]
        /\ \/ decrypting' = decrypting
           \/ decrypting' = [decrypting EXCEPT ![f] = decrypting[f] + 1]
        /\ UNCHANGED <<isApproved, received, chunkTags, chunks, phase, hashed, file>>
    BY <1>4 DEF receiveChunk
  <2>2. arrived' \in [Frame -> 0 .. Copies] /\ decrypting' \in [Frame -> 0 .. Copies]
    <3>1. /\ arrived[f] \in 0 .. Copies /\ decrypting[f] \in 0 .. Copies
          /\ decrypting[f] <= arrived[f]
      BY DEF ReassemblyInv, TypeOK
    <3>2. arrived[f] + 1 \in 0 .. Copies /\ decrypting[f] + 1 \in 0 .. Copies
      BY <2>1, <3>1
    <3>. QED
      BY <2>1, <3>2 DEF ReassemblyInv, TypeOK
  <2>3. \A g \in Frame : decrypting'[g] <= arrived'[g]
    BY <2>1 DEF ReassemblyInv, TypeOK
  <2>. QED
    BY <2>1, <2>2, <2>3 DEF ReassemblyInv, TypeOK, ReturnedIsVerified
<1>5. ASSUME NEW f \in Frame, Decrypted(f) PROVE ReassemblyInv'
  BY <1>5, DecryptedReassembly
<1>6. CASE UNCHANGED vars
  BY <1>6 DEF vars, ReassemblyInv, TypeOK, ReturnedIsVerified
<1>. QED
  BY <1>1, <1>2, <1>3, <1>4, <1>5, <1>6 DEF Next

\* The types of the state of FileReassembler; hashing starts with all chunks.
THEOREM ReassemblerTypeCorrect == Spec => []TypeOK
<1>1. ReassemblyInv => TypeOK
  BY DEF ReassemblyInv
<1>. QED
  BY <1>1, InitReassembly, NextReassembly, PTL DEF Spec

\* finalize returns the file of the manifest or nothing, if it hashes the file in
\* one go or no frame conflicts with the file.
THEOREM VerifiedFile ==
  ASSUME Settled
  PROVE  Spec => []ReturnedIsVerified
<1>1. ReassemblyInv => ReturnedIsVerified
  BY DEF ReassemblyInv
<1>. QED
  BY <1>1, InitReassembly, NextReassembly, PTL DEF Spec
------------------------------------------------------------------------------
\* A step keeps the tags those of the stored chunks: a decryption writes both, and
\* only finalize empties the sink.
LEMMA TagsStep == TypeOK /\ TagsMatchChunks /\ [Next]_vars => TagsMatchChunks'
<1>. SUFFICES ASSUME TypeOK, TagsMatchChunks, [Next]_vars PROVE TagsMatchChunks'
  OBVIOUS
<1>1. CASE approve \/ UNCHANGED vars
  BY <1>1 DEF approve, vars, TagsMatchChunks
<1>2. CASE finalize
  BY <1>2 DEF finalize, TagsMatchChunks
<1>3. CASE Hash
  <2>1. /\ UNCHANGED <<received, chunkTags>> /\ phase = "hashing"
        /\ phase' \in {"hashing", "failed", "done"}
        /\ chunks' = chunks \/ chunks' = [i \in Index |-> None]
    BY <1>3 DEF Hash
  <2>2. received \subseteq Index
    BY DEF TypeOK
  <2>. QED
    BY <2>1, <2>2 DEF TagsMatchChunks
<1>4. ASSUME NEW f \in Frame, receiveChunk(f) PROVE TagsMatchChunks'
  BY <1>4 DEF receiveChunk, TagsMatchChunks
<1>5. ASSUME NEW f \in Frame, Decrypted(f) PROVE TagsMatchChunks'
  <2>1. phase' = phase /\ f.index \in Index /\ f.content \in Contents
    BY <1>5 DEF Decrypted, Frame
  <2>2. CASE f.content = "damaged"
    BY <1>5, <2>1, <2>2 DEF Decrypted, TagsMatchChunks
  <2>3. CASE f.content # "damaged"
    <3>1. /\ chunks' = [chunks EXCEPT ![f.index] = f.content]
          /\ received' = received \cup {f.index}
          /\ chunkTags' = [chunkTags EXCEPT ![f.index] = f.content]
      BY <1>5, <2>3 DEF Decrypted, Store
    <3>2. f.content # None
      BY <2>1, ReassemblerAssumption DEF None
    <3>. SUFFICES ASSUME NEW i \in received'
                  PROVE  /\ chunkTags'[i] # None
                         /\ chunks'[i] = chunkTags'[i] \/ (phase' # "no" /\ chunks'[i] = None)
      BY DEF TagsMatchChunks
    <3>3. CASE i = f.index
      BY <2>1, <3>1, <3>2, <3>3 DEF TypeOK
    <3>4. CASE i # f.index
      <4>1. i \in received /\ chunks'[i] = chunks[i] /\ chunkTags'[i] = chunkTags[i]
        BY <3>1, <3>4 DEF TypeOK
      <4>. QED
        BY <2>1, <4>1 DEF TagsMatchChunks
    <3>. QED
      BY <3>3, <3>4
  <2>. QED
    BY <2>2, <2>3
<1>. QED
  BY <1>1, <1>2, <1>3, <1>4, <1>5 DEF Next

\* receiveChunk compares a late duplicate with the tag of the chunk that is stored,
\* in whatever order the concurrent decryptions of one index completed.
THEOREM TagsAreOfStored == Spec => []TagsMatchChunks
<1>1. Init => TagsMatchChunks
  BY DEF Init, TagsMatchChunks
<1>. QED
  BY <1>1, TagsStep, ReassemblerTypeCorrect, PTL DEF Spec
==============================================================================
