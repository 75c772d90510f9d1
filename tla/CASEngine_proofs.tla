-------------------------- MODULE CASEngine_proofs --------------------------
(***************************************************************************)
(* The store is whole once its writers are done, for every number of       *)
(* processes, contents and chunks.  A chunk that is missing from a file is *)
(* still to come: some process has the file open and has not passed the    *)
(* chunk (MissingIsComing).  Emptying the file under another process keeps *)
(* this, for whoever empties it starts from the first chunk.               *)
(*                                                                         *)
(* That an acknowledged content becomes whole is liveness; its two halves  *)
(* are safety, and here: somebody is still to fill the file (AckedIsComing)*)
(* and no write() goes on for more than K + 3 steps (CallsEnd).            *)
(***************************************************************************)
EXTENDS CASEngine, TLAPS

MissingIsComing ==
    \A b \in Blobs :
        exists[b] /\ ~failed[b] =>
            \A k \in (1..K) \ chunks[b] :
                \E w \in Writers : arg[w] = b /\ pc[w] = "write" /\ next[w] <= k

\* Whoever writes has created the file, so a returned hash has a file.
WritingExists == \A w \in Writers : pc[w] = "write" => exists[arg[w]]

AckedExists == \A b \in Blobs : acked[b] => exists[b]

IInv == TypeOK /\ MissingIsComing /\ WritingExists /\ AckedExists

\* At most so many steps of its own are left to a call of w.
Left(w) ==
    CASE pc[w] = "idle"  -> 0
      [] pc[w] = "check" -> K + 3
      [] pc[w] = "open"  -> K + 2
      [] pc[w] = "write" -> K + 2 - next[w]

\* A returned hash names a whole file, one a process is about to fill, or one
\* that a dying write left.
AckedIsComing == \A b \in Blobs : acked[b] => Whole(b) \/ BeingWritten(b) \/ failed[b]

\* A writer that is alone opens no file whose hash it has returned.
WritesUnacked ==
    \A w \in Writers : pc[w] \in {"open", "write"} => ~acked[arg[w]]

-----------------------------------------------------------------------------
LEMMA InitIInv == Init => IInv
  BY ChunkAssumption
     DEF Init, IInv, TypeOK, MissingIsComing, WritingExists, AckedExists

\* Every step keeps the types.
LEMMA NextTypeOK == TypeOK /\ [Next]_vars => TypeOK'
<1> SUFFICES ASSUME TypeOK, [Next]_vars PROVE TypeOK'
  OBVIOUS
<1> USE ChunkAssumption DEF TypeOK
<1>1. ASSUME NEW w \in Writers, NEW b \in Blobs, Call(w, b) PROVE TypeOK'
  BY <1>1 DEF Call
<1>2. ASSUME NEW w \in Writers, Deduplicate(w) PROVE TypeOK'
  BY <1>2 DEF Deduplicate, Ack
<1>3. ASSUME NEW w \in Writers, Miss(w) PROVE TypeOK'
  BY <1>3 DEF Miss
<1>4. ASSUME NEW w \in Writers, Open(w) PROVE TypeOK'
  BY <1>4 DEF Open
<1>5. ASSUME NEW w \in Writers, WriteChunk(w) PROVE TypeOK'
  BY <1>5 DEF WriteChunk
<1>6. ASSUME NEW w \in Writers, Return(w) PROVE TypeOK'
  BY <1>6 DEF Return, Ack
<1>7. ASSUME NEW w \in Writers, Fail(w) PROVE TypeOK'
  BY <1>7 DEF Fail
<1>8. CASE UNCHANGED vars
  BY <1>8 DEF vars
<1> QED
  BY <1>1, <1>2, <1>3, <1>4, <1>5, <1>6, <1>7, <1>8 DEF Next, WriteStep

\* Every step keeps the promise that a missing chunk is coming.
LEMMA NextMissing == IInv /\ [Next]_vars => MissingIsComing'
<1> SUFFICES ASSUME IInv, [Next]_vars,
                    NEW b \in Blobs, exists'[b], ~failed'[b],
                    NEW k \in (1..K) \ chunks'[b]
             PROVE  \E w \in Writers : arg'[w] = b /\ pc'[w] = "write" /\ next'[w] <= k
  BY DEF MissingIsComing
<1> DEFINE Coming(w) == arg[w] = b /\ pc[w] = "write" /\ next[w] <= k
           Comes == \E w \in Writers : Coming(w)'
<1> USE ChunkAssumption DEF IInv, TypeOK
\* Unless the step opened the file, the chunk was missing and coming before it.
<1>0. ASSUME exists[b], ~failed[b], k \notin chunks[b]
      PROVE  \E w \in Writers : Coming(w)
  BY <1>0 DEF MissingIsComing
<1>1. ASSUME NEW v \in Writers, NEW c \in Blobs, Call(v, c) PROVE Comes
  BY <1>0, <1>1 DEF Call
<1>2. ASSUME NEW v \in Writers, Deduplicate(v) PROVE Comes
  BY <1>0, <1>2 DEF Deduplicate
<1>3. ASSUME NEW v \in Writers, Miss(v) PROVE Comes
  BY <1>0, <1>3 DEF Miss
<1>4. ASSUME NEW v \in Writers, Open(v) PROVE Comes
  <2>1. CASE arg[v] = b
    <3>1. Coming(v)'
      BY <1>4, <2>1 DEF Open
    <3> QED
      BY <3>1
  <2>2. CASE arg[v] # b
    BY <1>0, <1>4, <2>2 DEF Open
  <2> QED
    BY <2>1, <2>2
<1>5. ASSUME NEW v \in Writers, WriteChunk(v) PROVE Comes
  <2>1. PICK w \in Writers : Coming(w)
    BY <1>0, <1>5 DEF WriteChunk
  <2>2. CASE w # v
    BY <1>5, <2>1, <2>2 DEF WriteChunk
  <2>3. CASE w = v
    <3>1. next[v] # k
      BY <1>5, <2>1, <2>3 DEF WriteChunk
    <3>2. Coming(v)'
      BY <1>5, <2>1, <2>3, <3>1 DEF WriteChunk
    <3> QED
      BY <3>2
  <2> QED
    BY <2>2, <2>3
<1>6. ASSUME NEW v \in Writers, Return(v) PROVE Comes
  <2>1. PICK w \in Writers : Coming(w)
    BY <1>0, <1>6 DEF Return
  <2>2. w # v
    BY <1>6, <2>1 DEF Return
  <2> QED
    BY <1>6, <2>1, <2>2 DEF Return
<1>7. ASSUME NEW v \in Writers, Fail(v) PROVE Comes
  <2>0. ~failed[b]
    BY <1>7 DEF Fail
  <2>1. PICK w \in Writers : Coming(w)
    BY <1>0, <1>7, <2>0 DEF Fail
  <2>2. w # v
    BY <1>7, <2>1 DEF Fail
  <2> QED
    BY <1>7, <2>1, <2>2 DEF Fail
<1>8. CASE UNCHANGED vars
  BY <1>0, <1>8 DEF vars
<1> QED
  BY <1>1, <1>2, <1>3, <1>4, <1>5, <1>6, <1>7, <1>8 DEF Next, WriteStep

\* Files are never removed, and no hash is returned before there is one.
LEMMA NextExists == IInv /\ [Next]_vars => WritingExists' /\ AckedExists'
<1> SUFFICES ASSUME IInv, [Next]_vars PROVE WritingExists' /\ AckedExists'
  OBVIOUS
<1> USE DEF IInv, TypeOK, WritingExists, AckedExists
<1>1. ASSUME NEW w \in Writers, NEW b \in Blobs, Call(w, b)
      PROVE  WritingExists' /\ AckedExists'
  BY <1>1 DEF Call
<1>2. ASSUME NEW w \in Writers, Deduplicate(w) PROVE WritingExists' /\ AckedExists'
  BY <1>2 DEF Deduplicate, Ack
<1>3. ASSUME NEW w \in Writers, Miss(w) PROVE WritingExists' /\ AckedExists'
  BY <1>3 DEF Miss
<1>4. ASSUME NEW w \in Writers, Open(w) PROVE WritingExists' /\ AckedExists'
  BY <1>4 DEF Open
<1>5. ASSUME NEW w \in Writers, WriteChunk(w) PROVE WritingExists' /\ AckedExists'
  BY <1>5 DEF WriteChunk
<1>6. ASSUME NEW w \in Writers, Return(w) PROVE WritingExists' /\ AckedExists'
  BY <1>6 DEF Return, Ack
<1>7. ASSUME NEW w \in Writers, Fail(w) PROVE WritingExists' /\ AckedExists'
  BY <1>7 DEF Fail
<1>8. CASE UNCHANGED vars
  BY <1>8 DEF vars
<1> QED
  BY <1>1, <1>2, <1>3, <1>4, <1>5, <1>6, <1>7, <1>8 DEF Next, WriteStep

\* What is stored and not being written stays so in a step.
LEMMA NextStored ==
    ASSUME NEW b \in Blobs, TypeOK, [Next]_vars, Whole(b), ~BeingWritten(b)
    PROVE  Whole(b)' /\ ~BeingWritten(b)'
<1> USE DEF TypeOK, Whole, BeingWritten
<1>1. ASSUME NEW w \in Writers, NEW c \in Blobs, Call(w, c)
      PROVE  Whole(b)' /\ ~BeingWritten(b)'
  BY <1>1 DEF Call
<1>2. ASSUME NEW w \in Writers, Deduplicate(w) PROVE Whole(b)' /\ ~BeingWritten(b)'
  BY <1>2 DEF Deduplicate
<1>3. ASSUME NEW w \in Writers, Miss(w) PROVE Whole(b)' /\ ~BeingWritten(b)'
  BY <1>3 DEF Miss
<1>4. ASSUME NEW w \in Writers, Open(w) PROVE Whole(b)' /\ ~BeingWritten(b)'
  BY <1>4 DEF Open
<1>5. ASSUME NEW w \in Writers, WriteChunk(w) PROVE Whole(b)' /\ ~BeingWritten(b)'
  BY <1>5 DEF WriteChunk
<1>6. ASSUME NEW w \in Writers, Return(w) PROVE Whole(b)' /\ ~BeingWritten(b)'
  BY <1>6 DEF Return
<1>7. ASSUME NEW w \in Writers, Fail(w) PROVE Whole(b)' /\ ~BeingWritten(b)'
  BY <1>7 DEF Fail
<1>8. CASE UNCHANGED vars
  BY <1>8 DEF vars
<1> QED
  BY <1>1, <1>2, <1>3, <1>4, <1>5, <1>6, <1>7, <1>8 DEF Next, WriteStep

\* Every step of a call shortens it, and no step of another lengthens it.
LEMMA StepsShorten ==
    ASSUME TypeOK, [Next]_vars, NEW w \in Writers, pc[w] # "idle"
    PROVE  /\ Left(w) \in Nat \ {0}
           /\ Left(w)' \in Nat
           /\ Left(w)' <= Left(w)
           /\ WriteStep(w) => Left(w)' < Left(w)
<1> USE ChunkAssumption DEF TypeOK
<1>0. Left(w) \in Nat \ {0}
  BY DEF Left
<1> DEFINE Shorter == Left(w)' \in Nat /\ Left(w)' < Left(w)
           Same == Left(w)' = Left(w)
<1>1. ASSUME Deduplicate(w) PROVE Shorter
  BY <1>1 DEF Deduplicate, Left
<1>2. ASSUME Miss(w) PROVE Shorter
  BY <1>2 DEF Miss, Left
<1>3. ASSUME Open(w) PROVE Shorter
  BY <1>3 DEF Open, Left
<1>4. ASSUME WriteChunk(w) PROVE Shorter
  BY <1>4 DEF WriteChunk, Left
<1>5. ASSUME Return(w) PROVE Shorter
  BY <1>5 DEF Return, Left
<1>6. ASSUME Fail(w) PROVE Shorter
  BY <1>6 DEF Fail, Left
<1>7. ASSUME NEW v \in Writers, v # w, WriteStep(v) \/ Fail(v) PROVE Same
  BY <1>7 DEF WriteStep, Deduplicate, Miss, Open, WriteChunk, Return, Fail, Left
<1>8. ASSUME NEW v \in Writers, NEW b \in Blobs, Call(v, b) PROVE Same
  BY <1>8 DEF Call, Left
<1>9. ASSUME UNCHANGED vars PROVE Same
  BY <1>9 DEF vars, Left
<1>10. WriteStep(w) => Shorter
  BY <1>1, <1>2, <1>3, <1>4, <1>5 DEF WriteStep
<1>11. Shorter \/ Same
  BY <1>6, <1>7, <1>8, <1>9, <1>10 DEF Next, vars
<1> QED
  BY <1>0, <1>10, <1>11

-----------------------------------------------------------------------------
\* The inductive invariant holds in every reachable state.
THEOREM Invariant == Spec => []IInv
<1>1. IInv /\ [Next]_vars => IInv'
  BY NextTypeOK, NextMissing, NextExists DEF IInv
<1> QED
  BY <1>1, InitIInv, PTL DEF Spec

\* Files, writers and their progress keep their types.
THEOREM TypeCorrect == Spec => []TypeOK
  BY Invariant, PTL DEF IInv

\* A file that nobody is writing, and in which no write died, is whole.
THEOREM QuiescentFileIsWhole == Spec => []QuiescentIsWhole
<1>1. IInv => QuiescentIsWhole
  BY DEF IInv, TypeOK, MissingIsComing, QuiescentIsWhole, BeingWritten, Whole
<1> QED
  BY <1>1, Invariant, PTL

\* The hash a caller got names a file that is whole, that a process has still
\* to fill, or that a dying write left short: what AckedBecomesWhole needs of
\* the state, fairness aside.
THEOREM AckedFileIsComing == Spec => []AckedIsComing
<1>1. IInv => QuiescentIsWhole
  BY DEF IInv, TypeOK, MissingIsComing, QuiescentIsWhole, BeingWritten, Whole
<1>2. IInv => AckedIsComing
  BY <1>1 DEF IInv, TypeOK, AckedExists, AckedIsComing, QuiescentIsWhole
<1> QED
  BY <1>2, Invariant, PTL

\* write() takes at most K + 3 steps of its own, and no other process can make
\* it take more: what AckedBecomesWhole needs of the steps.
THEOREM CallsEnd ==
    Spec => [][\A w \in Writers : pc[w] # "idle" =>
                  /\ Left(w) \in 1..(K + 3)
                  /\ Left(w)' <= Left(w)
                  /\ WriteStep(w) => Left(w)' < Left(w)]_vars
<1> DEFINE Shortens == \A w \in Writers : pc[w] # "idle" =>
                          /\ Left(w) \in 1..(K + 3)
                          /\ Left(w)' <= Left(w)
                          /\ WriteStep(w) => Left(w)' < Left(w)
<1>1. IInv /\ [Next]_vars => [Shortens]_vars
  <2> SUFFICES ASSUME IInv, [Next]_vars, NEW w \in Writers, pc[w] # "idle"
               PROVE  /\ Left(w) \in 1..(K + 3)
                      /\ Left(w)' <= Left(w)
                      /\ WriteStep(w) => Left(w)' < Left(w)
    OBVIOUS
  <2>1. Left(w) \in 1..(K + 3)
    BY ChunkAssumption DEF IInv, TypeOK, Left
  <2> QED
    BY <2>1, StepsShorten DEF IInv
<1> QED
  BY <1>1, Invariant, PTL DEF Spec

\* "Exactly once" as cas.py means it, a returned hash names the content, needs
\* two things the daemon and the proxy do not give it: a single process in the
\* directory, and no write that dies.
THEOREM AckedIsWholeIfAlone ==
    ASSUME \A v, w \in Writers : v = w
    PROVE  Spec /\ [](\A b \in Blobs : ~failed[b]) => []AckedIsWhole
<1> DEFINE NoneDied == \A b \in Blobs : ~failed[b]
<1>1. Init => WritesUnacked
  BY DEF Init, WritesUnacked
<1>2. IInv /\ WritesUnacked /\ [Next]_vars => WritesUnacked'
  BY DEF IInv, TypeOK, AckedExists, WritesUnacked, Next, WriteStep, Call, Deduplicate,
         Miss, Open, WriteChunk, Return, Fail, Ack, vars
<1>3. IInv /\ WritesUnacked /\ NoneDied => AckedIsWhole
  <2>1. IInv => AckedIsComing
    BY DEF IInv, TypeOK, MissingIsComing, AckedExists, AckedIsComing, BeingWritten, Whole
  <2> QED
    BY <2>1 DEF WritesUnacked, AckedIsComing, BeingWritten, AckedIsWhole
<1> HIDE DEF NoneDied
<1>4. Spec /\ []NoneDied => []AckedIsWhole
  BY <1>1, <1>2, <1>3, Invariant, PTL DEF Spec
<1> QED
  BY <1>4 DEF NoneDied

\* A content that is stored and not being written stays stored for ever.
THEOREM StoredForEver == Spec => StoredStays
<1> SUFFICES ASSUME NEW b \in Blobs
             PROVE  Spec => [](Whole(b) /\ ~BeingWritten(b) =>
                                  [](Whole(b) /\ ~BeingWritten(b)))
  BY DEF StoredStays
<1> DEFINE Stored == Whole(b) /\ ~BeingWritten(b)
<1>1. IInv /\ [Next]_vars /\ Stored => Stored'
  BY NextStored DEF IInv
<1> HIDE DEF Stored
<1>2. Spec => [](Stored => []Stored)
  BY <1>1, Invariant, PTL DEF Spec
<1> QED
  BY <1>2 DEF Stored
=============================================================================
