------------------------- MODULE TlsManager_proofs --------------------------
(***************************************************************************)
(* The certificate and its key, for every number of processes and keys.  As*)
(* long as no process died inside the certificate and no two generated at  *)
(* once, there is one writer and no certificate before its key.            *)
(***************************************************************************)
EXTENDS TlsManager, TLAPS

\* While nothing went wrong: one process at most generates, there is no
\* certificate until it writes one, and then there is a pair for good.
OneWriter == \A p, q \in Procs : Generating(p) /\ Generating(q) => p = q

CertAtStep ==
    \A p \in Procs :
        /\ writer[p].at \in {"key", "keyOpen", "cert"} => certFile = Absent
        /\ writer[p].at \in {"cert", "certOpen"} => keyFile = writer[p].key
        /\ writer[p].at = "certOpen" => certFile = Broken

CertAtRest ==
    (\A p \in Procs : ~Generating(p)) =>
        certFile = Absent \/ (certFile \in Nat /\ keyFile = certFile)

LoadedIsPair == \A p \in Procs : \A k \in loaded[p] : keyFile = k /\ certFile = k

TMInv ==
    /\ TMTypeOK
    /\ torn \/ raced \/ (OneWriter /\ CertAtStep /\ CertAtRest /\ LoadedIsPair)

LEMMA TMNextTypeOK == TMTypeOK /\ [TMNext]_tmVars => TMTypeOK'
<1> SUFFICES ASSUME TMTypeOK, [TMNext]_tmVars PROVE TMTypeOK'
  OBVIOUS
<1> USE DEF TMTypeOK
<1>1. ASSUME NEW p \in Procs, CreateContext(p) PROVE TMTypeOK'
  <2>1. CASE Reuse(p) \/ Given(p)
    BY <2>1 DEF Reuse, Given, Goto, Steps
  <2>5. CASE Generate(p)
    <3>1. writer' \in [Procs -> [at : Steps, key : Nat]] /\ made' \in Nat
      BY <2>5 DEF Generate, Steps
    <3>2. raced' \in BOOLEAN
      BY <2>5, Zenon DEF Generate
    <3> QED
      BY <2>5, <3>1, <3>2 DEF Generate
  <2>2. CASE OpenKey(p) \/ WriteKey(p)
    BY <2>2 DEF OpenKey, WriteKey, Goto, Steps, Files
  <2>3. CASE OpenCert(p) \/ WriteCert(p)
    BY <2>3 DEF OpenCert, WriteCert, Goto, Steps, Files
  <2>4. CASE Load(p)
    BY <2>4 DEF Load, Resting, Steps
  <2> QED
    BY <1>1, <2>1, <2>2, <2>3, <2>4, <2>5 DEF CreateContext
<1>2. ASSUME NEW p \in Procs, Die(p) PROVE TMTypeOK'
  BY <1>2 DEF Die, Resting, Steps
<1>3. CASE UNCHANGED tmVars
  BY <1>3 DEF tmVars
<1> QED
  BY <1>1, <1>2, <1>3 DEF TMNext

LEMMA TMNextInv == TMInv /\ [TMNext]_tmVars => TMInv'
<1> SUFFICES ASSUME TMInv, [TMNext]_tmVars PROVE TMInv'
  OBVIOUS
<1>0. TMTypeOK /\ TMTypeOK'
  BY TMNextTypeOK DEF TMInv
<1>1. torn \/ raced => torn' \/ raced'
  BY DEF TMNext, CreateContext, Reuse, Given, Generate, OpenKey, WriteKey, OpenCert, WriteCert,
         Load, Die, tmVars
<1> SUFFICES ASSUME ~torn', ~raced'
             PROVE  OneWriter' /\ CertAtStep' /\ CertAtRest' /\ LoadedIsPair'
  BY <1>0 DEF TMInv
<1>2. /\ ~torn /\ ~raced
      /\ OneWriter /\ CertAtStep /\ CertAtRest /\ LoadedIsPair
  BY <1>1 DEF TMInv
<1>3. /\ writer \in [Procs -> [at : Steps, key : Nat]]
      /\ loaded \in [Procs -> SUBSET Nat]
      /\ made \in Nat
      /\ Absent \notin Nat /\ Broken \notin Nat /\ Absent # Broken
  BY <1>0, FileAssumption DEF TMTypeOK
<1> USE <1>2, <1>3 DEF OneWriter, CertAtStep, CertAtRest, LoadedIsPair, Generating
<1>4. ASSUME NEW p \in Procs, Reuse(p) \/ Given(p)
      PROVE  OneWriter' /\ CertAtStep' /\ CertAtRest' /\ LoadedIsPair'
  BY <1>4 DEF Reuse, Given, Goto
<1>5. ASSUME NEW p \in Procs, Generate(p)
      PROVE  OneWriter' /\ CertAtStep' /\ CertAtRest' /\ LoadedIsPair'
  <2>1. \A q \in Procs : ~Generating(q)
    BY <1>5 DEF Generate
  <2>2. certFile = Absent
    BY <1>5, <2>1 DEF Generate, BothExist
  <2> QED
    BY <1>5, <2>1, <2>2 DEF Generate
<1>6. ASSUME NEW p \in Procs, OpenKey(p) \/ WriteKey(p)
      PROVE  OneWriter' /\ CertAtStep' /\ CertAtRest' /\ LoadedIsPair'
  <2>1. certFile = Absent /\ \A q \in Procs \ {p} : ~Generating(q)
    BY <1>6 DEF OpenKey, WriteKey
  <2>2. \A q \in Procs : loaded[q] = {}
    BY <2>1
  <2> QED
    BY <1>6, <2>1, <2>2 DEF OpenKey, WriteKey, Goto
<1>7. ASSUME NEW p \in Procs, OpenCert(p) \/ WriteCert(p)
      PROVE  OneWriter' /\ CertAtStep' /\ CertAtRest' /\ LoadedIsPair'
  <2>1. certFile \notin Nat /\ (\A q \in Procs \ {p} : ~Generating(q)) /\ keyFile = writer[p].key
    BY <1>7 DEF OpenCert, WriteCert
  <2>2. \A q \in Procs : loaded[q] = {}
    BY <2>1
  <2>3. writer[p].key \in Nat
    OBVIOUS
  <2> QED
    BY <1>7, <2>1, <2>2, <2>3 DEF OpenCert, WriteCert, Goto
<1>8. ASSUME NEW p \in Procs, Load(p)
      PROVE  OneWriter' /\ CertAtStep' /\ CertAtRest' /\ LoadedIsPair'
  BY <1>8 DEF Load, Resting
<1>9. ASSUME NEW p \in Procs, Die(p)
      PROVE  OneWriter' /\ CertAtStep' /\ CertAtRest' /\ LoadedIsPair'
  BY <1>9 DEF Die, Resting
<1>10. CASE UNCHANGED tmVars
  BY <1>10 DEF tmVars
<1> QED
  BY <1>4, <1>5, <1>6, <1>7, <1>8, <1>9, <1>10 DEF TMNext, CreateContext

\* The invariant of the TLS manager: where a certificate is while one process
\* writes the pair, and that a context is always of the pair that is there.
THEOREM ManagerInvariant == TMSpec => []TMInv
<1>1. TMInit => TMInv
  <2> SUFFICES ASSUME TMInit PROVE TMInv
    OBVIOUS
  <2>1. TMTypeOK
    BY DEF TMInit, TMTypeOK, Files, Steps, Resting
  <2>2. OneWriter /\ CertAtStep /\ CertAtRest /\ LoadedIsPair
    BY DEF TMInit, Resting, OneWriter, CertAtStep, CertAtRest, LoadedIsPair, Generating
  <2> QED
    BY <2>1, <2>2 DEF TMInv
<1> QED
  BY <1>1, TMNextInv, PTL DEF TMSpec

\* The two files, the processes and their contexts keep their shape.
THEOREM ManagerTypeCorrect == TMSpec => []TMTypeOK
<1>1. TMInv => TMTypeOK
  BY DEF TMInv
<1> QED
  BY ManagerInvariant, <1>1, PTL

\* For every number of processes that share config/certs, and every point at
\* which they die but one, a pair that ensure_self_signed_cert takes for good is.
THEOREM PairsMatch == TMSpec => []PairMatches
<1>1. TMInv => PairMatches
  <2>1. ASSUME TMInv, ~(torn \/ raced), ~(\E p \in Procs : Generating(p)), BothExist
        PROVE  keyFile \in Nat /\ certFile = keyFile
    <3>1. CertAtRest
      BY <2>1 DEF TMInv
    <3>2. certFile = Absent \/ (certFile \in Nat /\ keyFile = certFile)
      BY <2>1, <3>1, Zenon DEF CertAtRest
    <3> QED
      BY <2>1, <3>2 DEF BothExist
  <2> QED
    BY <2>1, Zenon DEF PairMatches
<1> QED
  BY ManagerInvariant, <1>1, PTL

\* Under the same conditions they all have the same identity for ever.
THEOREM IdentityIsOne == TMSpec => []OneIdentity
<1>1. TMInv => OneIdentity
  BY DEF TMInv, LoadedIsPair, OneIdentity
<1> QED
  BY ManagerInvariant, <1>1, PTL
=============================================================================
