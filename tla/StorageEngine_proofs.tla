------------------------ MODULE StorageEngine_proofs ------------------------
(***************************************************************************)
(* What StorageEngine guarantees for every number of callers, mails and    *)
(* identities.  The inductive invariant adds to the properties what an     *)
(* approval in progress has already committed (InProgress) and that one    *)
(* caller at a time is about to answer "discarded" (RejectInProgress).     *)
(* The last part is about a store with one caller, as the daemon's is:     *)
(* what two callers can break (OneRelease) or a death (ApprovalIsAtomic).  *)
(***************************************************************************)
EXTENDS StorageEngine, TLAPS

\* What holds of a call between two of its commits.
InProgress ==
    \A c \in Clients :
        /\ frame[c].at = "idle" => frame[c] = Idle
        /\ frame[c].at # "idle" =>
              /\ frame[c].mail \in Mails
              /\ fate[frame[c].mail] # "new"
        /\ frame[c].at \in {"sender", "delete"} =>
              DomainOf[frame[c].mail] \in whitelist \cup {Blank}
        /\ frame[c].at = "delete" =>
              SenderOf[frame[c].mail] \in whitelist \cup {Blank}
        /\ frame[c].at = "return" => frame[c].verdict \in Verdicts

\* A caller about to be told "discarded".
Rejecting(c, m) ==
    frame[c].at = "return" /\ frame[c].mail = m /\ frame[c].verdict = "rejected"

RejectInProgress ==
    \A c \in Clients, m \in Mails :
        Rejecting(c, m) =>
            /\ fate[m] = "discarded"
            /\ answers[m]["rejected"] = 0
            /\ \A d \in Clients : Rejecting(d, m) => d = c

IInv ==
    /\ TypeOK
    /\ HeldIsQueued
    /\ InProgress
    /\ ReleasedIsTrusted
    /\ OneRejection
    /\ RejectInProgress

-----------------------------------------------------------------------------
\* The initial tables satisfy the invariant.
LEMMA InitIInv == Init => IInv
<1> SUFFICES ASSUME Init PROVE IInv
  OBVIOUS
<1> USE DEF Init, Idle
<1>1. TypeOK
  BY DEF TypeOK, Frames, Fates, Verdicts
<1>2. HeldIsQueued
  BY DEF HeldIsQueued
<1>3. InProgress
  BY DEF InProgress
<1>4. ReleasedIsTrusted
  BY DEF ReleasedIsTrusted
<1>5. OneRejection
  BY DEF OneRejection, Verdicts
<1>6. RejectInProgress
  BY DEF RejectInProgress, Rejecting
<1> QED
  BY <1>1, <1>2, <1>3, <1>4, <1>5, <1>6 DEF IInv

\* A call of quarantine_message keeps the invariant.
LEMMA QuarantineMessageStep ==
    ASSUME IInv, NEW c \in Clients, NEW m \in Mails, QuarantineMessage(c, m)
    PROVE  IInv'
<1> USE DEF IInv, QuarantineMessage
<1>1. TypeOK'
  BY DEF TypeOK, Fates
<1>2. HeldIsQueued'
  BY DEF HeldIsQueued, TypeOK
<1>3. InProgress'
  BY DEF InProgress, TypeOK
<1>4. ReleasedIsTrusted'
  BY DEF ReleasedIsTrusted, TypeOK
<1>5. OneRejection'
  BY DEF OneRejection, TypeOK
<1>6. RejectInProgress'
  BY DEF RejectInProgress, Rejecting, TypeOK
<1> QED
  BY <1>1, <1>2, <1>3, <1>4, <1>5, <1>6

\* So does the SELECT of an approval.
LEMMA SelectStep ==
    ASSUME IInv, NEW c \in Clients, NEW m \in Mails, SelectQuarantined(c, m)
    PROVE  IInv'
<1> USE DEF IInv, SelectQuarantined, Goto
<1>1. TypeOK'
  BY DEF TypeOK, Frames
<1>2. HeldIsQueued'
  BY DEF HeldIsQueued
<1>3. InProgress'
  <2> SUFFICES ASSUME NEW d \in Clients
               PROVE  /\ frame'[d].at = "idle" => frame'[d] = Idle
                      /\ frame'[d].at # "idle" =>
                            /\ frame'[d].mail \in Mails
                            /\ fate[frame'[d].mail] # "new"
                      /\ frame'[d].at \in {"sender", "delete"} =>
                            DomainOf[frame'[d].mail] \in whitelist \cup {Blank}
                      /\ frame'[d].at = "delete" =>
                            SenderOf[frame'[d].mail] \in whitelist \cup {Blank}
                      /\ frame'[d].at = "return" => frame'[d].verdict \in Verdicts
    BY DEF InProgress
  <2>1. fate[m] = "held"
    BY DEF HeldIsQueued
  <2>2. CASE d = c
    BY <2>1, <2>2 DEF TypeOK
  <2>3. CASE d # c
    BY <2>3 DEF TypeOK, InProgress
  <2> QED
    BY <2>2, <2>3
<1>4. ReleasedIsTrusted'
  BY DEF ReleasedIsTrusted
<1>5. OneRejection'
  BY DEF OneRejection
<1>6. RejectInProgress'
  BY DEF RejectInProgress, Rejecting, TypeOK
<1> QED
  BY <1>1, <1>2, <1>3, <1>4, <1>5, <1>6

\* So does whitelisting the domain.
LEMMA AddDomainStep ==
    ASSUME IInv, NEW c \in Clients, AddDomain(c)
    PROVE  IInv'
<1> USE DEF IInv, AddDomain, AddWhitelist, Goto
<1>0. frame[c].mail \in Mails
  BY DEF InProgress
<1>1. TypeOK'
  BY <1>0, IdentityAssumption DEF TypeOK, Frames
<1>2. HeldIsQueued'
  BY DEF HeldIsQueued
<1>3. InProgress'
  <2> SUFFICES ASSUME NEW d \in Clients
               PROVE  /\ frame'[d].at = "idle" => frame'[d] = Idle
                      /\ frame'[d].at # "idle" =>
                            /\ frame'[d].mail \in Mails
                            /\ fate'[frame'[d].mail] # "new"
                      /\ frame'[d].at \in {"sender", "delete"} =>
                            DomainOf[frame'[d].mail] \in whitelist' \cup {Blank}
                      /\ frame'[d].at = "delete" =>
                            SenderOf[frame'[d].mail] \in whitelist' \cup {Blank}
                      /\ frame'[d].at = "return" => frame'[d].verdict \in Verdicts
    BY DEF InProgress
  <2>1. CASE d = c
    BY <1>0, <2>1 DEF TypeOK, InProgress
  <2>2. CASE d # c
    BY <1>0, <2>2 DEF TypeOK, InProgress
  <2> QED
    BY <2>1, <2>2
<1>4. ReleasedIsTrusted'
  BY DEF ReleasedIsTrusted
<1>5. OneRejection'
  BY DEF OneRejection
<1>6. RejectInProgress'
  BY DEF RejectInProgress, Rejecting, TypeOK
<1> QED
  BY <1>1, <1>2, <1>3, <1>4, <1>5, <1>6

\* So does whitelisting the sender.
LEMMA AddSenderStep ==
    ASSUME IInv, NEW c \in Clients, AddSender(c)
    PROVE  IInv'
<1> USE DEF IInv, AddSender, AddWhitelist, Goto
<1>0. frame[c].mail \in Mails
  BY DEF InProgress
<1>1. TypeOK'
  BY <1>0, IdentityAssumption DEF TypeOK, Frames
<1>2. HeldIsQueued'
  BY DEF HeldIsQueued
<1>3. InProgress'
  <2> SUFFICES ASSUME NEW d \in Clients
               PROVE  /\ frame'[d].at = "idle" => frame'[d] = Idle
                      /\ frame'[d].at # "idle" =>
                            /\ frame'[d].mail \in Mails
                            /\ fate'[frame'[d].mail] # "new"
                      /\ frame'[d].at \in {"sender", "delete"} =>
                            DomainOf[frame'[d].mail] \in whitelist' \cup {Blank}
                      /\ frame'[d].at = "delete" =>
                            SenderOf[frame'[d].mail] \in whitelist' \cup {Blank}
                      /\ frame'[d].at = "return" => frame'[d].verdict \in Verdicts
    BY DEF InProgress
  <2>1. CASE d = c
    BY <1>0, <2>1 DEF TypeOK, InProgress
  <2>2. CASE d # c
    BY <1>0, <2>2 DEF TypeOK, InProgress
  <2> QED
    BY <2>1, <2>2
<1>4. ReleasedIsTrusted'
  BY DEF ReleasedIsTrusted
<1>5. OneRejection'
  BY DEF OneRejection
<1>6. RejectInProgress'
  BY DEF RejectInProgress, Rejecting, TypeOK
<1> QED
  BY <1>1, <1>2, <1>3, <1>4, <1>5, <1>6

\* The DELETE of an approval finds the identities of its mail whitelisted.
LEMMA DeleteApprovedStep ==
    ASSUME IInv, NEW c \in Clients, DeleteApproved(c)
    PROVE  IInv'
<1> USE DEF IInv, DeleteApproved, Goto
<1> DEFINE m == frame[c].mail
<1>0. /\ m \in Mails
      /\ fate[m] # "new"
      /\ IdentitiesOf[m] \subseteq whitelist
  BY DEF InProgress, IdentitiesOf
<1>1. TypeOK'
  BY <1>0 DEF TypeOK, Frames, Fates, Verdicts
<1>2. HeldIsQueued'
  BY <1>0 DEF HeldIsQueued, TypeOK
<1>3. InProgress'
  <2> SUFFICES ASSUME NEW d \in Clients
               PROVE  /\ frame'[d].at = "idle" => frame'[d] = Idle
                      /\ frame'[d].at # "idle" =>
                            /\ frame'[d].mail \in Mails
                            /\ fate'[frame'[d].mail] # "new"
                      /\ frame'[d].at \in {"sender", "delete"} =>
                            DomainOf[frame'[d].mail] \in whitelist' \cup {Blank}
                      /\ frame'[d].at = "delete" =>
                            SenderOf[frame'[d].mail] \in whitelist' \cup {Blank}
                      /\ frame'[d].at = "return" => frame'[d].verdict \in Verdicts
    BY DEF InProgress
  <2>1. \A x \in Mails : fate[x] # "new" => fate'[x] # "new"
    BY <1>0 DEF TypeOK
  <2>2. CASE d = c
    BY <1>0, <2>1, <2>2 DEF TypeOK, InProgress, Verdicts
  <2>3. CASE d # c
    BY <1>0, <2>1, <2>3 DEF TypeOK, InProgress, Verdicts
  <2> QED
    BY <2>2, <2>3
<1>4. ReleasedIsTrusted'
  BY <1>0 DEF ReleasedIsTrusted, TypeOK
<1>5. OneRejection'
  BY <1>0 DEF OneRejection, HeldIsQueued, TypeOK
<1>6. RejectInProgress'
  BY <1>0 DEF RejectInProgress, Rejecting, HeldIsQueued, TypeOK
<1> QED
  BY <1>1, <1>2, <1>3, <1>4, <1>5, <1>6

\* A rejection that deletes the row is the only one of its mail.
LEMMA RejectQuarantinedStep ==
    ASSUME IInv, NEW c \in Clients, NEW m \in Mails, RejectQuarantined(c, m)
    PROVE  IInv'
<1> USE DEF IInv, RejectQuarantined, Goto
<1>1. TypeOK'
  <2>1. fate' \in [Mails -> Fates]
    BY DEF TypeOK, Fates
  <2>2. frame' \in [Clients -> Frames]
    BY DEF TypeOK, Frames, Verdicts
  <2> QED
    BY <2>1, <2>2 DEF TypeOK
<1>2. HeldIsQueued'
  BY DEF HeldIsQueued, TypeOK
<1>3. InProgress'
  <2> SUFFICES ASSUME NEW d \in Clients
               PROVE  /\ frame'[d].at = "idle" => frame'[d] = Idle
                      /\ frame'[d].at # "idle" =>
                            /\ frame'[d].mail \in Mails
                            /\ fate'[frame'[d].mail] # "new"
                      /\ frame'[d].at \in {"sender", "delete"} =>
                            DomainOf[frame'[d].mail] \in whitelist' \cup {Blank}
                      /\ frame'[d].at = "delete" =>
                            SenderOf[frame'[d].mail] \in whitelist' \cup {Blank}
                      /\ frame'[d].at = "return" => frame'[d].verdict \in Verdicts
    BY DEF InProgress
  <2>1. \A x \in Mails : fate[x] # "new" => fate'[x] # "new"
    BY DEF TypeOK
  <2>2. CASE d = c
    BY <2>1, <2>2 DEF TypeOK, InProgress, Verdicts
  <2>3. CASE d # c
    BY <2>1, <2>3 DEF TypeOK, InProgress, Verdicts
  <2> QED
    BY <2>2, <2>3
<1>4. ReleasedIsTrusted'
  BY DEF ReleasedIsTrusted, HeldIsQueued, TypeOK
<1>5. OneRejection'
  BY DEF OneRejection, HeldIsQueued, TypeOK
<1>6. RejectInProgress'
  <2> SUFFICES ASSUME NEW d \in Clients, NEW x \in Mails, Rejecting(d, x)'
               PROVE  /\ fate'[x] = "discarded"
                      /\ answers'[x]["rejected"] = 0
                      /\ \A e \in Clients : Rejecting(e, x)' => e = d
    BY DEF RejectInProgress
  <2>1. CASE m \in queue
    <3>1. fate[m] = "held"
      BY <2>1 DEF HeldIsQueued
    <3>2. \A e \in Clients : ~Rejecting(e, m)
      BY <3>1 DEF RejectInProgress
    <3>3. answers[m]["rejected"] = 0
      BY <3>1 DEF OneRejection, TypeOK, Verdicts
    <3>4. \A e \in Clients \ {c}, y \in Mails : Rejecting(e, y)' = Rejecting(e, y)
      BY DEF Rejecting, TypeOK
    <3>5. \A y \in Mails : Rejecting(c, y)' => y = m
      BY <2>1 DEF Rejecting, TypeOK
    <3>6. CASE x = m
      BY <2>1, <3>2, <3>3, <3>4, <3>6 DEF TypeOK
    <3>7. CASE x # m
      <4>1. d # c /\ Rejecting(d, x)
        BY <3>4, <3>5, <3>7
      <4>2. fate[x] = "discarded" /\ answers[x]["rejected"] = 0
        BY <4>1 DEF RejectInProgress
      <4>3. \A e \in Clients : Rejecting(e, x)' => e = d
        BY <3>4, <3>5, <3>7, <4>1 DEF RejectInProgress
      <4> QED
        BY <3>7, <4>2, <4>3 DEF TypeOK
    <3> QED
      BY <3>6, <3>7
  <2>2. CASE m \notin queue
    BY <2>2 DEF RejectInProgress, Rejecting, TypeOK
  <2> QED
    BY <2>1, <2>2
<1> QED
  BY <1>1, <1>2, <1>3, <1>4, <1>5, <1>6

\* Answering a caller keeps the invariant.
LEMMA ReturnStep ==
    ASSUME IInv, NEW c \in Clients, Return(c)
    PROVE  IInv'
<1> USE DEF IInv, Return
<1> DEFINE m == frame[c].mail
<1>0. m \in Mails /\ frame[c].verdict \in Verdicts
  BY DEF InProgress
<1>1. TypeOK'
  BY <1>0 DEF TypeOK, Frames, Verdicts, Idle
<1>2. HeldIsQueued'
  BY DEF HeldIsQueued
<1>3. InProgress'
  <2> SUFFICES ASSUME NEW d \in Clients
               PROVE  /\ frame'[d].at = "idle" => frame'[d] = Idle
                      /\ frame'[d].at # "idle" =>
                            /\ frame'[d].mail \in Mails
                            /\ fate'[frame'[d].mail] # "new"
                      /\ frame'[d].at \in {"sender", "delete"} =>
                            DomainOf[frame'[d].mail] \in whitelist' \cup {Blank}
                      /\ frame'[d].at = "delete" =>
                            SenderOf[frame'[d].mail] \in whitelist' \cup {Blank}
                      /\ frame'[d].at = "return" => frame'[d].verdict \in Verdicts
    BY DEF InProgress
  <2>1. CASE d = c
    BY <2>1 DEF TypeOK, InProgress, Idle
  <2>2. CASE d # c
    BY <2>2 DEF TypeOK, InProgress, Idle
  <2> QED
    BY <2>1, <2>2
<1>4. ReleasedIsTrusted'
  BY DEF ReleasedIsTrusted
<1>5. OneRejection'
  <2>1. CASE frame[c].verdict = "rejected"
    <3>1. fate[m] = "discarded" /\ answers[m]["rejected"] = 0
      BY <1>0, <2>1 DEF RejectInProgress, Rejecting
    <3> QED
      BY <1>0, <2>1, <3>1 DEF OneRejection, TypeOK, Verdicts
  <2>2. CASE frame[c].verdict = "approved"
    BY <1>0, <2>2 DEF OneRejection, TypeOK, Verdicts
  <2> QED
    BY <1>0, <2>1, <2>2 DEF Verdicts
<1>6. RejectInProgress'
  <2>1. \A d \in Clients, x \in Mails : Rejecting(d, x)' <=> Rejecting(d, x) /\ d # c
    BY DEF Rejecting, TypeOK, Idle
  <2>2. \A d \in Clients, x \in Mails :
          Rejecting(d, x)' => answers'[x]["rejected"] = answers[x]["rejected"]
    BY <1>0, <2>1 DEF RejectInProgress, Rejecting, TypeOK, Verdicts
  <2> QED
    BY <2>1, <2>2 DEF RejectInProgress
<1> QED
  BY <1>1, <1>2, <1>3, <1>4, <1>5, <1>6

\* So does a call that dies.
LEMMA AbortStep ==
    ASSUME IInv, NEW c \in Clients, Abort(c)
    PROVE  IInv'
<1> USE DEF IInv, Abort
<1>1. TypeOK'
  BY DEF TypeOK, Frames, Idle
<1>2. HeldIsQueued'
  BY DEF HeldIsQueued
<1>3. InProgress'
  <2> SUFFICES ASSUME NEW d \in Clients
               PROVE  /\ frame'[d].at = "idle" => frame'[d] = Idle
                      /\ frame'[d].at # "idle" =>
                            /\ frame'[d].mail \in Mails
                            /\ fate'[frame'[d].mail] # "new"
                      /\ frame'[d].at \in {"sender", "delete"} =>
                            DomainOf[frame'[d].mail] \in whitelist' \cup {Blank}
                      /\ frame'[d].at = "delete" =>
                            SenderOf[frame'[d].mail] \in whitelist' \cup {Blank}
                      /\ frame'[d].at = "return" => frame'[d].verdict \in Verdicts
    BY DEF InProgress
  <2>1. CASE d = c
    BY <2>1 DEF TypeOK, InProgress, Idle
  <2>2. CASE d # c
    BY <2>2 DEF TypeOK, InProgress, Idle
  <2> QED
    BY <2>1, <2>2
<1>4. ReleasedIsTrusted'
  BY DEF ReleasedIsTrusted
<1>5. OneRejection'
  BY DEF OneRejection
<1>6. RejectInProgress'
  BY DEF RejectInProgress, Rejecting, TypeOK, Idle
<1> QED
  BY <1>1, <1>2, <1>3, <1>4, <1>5, <1>6

\* Every step of every caller keeps the invariant.
LEMMA NextIInv == IInv /\ [Next]_vars => IInv'
<1> SUFFICES ASSUME IInv, [Next]_vars PROVE IInv'
  OBVIOUS
<1>1. ASSUME NEW c \in Clients, NEW m \in Mails, QuarantineMessage(c, m) PROVE IInv'
  BY <1>1, QuarantineMessageStep
<1>2. ASSUME NEW c \in Clients, NEW m \in Mails, SelectQuarantined(c, m) PROVE IInv'
  BY <1>2, SelectStep
<1>3. ASSUME NEW c \in Clients, NEW m \in Mails, RejectQuarantined(c, m) PROVE IInv'
  BY <1>3, RejectQuarantinedStep
<1>4. ASSUME NEW c \in Clients, ApproveStep(c) PROVE IInv'
  BY <1>4, AddDomainStep, AddSenderStep, DeleteApprovedStep, ReturnStep DEF ApproveStep
<1>5. ASSUME NEW c \in Clients, Abort(c) PROVE IInv'
  BY <1>5, AbortStep
<1>6. CASE UNCHANGED vars
  BY <1>6 DEF vars, IInv, TypeOK, HeldIsQueued, InProgress, ReleasedIsTrusted,
              OneRejection, RejectInProgress, Rejecting
<1> QED
  BY <1>1, <1>2, <1>3, <1>4, <1>5, <1>6 DEF Next

-----------------------------------------------------------------------------
\* The inductive invariant holds in every reachable state.
THEOREM Invariant == Spec => []IInv
  BY InitIInv, NextIInv, PTL DEF Spec

\* The tables, the calls and the answers keep their types; the empty identity
\* is never whitelisted.
THEOREM TypeCorrect == Spec => []TypeOK
  BY Invariant, PTL DEF IInv

\* No crash and no race loses a held mail or brings a decided one back.
THEOREM NoMailLost == Spec => []HeldIsQueued
  BY Invariant, PTL DEF IInv

\* A mail is released only after its identities are durably whitelisted.
THEOREM ReleaseAfterTrust == Spec => []ReleasedIsTrusted
  BY Invariant, PTL DEF IInv

\* One caller at most is told that a mail was discarded, and it was.
THEOREM RejectionIsOne == Spec => []OneRejection
  BY Invariant, PTL DEF IInv

-----------------------------------------------------------------------------
\* A step of the engine is a step of the quarantine's promise, or none.
LEMMA StepRefines ==
    IInv /\ [Next]_vars => [Quarantine!Next]_(Quarantine!vars)
<1> SUFFICES ASSUME IInv, [Next]_vars
             PROVE  Quarantine!Next \/ UNCHANGED <<fate, whitelist>>
  BY DEF Quarantine!vars
<1> USE DEF IInv
<1>1. ASSUME NEW c \in Clients, NEW m \in Mails, QuarantineMessage(c, m)
      PROVE  Quarantine!Hold(m)
  BY <1>1 DEF QuarantineMessage, Quarantine!Hold
<1>2. ASSUME NEW c \in Clients, NEW m \in Mails, SelectQuarantined(c, m)
      PROVE  UNCHANGED <<fate, whitelist>>
  BY <1>2 DEF SelectQuarantined
<1>3. ASSUME NEW c \in Clients, NEW m \in Mails, RejectQuarantined(c, m)
      PROVE  Quarantine!Discard(m) \/ UNCHANGED <<fate, whitelist>>
  <2>1. CASE m \in queue
    BY <1>3, <2>1 DEF RejectQuarantined, HeldIsQueued, Quarantine!Discard
  <2>2. CASE m \notin queue
    BY <1>3, <2>2 DEF RejectQuarantined, TypeOK
  <2> QED
    BY <2>1, <2>2
<1>4. ASSUME NEW c \in Clients, AddDomain(c)
      PROVE  \/ \E m \in Mails : \E i \in IdentitiesOf[m] : Quarantine!Trust(m, i)
             \/ UNCHANGED <<fate, whitelist>>
  BY <1>4 DEF AddDomain, AddWhitelist, InProgress, IdentitiesOf, Quarantine!Trust
<1>5. ASSUME NEW c \in Clients, AddSender(c)
      PROVE  \/ \E m \in Mails : \E i \in IdentitiesOf[m] : Quarantine!Trust(m, i)
             \/ UNCHANGED <<fate, whitelist>>
  BY <1>5 DEF AddSender, AddWhitelist, InProgress, IdentitiesOf, Quarantine!Trust
<1>6. ASSUME NEW c \in Clients, DeleteApproved(c)
      PROVE  \/ \E m \in Mails : Quarantine!Release(m)
             \/ UNCHANGED <<fate, whitelist>>
  <2> DEFINE m == frame[c].mail
  <2>1. m \in Mails /\ IdentitiesOf[m] \subseteq whitelist
    BY <1>6 DEF DeleteApproved, InProgress, IdentitiesOf
  <2>2. CASE m \in queue
    BY <1>6, <2>1, <2>2 DEF DeleteApproved, HeldIsQueued, Quarantine!Release
  <2>3. CASE m \notin queue
    BY <1>6, <2>1, <2>3 DEF DeleteApproved, TypeOK
  <2> QED
    BY <2>2, <2>3
<1>7. ASSUME NEW c \in Clients, Return(c) \/ Abort(c)
      PROVE  UNCHANGED <<fate, whitelist>>
  BY <1>7 DEF Return, Abort
<1>8. CASE UNCHANGED vars
  BY <1>8 DEF vars
<1>9. \A m \in Mails :
        /\ Quarantine!Hold(m) => Quarantine!Next
        /\ Quarantine!Discard(m) => Quarantine!Next
        /\ Quarantine!Release(m) => Quarantine!Next
        /\ \A i \in IdentitiesOf[m] : Quarantine!Trust(m, i) => Quarantine!Next
  BY DEF Quarantine!Next
<1> QED
  BY <1>1, <1>2, <1>3, <1>4, <1>5, <1>6, <1>7, <1>8, <1>9 DEF Next, ApproveStep

\* The engine with its separate commits, its crashes and its races implements
\* the quarantine: a mail is held once, leaves once, and is released only after
\* its identities are trusted; trust comes from held mail only.
THEOREM Refinement == Spec => QuarantineSpec
<1>1. Init => Quarantine!Init
  BY DEF Init, Quarantine!Init
<1> QED
  BY <1>1, StepRefines, Invariant, PTL DEF Spec, QuarantineSpec, Quarantine!Spec

-----------------------------------------------------------------------------
\* What a single caller adds: from the SELECT to the DELETE the mail is still
\* held, and an approval that is about to be answered is the first of its mail.
SoleApproval ==
    /\ OneRelease
    /\ \A c \in Clients :
          /\ frame[c].at \in {"domain", "sender", "delete"} =>
                fate[frame[c].mail] = "held"
          /\ (frame[c].at = "return" /\ frame[c].verdict = "approved") =>
                /\ fate[frame[c].mail] = "released"
                /\ answers[frame[c].mail]["approved"] = 0

LEMMA SoleApprovalStep ==
    ASSUME NEW h, Clients = {h}, IInv, SoleApproval, [Next]_vars
    PROVE  SoleApproval'
<1> USE DEF IInv
<1>0. /\ \A m \in Mails : answers[m]["approved"] \in Nat
      /\ \A m \in Mails : fate[m] # "released" => answers[m]["approved"] = 0
  BY DEF SoleApproval, OneRelease, TypeOK, Verdicts
<1>1. ASSUME NEW m \in Mails, QuarantineMessage(h, m) PROVE SoleApproval'
  BY <1>1 DEF SoleApproval, OneRelease, QuarantineMessage, Idle, TypeOK
<1>2. ASSUME NEW m \in Mails, SelectQuarantined(h, m) PROVE SoleApproval'
  BY <1>2 DEF SoleApproval, OneRelease, SelectQuarantined, Goto, HeldIsQueued, TypeOK
<1>3. ASSUME NEW m \in Mails, RejectQuarantined(h, m) PROVE SoleApproval'
  <2>1. CASE m \in queue
    <3>1. fate[m] = "held"
      BY <2>1 DEF HeldIsQueued
    <3>2. OneRelease'
      BY <1>0, <1>3, <2>1, <3>1 DEF SoleApproval, OneRelease, RejectQuarantined, TypeOK
    <3>3. frame'[h].at = "return" /\ frame'[h].verdict = "rejected"
      BY <1>3, <2>1 DEF RejectQuarantined, Goto, TypeOK
    <3> QED
      BY <3>2, <3>3 DEF SoleApproval
  <2>2. CASE m \notin queue
    BY <1>3, <2>2 DEF SoleApproval, OneRelease, RejectQuarantined, TypeOK
  <2> QED
    BY <2>1, <2>2
<1>4. ASSUME AddDomain(h) PROVE SoleApproval'
  BY <1>4 DEF SoleApproval, OneRelease, AddDomain, Goto, TypeOK
<1>5. ASSUME AddSender(h) PROVE SoleApproval'
  BY <1>5 DEF SoleApproval, OneRelease, AddSender, Goto, TypeOK
<1>6. ASSUME DeleteApproved(h) PROVE SoleApproval'
  <2> DEFINE m == frame[h].mail
  <2>1. m \in Mails /\ fate[m] = "held" /\ m \in queue
    BY <1>6 DEF DeleteApproved, SoleApproval, InProgress, HeldIsQueued
  <2>2. answers[m]["approved"] = 0
    BY <1>0, <2>1
  <2>3. OneRelease'
    BY <1>6, <2>1, <2>2 DEF DeleteApproved, SoleApproval, OneRelease, TypeOK
  <2>4. frame'[h] = [at |-> "return", mail |-> m, verdict |-> "approved"]
    BY <1>6 DEF DeleteApproved, Goto, TypeOK
  <2>5. fate'[m] = "released" /\ answers' = answers
    BY <1>6, <2>1 DEF DeleteApproved, TypeOK
  <2> QED
    BY <2>2, <2>3, <2>4, <2>5 DEF SoleApproval
<1>7. ASSUME Return(h) PROVE SoleApproval'
  <2> DEFINE m == frame[h].mail
             v == frame[h].verdict
  <2>1. m \in Mails /\ v \in Verdicts
    BY <1>7 DEF Return, InProgress
  <2>2. frame'[h].at = "idle"
    BY <1>7 DEF Return, Idle, TypeOK
  <2>3. v = "approved" => fate[m] = "released" /\ answers[m]["approved"] = 0
    BY <1>7 DEF Return, SoleApproval
  <2>4. OneRelease'
    BY <1>7, <2>1, <2>3 DEF Return, SoleApproval, OneRelease, TypeOK, Verdicts
  <2> QED
    BY <2>2, <2>4 DEF SoleApproval
<1>8. ASSUME Abort(h) PROVE SoleApproval'
  BY <1>8 DEF SoleApproval, OneRelease, Abort, Idle, TypeOK
<1>9. CASE UNCHANGED vars
  BY <1>9 DEF vars, SoleApproval, OneRelease
<1> QED
  BY <1>1, <1>2, <1>3, <1>4, <1>5, <1>6, <1>7, <1>8, <1>9 DEF Next, ApproveStep

\* With one caller, as in the daemon, whoever is told that a mail was released
\* is the only one, and it was; the theorem needs Clients to be a singleton.
THEOREM ReleaseIsOne == ASSUME NEW h, Clients = {h} PROVE Spec => []OneRelease
<1>1. Init => SoleApproval
  BY DEF Init, Idle, SoleApproval, OneRelease, Verdicts
<1>2. IInv /\ SoleApproval /\ [Next]_vars => SoleApproval'
  BY SoleApprovalStep
<1>3. SoleApproval => OneRelease
  BY DEF SoleApproval
<1> QED
  BY <1>1, <1>2, <1>3, Invariant, PTL DEF Spec

-----------------------------------------------------------------------------
\* An identity is trusted only on behalf of a mail: one that was released or,
\* while its approval is on the way, is going to be.
TrustIsOwed ==
    \A i \in whitelist :
        \E m \in Mails :
           /\ i \in IdentitiesOf[m]
           /\ \/ fate[m] = "released"
              \/ \E c \in Clients :
                    frame[c].at \in {"sender", "delete"} /\ frame[c].mail = m

LEMMA TrustIsOwedStep ==
    ASSUME NEW h, Clients = {h}, IInv, SoleApproval, TrustIsOwed, [Next]_vars,
           ~Abort(h)
    PROVE  TrustIsOwed'
<1> USE DEF IInv
<1>1. ASSUME NEW m \in Mails, QuarantineMessage(h, m) PROVE TrustIsOwed'
  BY <1>1 DEF TrustIsOwed, QuarantineMessage, TypeOK
<1>2. ASSUME NEW m \in Mails, SelectQuarantined(h, m) PROVE TrustIsOwed'
  BY <1>2 DEF TrustIsOwed, SelectQuarantined, Idle, TypeOK
<1>3. ASSUME NEW m \in Mails, RejectQuarantined(h, m) PROVE TrustIsOwed'
  <2>1. m \in queue => fate[m] # "released"
    BY DEF HeldIsQueued
  <2>2. fate' = [fate EXCEPT ![m] = IF m \in queue THEN "discarded" ELSE @]
        /\ whitelist' = whitelist /\ frame[h].at = "idle"
    BY <1>3 DEF RejectQuarantined, Idle
  <2>3. \A n \in Mails : fate[n] = "released" => fate'[n] = "released"
    BY <2>1, <2>2 DEF TypeOK
  <2> QED
    BY <2>2, <2>3 DEF TrustIsOwed
<1>4. ASSUME AddDomain(h) PROVE TrustIsOwed'
  <2>1. PICK m \in Mails : m = frame[h].mail
    BY <1>4 DEF AddDomain, InProgress
  <2>2. /\ whitelist' = whitelist \cup ({DomainOf[m]} \ {Blank})
        /\ frame'[h].at = "sender" /\ frame'[h].mail = m /\ fate' = fate
        /\ frame[h].at = "domain"
    BY <1>4, <2>1 DEF AddDomain, AddWhitelist, Goto, TypeOK
  <2>3. {DomainOf[m]} \ {Blank} \subseteq IdentitiesOf[m]
    BY DEF IdentitiesOf
  <2> QED
    BY <2>2, <2>3 DEF TrustIsOwed
<1>5. ASSUME AddSender(h) PROVE TrustIsOwed'
  <2>1. PICK m \in Mails : m = frame[h].mail
    BY <1>5 DEF AddSender, InProgress
  <2>2. /\ whitelist' = whitelist \cup ({SenderOf[m]} \ {Blank})
        /\ frame'[h].at = "delete" /\ frame'[h].mail = m /\ fate' = fate
        /\ frame[h].at = "sender"
    BY <1>5, <2>1 DEF AddSender, AddWhitelist, Goto, TypeOK
  <2>3. {SenderOf[m]} \ {Blank} \subseteq IdentitiesOf[m]
    BY DEF IdentitiesOf
  <2> QED
    BY <2>1, <2>2, <2>3 DEF TrustIsOwed
<1>6. ASSUME DeleteApproved(h) PROVE TrustIsOwed'
  <2>1. PICK m \in Mails : m = frame[h].mail
    BY <1>6 DEF DeleteApproved, InProgress
  <2>2. fate[m] = "held" /\ m \in queue
    BY <1>6, <2>1 DEF DeleteApproved, SoleApproval, HeldIsQueued
  <2>3. fate' = [fate EXCEPT ![m] = "released"] /\ whitelist' = whitelist
    BY <1>6, <2>1, <2>2 DEF DeleteApproved
  <2>4. fate'[m] = "released" /\ \A n \in Mails : fate[n] = "released" => fate'[n] = "released"
    BY <2>3 DEF TypeOK
  <2> QED
    BY <2>1, <2>3, <2>4 DEF TrustIsOwed
<1>7. ASSUME Return(h) PROVE TrustIsOwed'
  BY <1>7 DEF TrustIsOwed, Return, Idle, TypeOK
<1>8. CASE UNCHANGED vars
  BY <1>8 DEF TrustIsOwed, vars
<1> QED
  BY <1>1, <1>2, <1>3, <1>4, <1>5, <1>6, <1>7, <1>8 DEF Next, ApproveStep

\* The condition under which an approval is atomic: one caller, and no call that
\* dies on the way.  The runs show that neither may be dropped.
THEOREM ApprovalIsAtomicIfAlone ==
    ASSUME NEW h, Clients = {h}
    PROVE  Spec /\ [][\A c \in Clients : ~Abort(c)]_vars => []ApprovalIsAtomic
<1>1. Init => SoleApproval
  BY DEF Init, Idle, SoleApproval, OneRelease, Verdicts
<1>2. IInv /\ SoleApproval /\ [Next]_vars => SoleApproval'
  BY SoleApprovalStep
<1>3. Init => TrustIsOwed
  BY DEF Init, TrustIsOwed
<1>4. IInv /\ SoleApproval /\ TrustIsOwed /\ [Next]_vars
          /\ [\A c \in Clients : ~Abort(c)]_vars => TrustIsOwed'
  <2>1. UNCHANGED vars /\ TrustIsOwed => TrustIsOwed'
    BY DEF vars, TrustIsOwed
  <2> QED
    BY <2>1, TrustIsOwedStep
<1>5. TrustIsOwed => ApprovalIsAtomic
  BY DEF TrustIsOwed, ApprovalIsAtomic, Idle
<1> QED
  BY <1>1, <1>2, <1>3, <1>4, <1>5, Invariant, PTL DEF Spec
=============================================================================
