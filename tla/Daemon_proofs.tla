--------------------------- MODULE Daemon_proofs ---------------------------
(***************************************************************************)
(* What the daemon guarantees for every number of mails and every quota.   *)
(* It drives the store and the limiter as they are specified, so that what *)
(* StorageEngine_proofs and RateLimiter_proofs show of them holds in the   *)
(* daemon; and mail that failed its signature check is quarantined, stays  *)
(* in the queue until an operator decides on it, and never reaches a       *)
(* mailbox.                                                                *)
(*                                                                         *)
(* The inductive invariant follows one request and one queue call: a mail  *)
(* that is being answered with grade E has been stored (RequestOK), and    *)
(* the row an approval works on is one that was held (CallOK).  Two more   *)
(* are inductive relative to it: ChargedOnce (the log of the quota against *)
(* the answers) and, after it, Trust (each whitelisted identity comes from *)
(* an approved mail, and the whitelist and the trail of late and approved  *)
(* mails do not change what a request was graded by).  What is the         *)
(* store's or the limiter's own, their types, OneRelease, WindowQuota and  *)
(* the abstract specifications they implement, is taken from the           *)
(* components' theorems: StoreProofs and LimiterProofs instantiate them.   *)
(***************************************************************************)
EXTENDS Daemon, FiniteSetTheorems, TLAPS

\* The queue call in progress, if there is one.
CallOK ==
    /\ frame \in [{Handler} -> Store!Frames]
    /\ frame[Handler].at = "idle" => frame[Handler] = Store!Idle
    /\ frame[Handler].at # "idle" =>
          /\ frame[Handler].mail \in Mails
          /\ fate[frame[Handler].mail] # "new"

\* The request in progress, if there is one: how far it came, and that its
\* grade is that of its signature.
RequestOK ==
    /\ handler \in [at : {"idle", "count", "translate", "quarantine", "reply"},
                    mail : Mails \cup {NoMail}, grade : Grades]
    /\ handler.at # "idle" =>
          /\ handler.mail \in Mails
          /\ handler.grade = "E" <=> handler.mail \notin SignatureValid
    /\ handler.at \in {"quarantine", "reply"} => stage[handler.mail] = "sent"
    /\ handler.at = "quarantine" => handler.grade = "E"
    /\ handler.at = "reply" /\ handler.grade = "E" => fate[handler.mail] # "new"

TablesOK ==
    /\ queue \subseteq Mails
    /\ fate \in [Mails -> Store!Fates]
    /\ stage \in [Mails -> Limiter!Stages]
    /\ status \in [Mails -> Replies \cup {"none"}]
    /\ Store!HeldIsQueued

\* What clients were told: QUARANTINE is said only of a mail that was stored.
ToldOK == \A m \in Mails : status[m] = "QUARANTINE" => fate[m] # "new"

IInv ==
    /\ CallOK
    /\ RequestOK
    /\ TablesOK
    /\ ToldOK
    /\ SpoofedIsQuarantined

-----------------------------------------------------------------------------
LEMMA InitIInv == Init => IInv
<1> SUFFICES ASSUME Init PROVE IInv
  OBVIOUS
<1> USE DEF Init, Store!Init, Limiter!Init, Store!Idle, NoRequest
<1>1. CallOK
  BY DEF CallOK, Store!Frames, Store!Verdicts
<1>2. RequestOK
  BY DEF RequestOK, Grades
<1>3. TablesOK
  BY DEF TablesOK, Store!Fates, Limiter!Stages, Replies, Store!HeldIsQueued
<1>4. ToldOK
  BY DEF ToldOK
<1>5. SpoofedIsQuarantined
  BY DEF SpoofedIsQuarantined
<1> QED
  BY <1>1, <1>2, <1>3, <1>4, <1>5 DEF IInv

LEMMA GradeOfSignature ==
    \A m \in Mails : /\ Grade(m) \in Grades
                     /\ Grade(m) = "E" <=> m \notin SignatureValid
  BY DEF Grade, Grades

LEMMA DestinationOfGrade ==
    \A g \in Grades : /\ Destination(g) \in Replies
                      /\ Destination(g) = "QUARANTINE" <=> g = "E"
  BY DEF Destination, Grades, Replies

\* A request that ends keeps the invariant, whatever its client is told, as
\* long as QUARANTINE, INBOX and JUNK are told of the mails they are meant for.
LEMMA ReplyStep ==
    ASSUME IInv, NEW r \in Replies, Reply(r), handler.at # "idle",
           r = "QUARANTINE" => fate[handler.mail] # "new",
           r \in {"INBOX", "JUNK"} => handler.mail \in SignatureValid,
           UNCHANGED storeVars,
           stage' \in [Mails -> Limiter!Stages],
           \A m \in Mails : stage[m] = "sent" => stage'[m] = "sent"
    PROVE  IInv'
<1> USE DEF IInv, Reply, storeVars
<1>1. CallOK'
  BY DEF CallOK
<1>2. RequestOK'
  BY DEF RequestOK, NoRequest, Grades
<1>3. TablesOK'
  BY DEF TablesOK, Store!HeldIsQueued
<1>4. ToldOK'
  BY DEF ToldOK, TablesOK
<1>5. SpoofedIsQuarantined'
  BY DEF SpoofedIsQuarantined, TablesOK
<1> QED
  BY <1>1, <1>2, <1>3, <1>4, <1>5

LEMMA GradeMailStep == ASSUME IInv, NEW m \in Mails, GradeMail(m) PROVE IInv'
<1> USE DEF IInv, GradeMail, storeVars, limiterVars
<1>1. CallOK'
  BY DEF CallOK
<1>2. RequestOK'
  BY GradeOfSignature DEF RequestOK
<1>3. TablesOK'
  BY DEF TablesOK, Store!HeldIsQueued
<1>4. ToldOK' /\ SpoofedIsQuarantined'
  BY DEF ToldOK, SpoofedIsQuarantined
<1> QED
  BY <1>1, <1>2, <1>3, <1>4

LEMMA CountAdmitsStep == ASSUME IInv, CountAdmits PROVE IInv'
<1> USE DEF IInv, CountAdmits, Limiter!Admit, Goto, storeVars
<1>1. CallOK'
  BY DEF CallOK
<1>2. RequestOK'
  BY DEF RequestOK
<1>3. TablesOK'
  BY DEF TablesOK, Store!HeldIsQueued, Limiter!Stages
<1>4. ToldOK'
  BY DEF ToldOK
<1>5. SpoofedIsQuarantined'
  BY DEF SpoofedIsQuarantined, RequestOK, TablesOK
<1> QED
  BY <1>1, <1>2, <1>3, <1>4, <1>5

LEMMA CountRefusesStep == ASSUME IInv, CountRefuses PROVE IInv'
<1>1. stage' \in [Mails -> Limiter!Stages]
  BY DEF IInv, TablesOK, CountRefuses, Limiter!Refuse, Limiter!Stages
<1>2. \A m \in Mails : stage[m] = "sent" => stage'[m] = "sent"
  BY DEF IInv, TablesOK, CountRefuses, Limiter!Refuse
<1> QED
  BY <1>1, <1>2, ReplyStep DEF CountRefuses, Replies

LEMMA TranslateLemma == ASSUME IInv, Translate PROVE IInv'
<1> USE DEF IInv, Translate, Limiter!RecordMessage, Goto, storeVars
<1>1. CallOK'
  BY DEF CallOK
<1>2. RequestOK'
  BY DEF RequestOK, TablesOK
<1>3. TablesOK'
  BY DEF TablesOK, Store!HeldIsQueued, Limiter!Stages
<1>4. ToldOK'
  BY DEF ToldOK
<1>5. SpoofedIsQuarantined'
  BY DEF SpoofedIsQuarantined, TablesOK
<1> QED
  BY <1>1, <1>2, <1>3, <1>4, <1>5

LEMMA TranslationFailsStep == ASSUME IInv, TranslationFails PROVE IInv'
<1>1. stage' \in [Mails -> Limiter!Stages]
  BY DEF IInv, TablesOK, TranslationFails, Limiter!TranslationFails, Limiter!Stages
<1>2. \A m \in Mails : stage[m] = "sent" => stage'[m] = "sent"
  BY DEF IInv, TablesOK, TranslationFails, Limiter!TranslationFails
<1> QED
  BY <1>1, <1>2, ReplyStep DEF TranslationFails, Replies

LEMMA QuarantineStep == ASSUME IInv, Quarantine PROVE IInv'
<1> USE DEF IInv, Quarantine, Store!QuarantineMessage, Goto, limiterVars
<1>0. handler.mail \in Mails
  BY DEF RequestOK
<1>1. CallOK'
  BY <1>0 DEF CallOK, Store!Idle
<1>2. RequestOK'
  BY <1>0 DEF RequestOK, TablesOK
<1>3. TablesOK'
  BY <1>0 DEF TablesOK, Store!HeldIsQueued, Store!Fates
<1>4. ToldOK'
  BY <1>0 DEF ToldOK, TablesOK
<1>5. SpoofedIsQuarantined'
  BY <1>0 DEF SpoofedIsQuarantined, RequestOK, TablesOK
<1> QED
  BY <1>1, <1>2, <1>3, <1>4, <1>5

LEMMA QuarantineFailsStep == ASSUME IInv, QuarantineFails PROVE IInv'
<1>1. stage' \in [Mails -> Limiter!Stages]
  BY DEF IInv, TablesOK, QuarantineFails, limiterVars
<1> QED
  BY <1>1, ReplyStep DEF QuarantineFails, Replies, limiterVars

LEMMA SendReplyStep == ASSUME IInv, SendReply PROVE IInv'
<1> DEFINE r == Destination(handler.grade)
<1>1. r \in Replies /\ (r = "QUARANTINE" <=> handler.grade = "E")
  BY DestinationOfGrade DEF IInv, RequestOK
<1>2. r = "QUARANTINE" => fate[handler.mail] # "new"
  BY <1>1 DEF IInv, RequestOK, SendReply
<1>3. r \in {"INBOX", "JUNK"} => handler.mail \in SignatureValid
  BY <1>1 DEF IInv, RequestOK, SendReply
<1>4. stage' \in [Mails -> Limiter!Stages]
  BY DEF IInv, TablesOK, SendReply, limiterVars
<1> QED
  BY <1>1, <1>2, <1>3, <1>4, ReplyStep DEF SendReply, limiterVars

-----------------------------------------------------------------------------
\* The statements of a queue call change no request, stage or status.
LEMMA CallStep ==
    ASSUME IInv, UNCHANGED <<limiterVars, handler, status>>,
           CallOK', Store!HeldIsQueued', queue' \subseteq Mails,
           fate' \in [Mails -> Store!Fates],
           \A m \in Mails : fate[m] = "new" <=> fate'[m] = "new"
    PROVE  IInv'
<1> USE DEF IInv, limiterVars
<1>1. RequestOK'
  BY DEF RequestOK
<1>2. TablesOK'
  BY DEF TablesOK
<1>3. ToldOK'
  BY DEF ToldOK
<1>4. SpoofedIsQuarantined'
  BY DEF SpoofedIsQuarantined
<1> QED
  BY <1>1, <1>2, <1>3, <1>4

LEMMA ApproveSelectStep == ASSUME IInv, NEW m \in Mails, ApproveSelect(m) PROVE IInv'
<1> USE DEF ApproveSelect, Store!SelectQuarantined, Store!Goto
<1>1. CallOK'
  BY DEF IInv, CallOK, TablesOK, Store!HeldIsQueued, Store!Frames
<1>2. Store!HeldIsQueued' /\ queue' \subseteq Mails /\ fate' \in [Mails -> Store!Fates]
  BY DEF IInv, TablesOK, Store!HeldIsQueued
<1> QED
  BY <1>1, <1>2, CallStep

LEMMA ApproveStepLemma == ASSUME IInv, ApproveStep PROVE IInv'
<1> DEFINE m == frame[Handler].mail
<1>0. IInv /\ UNCHANGED <<limiterVars, handler, status>>
  BY DEF ApproveStep
<1>1. CASE Store!AddDomain(Handler) \/ Store!AddSender(Handler)
  <2> USE <1>1 DEF Store!AddDomain, Store!AddSender, Store!Goto
  <2>1. CallOK'
    BY DEF IInv, CallOK, Store!Frames
  <2>2. Store!HeldIsQueued' /\ queue' \subseteq Mails /\ fate' \in [Mails -> Store!Fates]
    BY DEF IInv, TablesOK, Store!HeldIsQueued
  <2> QED
    BY <1>0, <2>1, <2>2, CallStep
<1>2. CASE Store!DeleteApproved(Handler)
  <2> USE <1>2 DEF Store!DeleteApproved, Store!Goto
  <2>1. m \in Mails /\ fate[m] # "new"
    BY DEF IInv, CallOK
  <2>2. CallOK'
    BY <2>1 DEF IInv, CallOK, TablesOK, Store!Frames, Store!Verdicts
  <2>3. Store!HeldIsQueued'
    BY <2>1 DEF IInv, TablesOK, Store!HeldIsQueued
  <2>4. queue' \subseteq Mails /\ fate' \in [Mails -> Store!Fates]
    BY <2>1 DEF IInv, TablesOK, Store!Fates
  <2>5. \A x \in Mails : fate[x] = "new" <=> fate'[x] = "new"
    BY <2>1 DEF IInv, TablesOK
  <2> QED
    BY <1>0, <2>2, <2>3, <2>4, <2>5, CallStep
<1>3. CASE Store!Return(Handler)
  <2> USE <1>3 DEF Store!Return
  <2>1. CallOK'
    BY DEF IInv, CallOK, Store!Frames, Store!Idle, Store!Verdicts
  <2>2. Store!HeldIsQueued' /\ queue' \subseteq Mails /\ fate' \in [Mails -> Store!Fates]
    BY DEF IInv, TablesOK, Store!HeldIsQueued
  <2> QED
    BY <1>0, <2>1, <2>2, CallStep
<1> QED
  BY <1>1, <1>2, <1>3 DEF ApproveStep, Store!ApproveStep

LEMMA QueueCallFailsStep == ASSUME IInv, QueueCallFails PROVE IInv'
<1> USE DEF QueueCallFails, Store!Abort
<1>1. CallOK'
  BY DEF IInv, CallOK, Store!Frames, Store!Idle, Store!Verdicts
<1>2. Store!HeldIsQueued' /\ queue' \subseteq Mails /\ fate' \in [Mails -> Store!Fates]
  BY DEF IInv, TablesOK, Store!HeldIsQueued
<1> QED
  BY <1>1, <1>2, CallStep

LEMMA RejectMailStep == ASSUME IInv, NEW m \in Mails, RejectMail(m) PROVE IInv'
<1> USE DEF RejectMail, Store!RejectQuarantined, Store!Goto
<1>1. CallOK'
  BY DEF IInv, CallOK, TablesOK, Store!Frames, Store!Verdicts
<1>2. Store!HeldIsQueued'
  BY DEF IInv, TablesOK, Store!HeldIsQueued
<1>3. queue' \subseteq Mails /\ fate' \in [Mails -> Store!Fates]
  BY DEF IInv, TablesOK, Store!Fates
<1>4. \A x \in Mails : fate[x] = "new" <=> fate'[x] = "new"
  BY DEF IInv, TablesOK
<1> QED
  BY <1>1, <1>2, <1>3, <1>4, CallStep

-----------------------------------------------------------------------------
LEMMA TickStep == ASSUME IInv, Tick PROVE IInv'
<1> USE DEF Tick, Limiter!Tick, storeVars
<1>1. CallOK' /\ RequestOK'
  BY DEF IInv, CallOK, RequestOK
<1>2. TablesOK'
  BY DEF IInv, TablesOK, Store!HeldIsQueued
<1>3. ToldOK' /\ SpoofedIsQuarantined'
  BY DEF IInv, ToldOK, SpoofedIsQuarantined
<1> QED
  BY <1>1, <1>2, <1>3 DEF IInv

LEMMA RestartStep == ASSUME IInv, Restart PROVE IInv'
<1> USE DEF Restart, Limiter!Restart
<1>1. CallOK'
  BY DEF IInv, CallOK, Store!Frames, Store!Idle, Store!Verdicts
<1>2. RequestOK'
  BY DEF RequestOK, NoRequest, Grades
<1>3. TablesOK'
  BY DEF IInv, TablesOK, Store!HeldIsQueued, Limiter!Stages
<1>4. ToldOK'
  BY DEF IInv, ToldOK
<1>5. SpoofedIsQuarantined'
  BY DEF IInv, SpoofedIsQuarantined, TablesOK
<1> QED
  BY <1>1, <1>2, <1>3, <1>4, <1>5 DEF IInv

LEMMA NextIInv == IInv /\ [Next]_vars => IInv'
<1> SUFFICES ASSUME IInv, [Next]_vars PROVE IInv'
  OBVIOUS
<1>1. CASE \E m \in Mails : GradeMail(m) \/ ApproveSelect(m) \/ RejectMail(m)
  BY <1>1, GradeMailStep, ApproveSelectStep, RejectMailStep
<1>2. CASE TranslateStep
  BY <1>2, CountAdmitsStep, CountRefusesStep, TranslateLemma, TranslationFailsStep,
     QuarantineStep, QuarantineFailsStep, SendReplyStep DEF TranslateStep
<1>3. CASE ApproveStep \/ QueueCallFails
  BY <1>3, ApproveStepLemma, QueueCallFailsStep
<1>4. CASE Tick \/ Restart
  BY <1>4, TickStep, RestartStep
<1>5. CASE UNCHANGED vars
  BY <1>5 DEF vars, storeVars, limiterVars, IInv, CallOK, RequestOK, TablesOK,
              ToldOK, SpoofedIsQuarantined, Store!HeldIsQueued
<1> QED
  BY <1>1, <1>2, <1>3, <1>4, <1>5 DEF Next

THEOREM Invariant == Spec => []IInv
  BY InitIInv, NextIInv, PTL DEF Spec

\* Mail that failed its signature check is never answered INBOX or JUNK, and
\* nothing else is in the queue, whatever the whitelist, tokens and contacts.
THEOREM SpoofedNeverDelivered == Spec => []SpoofedIsQuarantined
<1>1. IInv => SpoofedIsQuarantined
  BY DEF IInv
<1> QED
  BY <1>1, Invariant, PTL

\* A mail whose client was told QUARANTINE stays in the queue until an operator
\* released or discarded it, across failures and restarts.
THEOREM QuarantineIsKept == Spec => []QuarantinedIsKept
<1>1. IInv => QuarantinedIsKept
  BY DEF IInv, ToldOK, TablesOK, Store!HeldIsQueued, Store!Fates, QuarantinedIsKept
<1> QED
  BY <1>1, Invariant, PTL

-----------------------------------------------------------------------------
LEMMA StoreStep == IInv /\ [Next]_vars => [Store!Next]_(Store!vars)
<1> SUFFICES ASSUME IInv, [Next]_vars PROVE Store!Next \/ UNCHANGED Store!vars
  OBVIOUS
<1> USE DEF Store!Next, Store!vars
<1>1. CASE \E m \in Mails : GradeMail(m) \/ ApproveSelect(m) \/ RejectMail(m)
  BY <1>1 DEF GradeMail, ApproveSelect, RejectMail, storeVars
<1>2. CASE Quarantine
  BY <1>2 DEF Quarantine, IInv, RequestOK
<1>3. CASE TranslateStep /\ ~Quarantine
  BY <1>3 DEF TranslateStep, CountAdmits, CountRefuses, Translate, TranslationFails,
              QuarantineFails, SendReply, storeVars
<1>4. CASE ApproveStep \/ QueueCallFails
  BY <1>4 DEF ApproveStep, QueueCallFails
<1>5. CASE Tick
  BY <1>5 DEF Tick, storeVars
<1>6. CASE Restart
  <2>1. UNCHANGED <<queue, whitelist, fate, answers>>
    BY <1>6 DEF Restart
  <2>2. frame' = [frame EXCEPT ![Handler] = Store!Idle]
    BY <1>6 DEF Restart, IInv, CallOK
  <2>3. CASE frame[Handler].at # "idle"
    BY <2>1, <2>2, <2>3 DEF Store!Abort
  <2>4. CASE frame[Handler].at = "idle"
    BY <2>1, <2>2, <2>4 DEF IInv, CallOK
  <2> QED
    BY <2>3, <2>4
<1>7. CASE UNCHANGED vars
  BY <1>7 DEF vars, storeVars
<1> QED
  BY <1>1, <1>2, <1>3, <1>4, <1>5, <1>6, <1>7 DEF Next

\* The daemon uses the store as StorageEngine specifies it, with one caller;
\* a restart is, for the store, at most a call that dies.
THEOREM DrivesStore == Spec => StoreSpec
<1>1. Init => Store!Init
  BY DEF Init
<1> QED
  BY <1>1, StoreStep, Invariant, PTL DEF Spec, StoreSpec, Store!Spec

LEMMA LimiterStep == IInv /\ [Next]_vars => [Limiter!Next]_(Limiter!vars)
<1> SUFFICES ASSUME IInv, [Next]_vars PROVE Limiter!Next \/ UNCHANGED Limiter!vars
  OBVIOUS
<1> USE DEF Limiter!vars, limiterVars
<1>1. CASE \E m \in Mails : GradeMail(m) \/ ApproveSelect(m) \/ RejectMail(m)
  BY <1>1 DEF GradeMail, ApproveSelect, RejectMail
<1>2. CASE CountAdmits \/ CountRefuses \/ Translate \/ TranslationFails
  BY <1>2 DEF CountAdmits, CountRefuses, Translate, TranslationFails, Limiter!Next,
              IInv, RequestOK
<1>3. CASE Quarantine \/ QuarantineFails \/ SendReply
  BY <1>3 DEF Quarantine, QuarantineFails, SendReply
<1>4. CASE ApproveStep \/ QueueCallFails
  BY <1>4 DEF ApproveStep, QueueCallFails
<1>5. CASE Tick \/ Restart
  BY <1>5 DEF Tick, Restart, Limiter!Next
<1>6. CASE UNCHANGED vars
  BY <1>6 DEF vars
<1> QED
  BY <1>1, <1>2, <1>3, <1>4, <1>5, <1>6 DEF Next, TranslateStep

\* The daemon uses the quota as RateLimiter specifies it.
THEOREM DrivesLimiter == Spec => LimiterSpec
<1>1. Init => Limiter!Init
  BY DEF Init
<1> QED
  BY <1>1, LimiterStep, Invariant, PTL DEF Spec, LimiterSpec, Limiter!Spec

-----------------------------------------------------------------------------
\* The theorems of the components, about the store and the limiter as the
\* daemon instantiates them.
StoreProofs == INSTANCE StorageEngine_proofs WITH Clients <- {Handler}
LimiterProofs == INSTANCE RateLimiter_proofs

LEMMA StoreAssumed == StoreProofs!IdentityAssumption /\ StoreProofs!NoMailAssumption
  BY StoreAssumption DEF StoreProofs!IdentityAssumption, StoreProofs!NoMailAssumption

LEMMA LimiterAssumed == LimiterProofs!PairAssumption /\ LimiterProofs!LimitAssumption
  BY LimiterAssumption DEF LimiterProofs!PairAssumption, LimiterProofs!LimitAssumption

\* Store and StoreProofs instantiate the same module: what the one does, the
\* other does.
LEMMA SameStore == StoreSpec => StoreProofs!Spec
<1>1. Store!Init => StoreProofs!Init
  BY DEF Store!Init, StoreProofs!Init, Store!Idle, StoreProofs!Idle,
         Store!Verdicts, StoreProofs!Verdicts
<1>2. [Store!Next]_(Store!vars) => [StoreProofs!Next]_(StoreProofs!vars)
  BY DEF Store!Next, StoreProofs!Next, Store!vars, StoreProofs!vars,
         Store!QuarantineMessage, StoreProofs!QuarantineMessage,
         Store!SelectQuarantined, StoreProofs!SelectQuarantined,
         Store!RejectQuarantined, StoreProofs!RejectQuarantined,
         Store!ApproveStep, StoreProofs!ApproveStep,
         Store!AddDomain, StoreProofs!AddDomain,
         Store!AddSender, StoreProofs!AddSender,
         Store!DeleteApproved, StoreProofs!DeleteApproved,
         Store!Return, StoreProofs!Return, Store!Abort, StoreProofs!Abort,
         Store!Idle, StoreProofs!Idle, Store!Goto, StoreProofs!Goto,
         Store!AddWhitelist, StoreProofs!AddWhitelist
<1> QED
  BY <1>1, <1>2, PTL DEF StoreSpec, Store!Spec, StoreProofs!Spec

LEMMA SameCardinality ==
    ASSUME NEW S PROVE LimiterProofs!Cardinality(S) = Limiter!Cardinality(S)
  BY DEF LimiterProofs!Cardinality, Limiter!Cardinality

LEMMA SameLimiter == LimiterSpec => LimiterProofs!Spec
<1>1. Limiter!Init => LimiterProofs!Init
  BY DEF Limiter!Init, LimiterProofs!Init
<1>2. [Limiter!Next]_(Limiter!vars) => [LimiterProofs!Next]_(LimiterProofs!vars)
  BY SameCardinality
     DEF Limiter!Next, LimiterProofs!Next, Limiter!vars, LimiterProofs!vars,
         Limiter!Tick, LimiterProofs!Tick, Limiter!Admit, LimiterProofs!Admit,
         Limiter!Refuse, LimiterProofs!Refuse,
         Limiter!RecordMessage, LimiterProofs!RecordMessage,
         Limiter!TranslationFails, LimiterProofs!TranslationFails,
         Limiter!Restart, LimiterProofs!Restart,
         Limiter!Busy, LimiterProofs!Busy, Limiter!Live, LimiterProofs!Live,
         Limiter!Prune, LimiterProofs!Prune
<1> QED
  BY <1>1, <1>2, PTL DEF LimiterSpec, Limiter!Spec, LimiterProofs!Spec

\* What the daemon does, the theorems of its components are about.
LEMMA Drives == Spec => StoreProofs!Spec /\ LimiterProofs!Spec
  BY DrivesStore, DrivesLimiter, SameStore, SameLimiter, PTL

LEMMA TrailTyped == Spec => [](late \cup approved \subseteq Mails)
<1>1. Init => late \cup approved \subseteq Mails
  BY DEF Init
<1>2. late \cup approved \subseteq Mails /\ [Next]_vars => (late \cup approved \subseteq Mails)'
  BY DEF Next, vars, trail, TranslateStep, GradeMail, ApproveSelect, RejectMail,
         CountAdmits, CountRefuses, Translate, TranslationFails, Quarantine,
         QuarantineFails, SendReply, ApproveStep, QueueCallFails, Tick, Restart
<1> QED
  BY <1>1, <1>2, PTL DEF Spec

\* The tables, the quota and the request in progress keep their types.
THEOREM TypeCorrect == Spec => []TypeOK
<1>1. StoreProofs!Spec => []StoreProofs!TypeOK
  BY StoreAssumed, StoreProofs!TypeCorrect
<1>2. LimiterProofs!Spec => []LimiterProofs!TypeOK
  BY LimiterAssumed, LimiterProofs!TypeCorrect
<1>3. StoreProofs!TypeOK => Store!TypeOK
  BY DEF StoreProofs!TypeOK, Store!TypeOK, StoreProofs!Frames, Store!Frames,
         StoreProofs!Fates, Store!Fates, StoreProofs!Verdicts, Store!Verdicts
<1>4. LimiterProofs!TypeOK => Limiter!TypeOK
  BY DEF LimiterProofs!TypeOK, Limiter!TypeOK, LimiterProofs!Entries, Limiter!Entries,
         LimiterProofs!Stages, Limiter!Stages
<1>5. IInv /\ late \cup approved \subseteq Mails /\ Store!TypeOK /\ Limiter!TypeOK => TypeOK
  BY DEF TypeOK, IInv, RequestOK, TablesOK
<1> QED
  BY <1>1, <1>2, <1>3, <1>4, <1>5, Drives, Invariant, TrailTyped, PTL

\* Whoever is told that a mail was released is the only one, and it was: the
\* race that two callers of the store would have cannot happen in the daemon,
\* which is one caller.
THEOREM ReleaseIsOne == Spec => []OneRelease
<1>1. StoreProofs!Spec => []StoreProofs!OneRelease
  BY StoreAssumed, StoreProofs!ReleaseIsOne
<1>2. StoreProofs!OneRelease => OneRelease
  BY DEF StoreProofs!OneRelease, OneRelease, Store!OneRelease
<1> QED
  BY <1>1, <1>2, Drives, PTL

\* The daemon implements the quarantine's promise: through its requests, its
\* failures and its restarts a mail is held once, leaves once, and is released
\* only after its identities are trusted.
THEOREM KeepsQuarantine == Spec => Store!QuarantineSpec
<1>1. StoreProofs!Spec => StoreProofs!QuarantineSpec
  BY StoreAssumed, StoreProofs!Refinement
<1>2. StoreProofs!QuarantineSpec =>
        /\ StoreProofs!Quarantine!Init
        /\ [][StoreProofs!Quarantine!Next]_(StoreProofs!Quarantine!vars)
  BY DEF StoreProofs!QuarantineSpec, StoreProofs!Quarantine!Spec
<1>3. StoreProofs!Quarantine!Init => Store!Quarantine!Init
  BY DEF StoreProofs!Quarantine!Init, Store!Quarantine!Init
<1>4. [StoreProofs!Quarantine!Next]_(StoreProofs!Quarantine!vars) =>
          [Store!Quarantine!Next]_(Store!Quarantine!vars)
  BY DEF StoreProofs!Quarantine!Next, Store!Quarantine!Next,
         StoreProofs!Quarantine!vars, Store!Quarantine!vars,
         StoreProofs!Quarantine!Hold, Store!Quarantine!Hold,
         StoreProofs!Quarantine!Trust, Store!Quarantine!Trust,
         StoreProofs!Quarantine!Release, Store!Quarantine!Release,
         StoreProofs!Quarantine!Discard, Store!Quarantine!Discard,
         StoreProofs!IdentitiesOf, Store!IdentitiesOf
<1>5. /\ Store!Quarantine!Init
      /\ [][Store!Quarantine!Next]_(Store!Quarantine!vars)
      => Store!QuarantineSpec
  BY DEF Store!QuarantineSpec, Store!Quarantine!Spec
<1> QED
  BY <1>1, <1>2, <1>3, <1>4, <1>5, Drives, PTL

\* The daemon implements the quota: among gradings, quarantines, failures and
\* queue calls a mail is sent when there is room for it at the moment it is
\* sent, and refused when there is none at the moment it is refused.
THEOREM KeepsQuota == Spec => Limiter!QuotaSpec
<1>1. LimiterProofs!Spec => LimiterProofs!QuotaSpec
  BY LimiterAssumed, LimiterProofs!Refinement
<1>2. LimiterProofs!QuotaSpec =>
        LimiterProofs!Quota!Init /\ [][LimiterProofs!Quota!Next]_(LimiterProofs!Quota!vars)
  BY DEF LimiterProofs!QuotaSpec, LimiterProofs!Quota!Spec
<1>3. LimiterProofs!Quota!Init => Limiter!Quota!Init
  BY DEF LimiterProofs!Quota!Init, Limiter!Quota!Init
<1>4. ASSUME NEW S PROVE LimiterProofs!Quota!Cardinality(S) = Limiter!Quota!Cardinality(S)
  BY DEF LimiterProofs!Quota!Cardinality, Limiter!Quota!Cardinality
<1>5. [LimiterProofs!Quota!Next]_(LimiterProofs!Quota!vars) =>
          [Limiter!Quota!Next]_(Limiter!Quota!vars)
  BY <1>4
     DEF LimiterProofs!Quota!Next, Limiter!Quota!Next,
         LimiterProofs!Quota!vars, Limiter!Quota!vars,
         LimiterProofs!Quota!Pass, Limiter!Quota!Pass,
         LimiterProofs!Quota!Send, Limiter!Quota!Send,
         LimiterProofs!Quota!Refuse, Limiter!Quota!Refuse,
         LimiterProofs!Quota!Drop, Limiter!Quota!Drop,
         LimiterProofs!Quota!Restart, Limiter!Quota!Restart,
         LimiterProofs!Quota!Decide, Limiter!Quota!Decide,
         LimiterProofs!Quota!LastHour, Limiter!Quota!LastHour
<1>6. Limiter!Quota!Init /\ [][Limiter!Quota!Next]_(Limiter!Quota!vars)
      => Limiter!QuotaSpec
  BY DEF Limiter!QuotaSpec, Limiter!Quota!Spec
<1> QED
  BY <1>1, <1>2, <1>3, <1>5, <1>6, Drives, PTL

\* So in no hour of one run of the daemon are more than quota_limit mails of a
\* pair of domains translated.
THEOREM QuotaHolds == Spec => []Limiter!WindowQuota
<1>1. LimiterProofs!Spec => []LimiterProofs!WindowQuota
  BY LimiterAssumed, LimiterProofs!QuotaHolds
<1>2. LimiterProofs!WindowQuota => Limiter!WindowQuota
  BY SameCardinality DEF LimiterProofs!WindowQuota, Limiter!WindowQuota,
                         LimiterProofs!Window, Limiter!Window
<1> QED
  BY <1>1, <1>2, Drives, PTL

\* An approval of the daemon is all or nothing, as storage.py has it, as long
\* as no queue call fails and the daemon is not stopped in one.
THEOREM ApprovalIsAtomicUnlessCut ==
    Spec /\ [][~(QueueCallFails \/ (Restart /\ frame[Handler] # Store!Idle))]_vars
        => []Store!ApprovalIsAtomic
<1> DEFINE Cut == QueueCallFails \/ (Restart /\ frame[Handler] # Store!Idle)
           Answering == frame[Handler].at = "return" => frame[Handler].verdict \in Store!Verdicts
<1>1. StoreProofs!Spec /\ [][\A c \in {Handler} : ~StoreProofs!Abort(c)]_(StoreProofs!vars)
          => []StoreProofs!ApprovalIsAtomic
  BY StoreAssumed, StoreProofs!ApprovalIsAtomicIfAlone
<1>2. StoreProofs!ApprovalIsAtomic => Store!ApprovalIsAtomic
  BY DEF StoreProofs!ApprovalIsAtomic, Store!ApprovalIsAtomic, StoreProofs!Idle,
         Store!Idle, StoreProofs!IdentitiesOf, Store!IdentitiesOf
<1>3. StoreProofs!Spec => []StoreProofs!IInv
  BY StoreAssumed, StoreProofs!Invariant
<1>4. StoreProofs!IInv => Answering
  BY DEF StoreProofs!IInv, StoreProofs!InProgress, StoreProofs!Verdicts, Store!Verdicts
<1>5. IInv /\ TypeOK /\ Answering /\ [Next]_vars /\ [~Cut]_vars =>
          [\A c \in {Handler} : ~StoreProofs!Abort(c)]_(StoreProofs!vars)
  <2> SUFFICES ASSUME IInv, TypeOK, Answering, [Next]_vars, [~Cut]_vars, StoreProofs!Abort(Handler)
               PROVE  FALSE
    OBVIOUS
  <2> DEFINE c == frame[Handler]
  <2>0. c.at # "idle" /\ c # Store!Idle /\ frame'[Handler].at = "idle" /\ answers' = answers
    BY DEF StoreProofs!Abort, StoreProofs!Idle, Store!Idle, IInv, CallOK
  <2>1. ~QueueCallFails /\ ~Restart /\ Next
    BY <2>0 DEF vars, storeVars
  <2>2. ~Store!Return(Handler)
    <3> SUFFICES ASSUME Store!Return(Handler) PROVE FALSE
      OBVIOUS
    <3>1. c.mail \in Mails /\ answers \in [Mails -> [Store!Verdicts -> Nat]]
      BY <2>0 DEF IInv, CallOK, TypeOK, Store!TypeOK
    <3>2. c.verdict \in Store!Verdicts
      BY DEF Store!Return
    <3> DEFINE m == c.mail
               v == c.verdict
    <3>3. answers' = [answers EXCEPT ![m][v] = @ + 1]
      BY DEF Store!Return
    <3> HIDE DEF m, v
    <3>4. answers'[m][v] = answers[m][v] + 1 /\ answers[m][v] \in Nat
      BY <3>1, <3>2, <3>3 DEF m, v
    <3> QED
      BY <2>0, <3>4
  <2>3. ~ApproveStep
    BY <2>0, <2>2 DEF IInv, CallOK, ApproveStep, Store!ApproveStep, Store!AddDomain,
                      Store!AddSender, Store!DeleteApproved, Store!Goto
  <2>4. \A m \in Mails : ~ApproveSelect(m) /\ ~RejectMail(m) /\ ~Quarantine
    BY <2>0 DEF ApproveSelect, RejectMail, Quarantine, Store!SelectQuarantined,
                Store!RejectQuarantined, Store!QuarantineMessage
  <2>5. frame' # frame
    BY <2>0
  <2> QED
    BY <2>1, <2>3, <2>4, <2>5
       DEF Next, TranslateStep, GradeMail, CountAdmits, CountRefuses, Translate,
           TranslationFails, Quarantine, QuarantineFails, SendReply, Tick, storeVars,
           Store!QuarantineMessage
<1> QED
  BY <1>1, <1>2, <1>3, <1>4, <1>5, Drives, Invariant, TypeCorrect, PTL DEF Spec

-----------------------------------------------------------------------------
\* The quota's log has one entry for every mail that was translated.
LogOK ==
    /\ sent \in [Pairs -> SUBSET [mail : Mails, at : Nat, boot : Nat]]
    /\ now \in Nat /\ boot \in Nat
    /\ \A m \in Mails : stage[m] = "sent" => \E e : Charges(m) = {e}
    /\ \A m \in Mails : stage[m] # "sent" => Charges(m) = {}

\* What a client was told agrees with how far its request came.
AgreesWith(r, s) ==
    /\ r \in {"INBOX", "JUNK", "QUARANTINE"} => s = "sent"
    /\ r = "429" => s = "refused"

AnswersOK == \A m \in Mails : AgreesWith(status[m], stage[m])

ChargedOnce == LogOK /\ AnswersOK

\* No request is translated by a step, and no refusal is taken back.
StagesStay ==
    \A m \in Mails : /\ stage[m] = "sent" <=> stage'[m] = "sent"
                     /\ stage[m] = "refused" => stage'[m] = "refused"

\* A step tells clients only what agrees with the stage of their requests.
TellsTheTruth ==
    \A m \in Mails : status'[m] = status[m] \/ AgreesWith(status'[m], stage'[m])

LEMMA StillAgrees == ASSUME AnswersOK, StagesStay, TellsTheTruth PROVE AnswersOK'
<1> SUFFICES ASSUME NEW m \in Mails PROVE AgreesWith(status'[m], stage'[m])
  BY DEF AnswersOK, AgreesWith
<1>1. CASE status'[m] = status[m]
  BY <1>1 DEF AnswersOK, StagesStay, AgreesWith
<1> QED
  BY <1>1 DEF TellsTheTruth

\* A step that charges nobody.
LEMMA UnchargedStep ==
    ASSUME ChargedOnce, sent' = sent, now' \in Nat, boot' \in Nat,
           StagesStay, TellsTheTruth
    PROVE  ChargedOnce'
<1>1. \A m \in Mails : Charges(m)' = Charges(m)
  BY DEF Charges
<1>2. LogOK'
  BY <1>1 DEF ChargedOnce, LogOK, StagesStay
<1> QED
  BY <1>2, StillAgrees DEF ChargedOnce

\* A request that is answered tells its own client only.
LEMMA ReplyTells ==
    ASSUME IInv, NEW r, Reply(r), AgreesWith(r, stage'[handler.mail])
    PROVE  TellsTheTruth
  BY DEF Reply, TellsTheTruth, IInv, TablesOK

LEMMA ChargedStep == IInv /\ ChargedOnce /\ [Next]_vars => ChargedOnce'
<1> SUFFICES ASSUME IInv, ChargedOnce, [Next]_vars PROVE ChargedOnce'
  OBVIOUS
<1> DEFINE h == handler.mail
<1>0. now \in Nat /\ boot \in Nat
  BY DEF ChargedOnce, LogOK
<1>1. ASSUME \/ \E m \in Mails : GradeMail(m) \/ ApproveSelect(m) \/ RejectMail(m)
             \/ Quarantine \/ ApproveStep \/ QueueCallFails \/ UNCHANGED vars
      PROVE  ChargedOnce'
  <2>1. UNCHANGED <<now, boot, sent, stage, status>>
    BY <1>1 DEF GradeMail, ApproveSelect, RejectMail, Quarantine, ApproveStep,
                QueueCallFails, vars, limiterVars
  <2> QED
    BY <2>1 DEF ChargedOnce, LogOK, AnswersOK, AgreesWith, Charges
<1>2. CASE CountAdmits
  <2>1. UNCHANGED <<now, boot, sent, status>>
    BY <1>2 DEF CountAdmits, Limiter!Admit
  <2>2. StagesStay
    BY <1>2 DEF CountAdmits, Limiter!Admit, StagesStay, IInv, TablesOK
  <2> QED
    BY <1>0, <2>1, <2>2, UnchargedStep DEF TellsTheTruth
<1>3. CASE CountRefuses
  <2>1. UNCHANGED <<now, boot, sent>> /\ h \in Mails
    BY <1>3 DEF CountRefuses, Limiter!Refuse, IInv, RequestOK
  <2>2. StagesStay /\ stage'[h] = "refused"
    BY <1>3, <2>1 DEF CountRefuses, Limiter!Refuse, StagesStay, IInv, TablesOK
  <2>3. TellsTheTruth
    BY <1>3, <2>2, ReplyTells DEF CountRefuses, AgreesWith
  <2> QED
    BY <1>0, <2>1, <2>2, <2>3, UnchargedStep
<1>4. CASE Translate
  <2>1. PICK x \in Mails : x = h
    BY <1>4 DEF Translate, IInv, RequestOK
  <2> DEFINE p == PairOf[x]
             entry == [mail |-> x, at |-> now, boot |-> boot]
  <2>2. stage[x] = "admitted" /\ p \in Pairs
    BY <1>4, <2>1, LimiterAssumption DEF Translate, Limiter!RecordMessage
  <2>3. entry \in [mail : Mails, at : Nat, boot : Nat]
    BY <1>0
  <2>4. sent' = [sent EXCEPT ![p] = @ \cup {entry}] /\ UNCHANGED <<now, boot, status>>
    BY <1>4, <2>1 DEF Translate, Limiter!RecordMessage
  <2>5. stage' = [stage EXCEPT ![x] = "sent"]
    BY <1>4, <2>1 DEF Translate, Limiter!RecordMessage
  <2>6. sent' \in [Pairs -> SUBSET [mail : Mails, at : Nat, boot : Nat]]
    BY <2>2, <2>3, <2>4 DEF ChargedOnce, LogOK
  <2>7. sent'[p] = sent[p] \cup {entry} /\ \A q \in Pairs : q # p => sent'[q] = sent[q]
    BY <2>2, <2>4 DEF ChargedOnce, LogOK
  <2>8. entry.mail = x
    OBVIOUS
  <2> HIDE DEF entry
  <2>9. Charges(x) = {}
    BY <2>2 DEF ChargedOnce, LogOK
  <2>10. Charges(x)' = {entry}
    BY <2>7, <2>8, <2>9 DEF Charges
  <2>11. ASSUME NEW m \in Mails, m # x PROVE Charges(m)' = Charges(m)
    BY <2>7, <2>8, <2>11, LimiterAssumption DEF Charges
  <2>12. stage'[x] = "sent" /\ \A m \in Mails : m # x => stage'[m] = stage[m]
    BY <2>5 DEF IInv, TablesOK
  <2>13. LogOK'
    <3> SUFFICES ASSUME NEW m \in Mails
                 PROVE  /\ stage'[m] = "sent" => \E e : Charges(m)' = {e}
                        /\ stage'[m] # "sent" => Charges(m)' = {}
      BY <1>0, <2>4, <2>6 DEF LogOK
    <3>1. CASE m = x
      BY <2>10, <2>12, <3>1
    <3>2. CASE m # x
      BY <2>11, <2>12, <3>2 DEF ChargedOnce, LogOK
    <3> QED
      BY <3>1, <3>2
  <2>14. AnswersOK'
    BY <2>2, <2>4, <2>12 DEF ChargedOnce, AnswersOK, AgreesWith
  <2> QED
    BY <2>13, <2>14 DEF ChargedOnce
<1>5. CASE TranslationFails
  <2>1. UNCHANGED <<now, boot, sent>>
    BY <1>5 DEF TranslationFails, Limiter!TranslationFails
  <2>2. StagesStay
    BY <1>5 DEF TranslationFails, Limiter!TranslationFails, StagesStay, IInv, TablesOK
  <2>3. TellsTheTruth
    BY <1>5, ReplyTells DEF TranslationFails, AgreesWith
  <2> QED
    BY <1>0, <2>1, <2>2, <2>3, UnchargedStep
<1>6. CASE QuarantineFails \/ SendReply
  <2>1. UNCHANGED <<now, boot, sent, stage>>
    BY <1>6 DEF QuarantineFails, SendReply, limiterVars
  <2>2. StagesStay
    BY <2>1 DEF StagesStay
  <2>3. PICK r : Reply(r) /\ AgreesWith(r, stage'[h])
    <3>1. CASE QuarantineFails
      BY <3>1 DEF QuarantineFails, AgreesWith
    <3>2. CASE SendReply
      <4>1. stage[h] = "sent"
        BY <3>2 DEF SendReply, IInv, RequestOK
      <4>2. Destination(handler.grade) \in {"INBOX", "JUNK", "QUARANTINE"}
        BY DEF Destination
      <4> QED
        BY <2>1, <3>2, <4>1, <4>2 DEF SendReply, AgreesWith
    <3> QED
      BY <1>6, <3>1, <3>2
  <2>4. TellsTheTruth
    BY <2>3, ReplyTells
  <2> QED
    BY <1>0, <2>1, <2>2, <2>4, UnchargedStep
<1>7. CASE Tick
  <2>1. UNCHANGED <<boot, sent, stage, status>> /\ now' = now + 1
    BY <1>7 DEF Tick, Limiter!Tick
  <2> QED
    BY <1>0, <2>1, UnchargedStep DEF StagesStay, TellsTheTruth
<1>8. CASE Restart
  <2>1. UNCHANGED <<now, sent, status>> /\ boot' = boot + 1
    BY <1>8 DEF Restart, Limiter!Restart
  <2>2. StagesStay
    BY <1>8 DEF Restart, Limiter!Restart, StagesStay
  <2> QED
    BY <1>0, <2>1, <2>2, UnchargedStep DEF TellsTheTruth
<1> QED
  BY <1>1, <1>2, <1>3, <1>4, <1>5, <1>6, <1>7, <1>8 DEF Next, TranslateStep

LEMMA ChargedForEver == Spec => []ChargedOnce
<1>1. Init => ChargedOnce
  BY LimiterAssumption DEF Init, Limiter!Init, ChargedOnce, LogOK, AnswersOK,
                           AgreesWith, Charges
<1> QED
  BY <1>1, ChargedStep, Invariant, PTL DEF Spec

\* An answer with an envelope was charged to the quota exactly once, a 429 was
\* not and left nothing in the queue.
THEOREM ChargedExactlyOnce == Spec => []AnsweredIsCharged
<1>1. IInv /\ ChargedOnce => AnsweredIsCharged
  <2> SUFFICES ASSUME IInv, ChargedOnce, NEW m \in Mails
               PROVE  /\ status[m] \in {"INBOX", "JUNK", "QUARANTINE"} =>
                            Cardinality(Charges(m)) = 1
                      /\ status[m] = "429" => Charges(m) = {} /\ m \notin queue
    BY DEF AnsweredIsCharged
  <2>1. \A e : Cardinality({e}) = 1
    BY FS_Singleton
  <2>2. status[m] = "429" => m \notin queue
    BY DEF ChargedOnce, AnswersOK, AgreesWith, IInv, TablesOK, Store!HeldIsQueued,
           SpoofedIsQuarantined
  <2> QED
    BY <2>1, <2>2 DEF ChargedOnce, LogOK, AnswersOK, AgreesWith
<1> QED
  BY <1>1, ChargedForEver, Invariant, PTL

-----------------------------------------------------------------------------
\* What an approval has already committed, whence each trusted identity comes
\* and, since the daemon serves one request at a time, that the whitelist a
\* request was graded by is still the whitelist when it is answered.
Trust ==
    LET call == frame[Handler] IN
    /\ Blank \notin whitelist
    /\ approved \subseteq Mails
    /\ \A i \in whitelist : \E r \in approved : i \in Store!IdentitiesOf[r]
    /\ \A m \in late : m \in Mails /\ TokenOf[m] # NoToken /\ TokenOf[m].expires < now
    /\ call.at \in {"domain", "sender", "delete"} => call.mail \in approved
    /\ call.at \in {"sender", "delete"} => DomainOf[call.mail] \in whitelist \cup {Blank}
    /\ call.at = "delete" => SenderOf[call.mail] \in whitelist \cup {Blank}
    /\ Store!ReleasedIsTrusted
    /\ handler.at # "idle" => call.at = "idle"
    /\ handler.at # "idle" /\ handler.grade = "D" => ~Whitelisted(handler.mail)
    /\ handler.at # "idle" /\ handler.grade \in {"A", "B", "C"} => SpokenFor(handler.mail)
    /\ InboxIsJustified

LEMMA GradeIsJustified ==
    ASSUME ChargedOnce, Trust, NEW m \in Mails, GradeMail(m)
    PROVE  /\ Grade(m) = "D" => ~Whitelisted(m)
           /\ Grade(m) \in {"A", "B", "C"} => SpokenFor(m)'
<1>0. approved' = approved
  BY DEF GradeMail
<1>1. Grade(m) = "D" => ~Whitelisted(m)
  BY DEF Grade
<1>2. ASSUME Grade(m) = "A", Whitelisted(m) PROVE SpokenFor(m)'
  <2>1. PICK i \in whitelist : i \in {SenderOf[m], DomainOf[m]}
    BY <1>2 DEF Whitelisted
  <2>2. PICK r \in approved : i \in Store!IdentitiesOf[r]
    BY <2>1 DEF Trust
  <2>3. Store!IdentitiesOf[r] \cap {SenderOf[m], DomainOf[m]} # {}
    BY <2>1, <2>2
  <2> QED
    BY <1>0, <2>2, <2>3 DEF SpokenFor, Store!IdentitiesOf
<1>3. ASSUME Grade(m) = "A", ~Whitelisted(m) PROVE SpokenFor(m)'
  BY <1>3 DEF Grade, SpokenFor
<1>4. ASSUME Grade(m) = "B" PROVE SpokenFor(m)'
  <2>1. Vouched(m)
    BY <1>4 DEF Grade
  <2>2. now \in Nat /\ TokenOf[m].expires \in Int
    BY <2>1, TokenAssumption DEF Vouched, Tokens, ChargedOnce, LogOK
  <2>3. m \notin late'
    BY <2>1, <2>2 DEF Vouched, Trust, GradeMail
  <2> QED
    BY <2>1, <2>3 DEF Vouched, SpokenFor, VouchedOnArrival
<1>5. ASSUME Grade(m) = "C" PROVE SpokenFor(m)'
  BY <1>5 DEF Grade, SpokenFor
<1> QED
  BY <1>1, <1>2, <1>3, <1>4, <1>5

\* What speaks for a mail does not fall silent, unless the mail comes anew.
LEMMA SpokenForEver ==
    ASSUME approved \subseteq approved', NEW m, m \in late' => m \in late, SpokenFor(m)
    PROVE  SpokenFor(m)'
  BY DEF SpokenFor, VouchedOnArrival, Store!IdentitiesOf

\* The request in progress goes on, with its mail and grade, or is over.
GoesOnOrEnds ==
    \/ handler' = NoRequest
    \/ /\ handler.at # "idle" /\ handler'.at # "idle"
       /\ handler'.mail = handler.mail
       /\ handler'.grade = handler.grade

\* The steps of a request, which leave the store alone or put a mail in it.
LEMMA TrustRequestStep ==
    ASSUME IInv, IInv', Trust, UNCHANGED <<whitelist, frame, now, trail>>,
           \A m \in Mails : fate'[m] = "released" => fate[m] = "released",
           GoesOnOrEnds,
           \A m \in Mails : status'[m] = "INBOX" => status[m] = "INBOX" \/ SpokenFor(m)
    PROVE  Trust'
<1> USE DEF Trust, GoesOnOrEnds
<1>0. UNCHANGED <<approved, late>>
  BY DEF trail
<1>1. (\A i \in whitelist : \E r \in approved : i \in Store!IdentitiesOf[r])'
  BY <1>0 DEF Store!IdentitiesOf
<1>2. Store!ReleasedIsTrusted'
  BY DEF Store!ReleasedIsTrusted, Store!IdentitiesOf
<1>3. (handler.at # "idle" /\ handler.grade = "D" => ~Whitelisted(handler.mail))'
  BY DEF Whitelisted, NoRequest
<1>4. (handler.at # "idle" /\ handler.grade \in {"A", "B", "C"} => SpokenFor(handler.mail))'
  BY <1>0, SpokenForEver DEF NoRequest
<1>5. InboxIsJustified'
  BY <1>0, SpokenForEver DEF InboxIsJustified
<1>6. (handler.at # "idle" => frame[Handler].at = "idle")'
  BY DEF NoRequest
<1> QED
  BY <1>0, <1>1, <1>2, <1>3, <1>4, <1>5, <1>6

\* The steps of a queue call, which leave requests and answers alone.
LEMMA TrustCallStep ==
    ASSUME IInv, Trust, handler.at = "idle", UNCHANGED <<handler, status, now, late>>,
           approved \subseteq approved', approved' \subseteq Mails,
           Store!ReleasedIsTrusted',
           whitelist \subseteq whitelist',
           \A i \in whitelist' \ whitelist : i # Blank /\
               \E r \in approved : i \in Store!IdentitiesOf[r],
           frame'[Handler].at \in {"domain", "sender", "delete"} =>
               frame'[Handler].mail \in approved',
           frame'[Handler].at \in {"sender", "delete"} =>
               DomainOf[frame'[Handler].mail] \in whitelist' \cup {Blank},
           frame'[Handler].at = "delete" =>
               SenderOf[frame'[Handler].mail] \in whitelist' \cup {Blank}
    PROVE  Trust'
<1> USE DEF Trust
<1>1. (\A i \in whitelist : \E r \in approved : i \in Store!IdentitiesOf[r])'
  <2> SUFFICES ASSUME NEW i \in whitelist'
               PROVE  \E r \in approved' : i \in Store!IdentitiesOf[r]
    BY DEF Store!IdentitiesOf
  <2>1. PICK r \in approved : i \in Store!IdentitiesOf[r]
    OBVIOUS
  <2> QED
    BY <2>1
<1>2. InboxIsJustified'
  BY SpokenForEver DEF InboxIsJustified
<1> QED
  BY <1>1, <1>2

LEMMA TrustStep == IInv /\ ChargedOnce /\ Trust /\ [Next]_vars => Trust'
<1> SUFFICES ASSUME IInv, ChargedOnce, Trust, [Next]_vars PROVE Trust'
  OBVIOUS
<1> DEFINE c == frame[Handler]
<1>0. IInv'
  BY NextIInv
<1>1. ASSUME NEW m \in Mails, GradeMail(m) PROVE Trust'
  <2>1. /\ Grade(m) = "D" => ~Whitelisted(m)
        /\ Grade(m) \in {"A", "B", "C"} => SpokenFor(m)'
    BY <1>1, GradeIsJustified
  <2>2. UNCHANGED <<whitelist, frame, fate, status, now, approved>>
    BY <1>1 DEF GradeMail, storeVars, limiterVars
  <2>3. handler'.mail = m /\ handler'.grade = Grade(m) /\ c.at = "idle"
    BY <1>1 DEF GradeMail, Free
  <2>4. (handler.grade = "D" => ~Whitelisted(handler.mail))'
    BY <2>1, <2>2, <2>3 DEF Whitelisted
  <2>5. (handler.grade \in {"A", "B", "C"} => SpokenFor(handler.mail))'
    BY <2>1, <2>3 DEF SpokenFor, VouchedOnArrival, Store!IdentitiesOf
  <2>6. InboxIsJustified'
    <3> SUFFICES ASSUME NEW x \in Mails, status'[x] = "INBOX" PROVE SpokenFor(x)'
      BY DEF InboxIsJustified, SpokenFor, VouchedOnArrival, Store!IdentitiesOf
    <3>1. status[x] = "INBOX" /\ SpokenFor(x)
      BY <2>2 DEF Trust, InboxIsJustified
    <3>2. stage[x] = "sent" /\ stage[m] = "new"
      BY <1>1, <3>1 DEF ChargedOnce, AnswersOK, AgreesWith, GradeMail
    <3>3. x \in late' => x \in late
      BY <1>1, <3>2 DEF GradeMail
    <3> QED
      BY <2>2, <3>1, <3>3, SpokenForEver
  <2>7. Store!ReleasedIsTrusted'
    BY <2>2 DEF Trust, Store!ReleasedIsTrusted
  <2>8. (\A x \in late : x \in Mails /\ TokenOf[x] # NoToken /\ TokenOf[x].expires < now)'
    BY <1>1, <2>2 DEF Trust, GradeMail
  <2> QED
    BY <2>2, <2>3, <2>4, <2>5, <2>6, <2>7, <2>8 DEF Trust, Store!IdentitiesOf
<1>2. CASE CountAdmits \/ Translate \/ TranslationFails \/ CountRefuses \/ QuarantineFails
  <2>1. UNCHANGED <<whitelist, frame, fate, now, trail>>
    BY <1>2 DEF CountAdmits, Translate, TranslationFails, CountRefuses, QuarantineFails,
                storeVars, limiterVars, Limiter!Admit, Limiter!Refuse,
                Limiter!RecordMessage, Limiter!TranslationFails
  <2>2. \A m \in Mails : status'[m] = "INBOX" => status[m] = "INBOX"
    BY <1>2 DEF CountAdmits, Translate, TranslationFails, CountRefuses,
                QuarantineFails, Reply, IInv, TablesOK
  <2>3. CASE CountAdmits \/ Translate
    <3>1. PICK s \in {"translate", "quarantine", "reply"} : handler' = [handler EXCEPT !.at = s]
      BY <2>3 DEF CountAdmits, Translate, Goto
    <3>2. handler.at # "idle"
      BY <2>3 DEF CountAdmits, Translate
    <3> QED
      BY <3>1, <3>2 , <2>1, <2>2, <1>0, TrustRequestStep DEF GoesOnOrEnds, IInv, RequestOK
  <2>4. CASE TranslationFails \/ CountRefuses \/ QuarantineFails
    <3>1. GoesOnOrEnds
      BY <2>4 DEF TranslationFails, CountRefuses, QuarantineFails, Reply, GoesOnOrEnds
    <3> QED
      BY <1>0, <2>1, <2>2, <3>1, TrustRequestStep
  <2> QED
    BY <1>2, <2>3, <2>4
<1>3. CASE Quarantine
  <2> USE <1>3 DEF Quarantine, Store!QuarantineMessage
  <2>1. \A m \in Mails : fate'[m] = "released" => fate[m] = "released"
    BY DEF IInv, TablesOK
  <2>2. GoesOnOrEnds
    BY DEF GoesOnOrEnds, Goto, IInv, RequestOK
  <2>3. UNCHANGED <<whitelist, frame, status, now, trail>>
    BY DEF limiterVars
  <2> HIDE DEF Quarantine
  <2> QED
    BY <1>0, <2>1, <2>2, <2>3, TrustRequestStep
<1>4. CASE SendReply
  <2> USE <1>4 DEF SendReply
  <2>1. handler.mail \in Mails /\ handler.grade \in Grades
    BY DEF IInv, RequestOK
  <2>2. Destination(handler.grade) = "INBOX" => SpokenFor(handler.mail)
    BY <2>1 DEF Destination, Grades, Trust
  <2>3. \A m \in Mails : status'[m] = "INBOX" => status[m] = "INBOX" \/ SpokenFor(m)
    BY <2>1, <2>2 DEF Reply, IInv, TablesOK
  <2>4. GoesOnOrEnds
    BY DEF Reply, GoesOnOrEnds
  <2>5. UNCHANGED <<whitelist, frame, fate, now, trail>>
    BY DEF storeVars, limiterVars
  <2> QED
    BY <1>0, <2>3, <2>4, <2>5, TrustRequestStep
<1>5. CASE Tick \/ UNCHANGED vars
  <2>1. UNCHANGED <<storeVars, handler, status, late, approved>>
    BY <1>5 DEF Tick, vars, trail
  <2>2. now \in Nat /\ now' \in {now, now + 1}
    BY <1>5 DEF Tick, Limiter!Tick, vars, limiterVars, ChargedOnce, LogOK
  <2>3. (\A m \in late : m \in Mails /\ TokenOf[m] # NoToken /\ TokenOf[m].expires < now)'
    <3> SUFFICES ASSUME NEW m \in late
                 PROVE  m \in Mails /\ TokenOf[m] # NoToken /\ TokenOf[m].expires < now'
      BY <2>1
    <3>1. m \in Mails /\ TokenOf[m] # NoToken /\ TokenOf[m].expires < now
      BY DEF Trust
    <3>2. TokenOf[m].expires \in Int
      BY <3>1, TokenAssumption DEF Tokens
    <3> QED
      BY <2>2, <3>1, <3>2
  <2>4. InboxIsJustified' /\ Store!ReleasedIsTrusted'
    BY <2>1 DEF Trust, storeVars, InboxIsJustified, SpokenFor, VouchedOnArrival,
                Store!IdentitiesOf, Store!ReleasedIsTrusted
  <2> QED
    BY <2>1, <2>3, <2>4 DEF Trust, storeVars, Whitelisted, SpokenFor, VouchedOnArrival,
                            Store!IdentitiesOf
<1>6. CASE Restart
  <2>1. UNCHANGED <<whitelist, fate, status, now, late, approved>> /\ handler' = NoRequest
    BY <1>6 DEF Restart, Limiter!Restart, trail
  <2>2. frame'[Handler].at = "idle"
    BY <1>6 DEF Restart, Store!Idle
  <2>3. InboxIsJustified' /\ Store!ReleasedIsTrusted'
    BY <2>1 DEF Trust, InboxIsJustified, SpokenFor, VouchedOnArrival,
                Store!IdentitiesOf, Store!ReleasedIsTrusted
  <2> QED
    BY <2>1, <2>2, <2>3 DEF Trust, NoRequest, Store!IdentitiesOf
<1>7. CASE QueueCallFails
  <2> USE <1>7 DEF QueueCallFails, Store!Abort
  <2>1. handler.at = "idle" /\ frame'[Handler].at = "idle"
    BY DEF Trust, IInv, CallOK, Store!Idle
  <2>2. Store!ReleasedIsTrusted'
    BY DEF Trust, Store!ReleasedIsTrusted
  <2>3. UNCHANGED <<handler, status, now, late, approved>> /\ approved \subseteq Mails
    BY DEF limiterVars, trail, Trust
  <2> QED
    BY <2>1, <2>2, <2>3, TrustCallStep
<1>8. ASSUME NEW m \in Mails, ApproveSelect(m) \/ RejectMail(m) PROVE Trust'
  <2> USE <1>8 DEF ApproveSelect, RejectMail, Store!SelectQuarantined,
                   Store!RejectQuarantined, Store!Goto
  <2>1. handler.at = "idle"
    BY DEF Free, NoRequest
  <2>2. /\ frame'[Handler].at \in {"idle", "domain", "return"}
        /\ frame'[Handler].at = "domain" => frame'[Handler].mail \in approved'
    BY DEF Free, IInv, CallOK
  <2>3. \A x \in Mails : fate'[x] = "released" => fate[x] = "released"
    BY DEF IInv, TablesOK
  <2>4. Store!ReleasedIsTrusted'
    BY <2>3 DEF Trust, Store!ReleasedIsTrusted, Store!IdentitiesOf
  <2>5. /\ UNCHANGED <<handler, status, now, late>>
        /\ approved \subseteq approved' /\ approved' \subseteq Mails
    BY DEF limiterVars, trail, Trust
  <2> QED
    BY <2>1, <2>2, <2>4, <2>5, TrustCallStep
<1>9. CASE ApproveStep
  <2>0. c.at # "idle" /\ UNCHANGED <<handler, status, now, late, approved>>
    BY <1>9 DEF ApproveStep, Store!ApproveStep, Store!AddDomain, Store!AddSender,
                Store!DeleteApproved, Store!Return, limiterVars, trail
  <2>1. /\ handler.at = "idle" /\ c.mail \in Mails /\ approved \subseteq Mails
        /\ c.at \in {"domain", "sender", "delete"} => c.mail \in approved
    BY <2>0 DEF Trust, IInv, CallOK
  <2>2. CASE Store!AddDomain(Handler)
    <3> USE <2>2 DEF Store!AddDomain, Store!AddWhitelist, Store!Goto
    <3>1. frame'[Handler].at = "sender" /\ frame'[Handler].mail = c.mail
      BY DEF IInv, CallOK
    <3>2. Store!ReleasedIsTrusted'
      BY DEF Trust, Store!ReleasedIsTrusted
    <3>3. \A i \in whitelist' \ whitelist : i # Blank /\ i \in Store!IdentitiesOf[c.mail]
      BY <2>1 DEF Store!IdentitiesOf
    <3>4. DomainOf[c.mail] \in whitelist' \cup {Blank}
      OBVIOUS
    <3> QED
      BY <2>0, <2>1, <3>1, <3>2, <3>3, <3>4, TrustCallStep
  <2>3. CASE Store!AddSender(Handler)
    <3> USE <2>3 DEF Store!AddSender, Store!AddWhitelist, Store!Goto
    <3>1. frame'[Handler].at = "delete" /\ frame'[Handler].mail = c.mail
      BY DEF IInv, CallOK
    <3>2. Store!ReleasedIsTrusted'
      BY DEF Trust, Store!ReleasedIsTrusted
    <3>3. \A i \in whitelist' \ whitelist : i # Blank /\ i \in Store!IdentitiesOf[c.mail]
      BY <2>1 DEF Store!IdentitiesOf
    <3>4. {DomainOf[c.mail], SenderOf[c.mail]} \subseteq whitelist' \cup {Blank}
      BY DEF Trust
    <3> QED
      BY <2>0, <2>1, <3>1, <3>2, <3>3, <3>4, TrustCallStep
  <2>4. CASE Store!DeleteApproved(Handler)
    <3> USE <2>4 DEF Store!DeleteApproved, Store!Goto
    <3>1. frame'[Handler].at = "return"
      BY DEF IInv, CallOK
    <3>2. \A x \in Mails : fate'[x] = "released" => fate[x] = "released" \/ x = c.mail
      BY <2>1 DEF IInv, TablesOK
    <3>3. Store!IdentitiesOf[c.mail] \subseteq whitelist
      BY <2>1 DEF Trust, Store!IdentitiesOf
    <3>4. Store!ReleasedIsTrusted'
      BY <2>1, <3>2, <3>3 DEF Trust, Store!ReleasedIsTrusted, Store!IdentitiesOf
    <3> QED
      BY <2>0, <2>1, <3>1, <3>2, <3>4, TrustCallStep
  <2>5. CASE Store!Return(Handler)
    <3> USE <2>5 DEF Store!Return
    <3>1. frame'[Handler].at = "idle"
      BY DEF IInv, CallOK, Store!Idle
    <3>2. Store!ReleasedIsTrusted'
      BY DEF Trust, Store!ReleasedIsTrusted
    <3> QED
      BY <2>0, <2>1, <3>1, <3>2, TrustCallStep
  <2> QED
    BY <1>9, <2>2, <2>3, <2>4, <2>5 DEF ApproveStep, Store!ApproveStep
<1> QED
  BY <1>1, <1>2, <1>3, <1>4, <1>5, <1>6, <1>7, <1>8, <1>9 DEF Next, TranslateStep

LEMMA InitTrust == Init => Trust
  BY DEF Init, Store!Init, Store!Idle, Trust, NoRequest, InboxIsJustified,
         Store!ReleasedIsTrusted

\* INBOX is told only for mail somebody speaks for; in particular approving a
\* mail with an empty From: opens the inbox to nobody.
THEOREM InboxHasReason == Spec => []InboxIsJustified
<1>1. Trust => InboxIsJustified
  BY DEF Trust
<1> QED
  BY <1>1, InitTrust, TrustStep, Invariant, ChargedForEver, PTL DEF Spec

\* After a release, signed mail of the same sender or domain is not told JUNK.
THEOREM ApprovalLasts == Spec => ApprovedSenderNotJunked
<1> DEFINE A == \A m, r \in Mails :
                  (status[m] # "JUNK" /\ status'[m] = "JUNK" /\ fate[r] = "released") =>
                     Store!IdentitiesOf[r] \cap {SenderOf[m], DomainOf[m]} = {}
<1>1. IInv /\ Trust /\ [Next]_vars => [A]_vars
  <2> SUFFICES ASSUME IInv, Trust, Next, NEW m \in Mails, NEW r \in Mails,
                      status[m] # "JUNK", status'[m] = "JUNK", fate[r] = "released"
               PROVE  Store!IdentitiesOf[r] \cap {SenderOf[m], DomainOf[m]} = {}
    OBVIOUS
  <2>1. SendReply
    BY DEF Next, TranslateStep, GradeMail, ApproveSelect, RejectMail, CountAdmits,
           CountRefuses, Translate, TranslationFails, Quarantine, QuarantineFails,
           ApproveStep, QueueCallFails, Tick, Restart, Reply, IInv, TablesOK
  <2>2. handler.mail = m /\ handler.grade = "D"
    BY <2>1 DEF SendReply, Reply, Destination, IInv, TablesOK, RequestOK, Grades
  <2>3. ~Whitelisted(m)
    BY <2>1, <2>2 DEF Trust, SendReply
  <2>4. Store!IdentitiesOf[r] \subseteq whitelist
    BY DEF Trust, Store!ReleasedIsTrusted
  <2> QED
    BY <2>3, <2>4 DEF Whitelisted
<1> QED
  BY <1>1, InitTrust, TrustStep, Invariant, ChargedForEver, PTL DEF Spec, ApprovedSenderNotJunked
=============================================================================
