------------------------- MODULE RateLimiter_proofs -------------------------
(***************************************************************************)
(* The quota holds for every limit, window length, number of domains and   *)
(* of mails.  The limiter decides on the pruned history, the quota speaks  *)
(* of the log: the inductive invariant says that an entry of this boot     *)
(* that was pruned is an hour old (PrunedIsOld), and that the mail in      *)
(* translation still fits in the window (AdmittedFits), for the count was  *)
(* taken before it and only time has passed since.                         *)
(***************************************************************************)
EXTENDS RateLimiter, FiniteSetTheorems, TLAPS

LogIsPast ==
    \A p \in Pairs : \A e \in sent[p] : e.at <= now /\ e.boot <= boot

LogIsFinite == \A p \in Pairs : IsFiniteSet(sent[p])

HistoryIsLogged ==
    \A p \in Pairs : \A e \in history[p] : e \in sent[p] /\ e.boot = boot

PrunedIsOld ==
    \A p \in Pairs : \A e \in sent[p] :
        e.boot = boot /\ e \notin history[p] => e.at <= now - Hour

OneAdmitted ==
    \A m, n \in Mails : stage[m] = "admitted" /\ stage[n] = "admitted" => m = n

AdmittedFits ==
    \A m \in Mails :
        stage[m] = "admitted" => Cardinality(Live(PairOf[m])) < QuotaLimit

IInv ==
    /\ TypeOK
    /\ LogIsPast
    /\ LogIsFinite
    /\ HistoryIsLogged
    /\ PrunedIsOld
    /\ OneAdmitted
    /\ AdmittedFits
    /\ WindowQuota

-----------------------------------------------------------------------------
\* What a window and a pruned history contain can be counted.
LEMMA LiveIsFinite ==
    ASSUME IInv, NEW p \in Pairs
    PROVE  IsFiniteSet(Live(p)) /\ Cardinality(Live(p)) \in Nat
<1>1. Live(p) \subseteq sent[p]
  BY DEF IInv, Live, HistoryIsLogged
<1>2. IsFiniteSet(Live(p))
  BY <1>1, FS_Subset DEF IInv, LogIsFinite
<1> QED
  BY <1>2, FS_CardinalityType

LEMMA WindowIsFinite ==
    ASSUME IInv, NEW p \in Pairs, NEW b, NEW t
    PROVE  IsFiniteSet(Window(p, b, t)) /\ Cardinality(Window(p, b, t)) \in Nat
<1>1. Window(p, b, t) \subseteq sent[p]
  BY DEF Window
<1>2. IsFiniteSet(Window(p, b, t))
  BY <1>1, FS_Subset DEF IInv, LogIsFinite
<1> QED
  BY <1>2, FS_CardinalityType

\* One entry more makes a set at most one larger.
LEMMA AddOne ==
    ASSUME NEW S, NEW x, IsFiniteSet(S)
    PROVE  /\ IsFiniteSet(S \cup {x})
           /\ Cardinality(S \cup {x}) \in Nat
           /\ Cardinality(S \cup {x}) <= Cardinality(S) + 1
<1>1. IsFiniteSet(S \cup {x})
  BY FS_AddElement
<1>2. Cardinality(S) \in Nat /\ Cardinality(S \cup {x}) \in Nat
  BY <1>1, FS_CardinalityType
<1>3. Cardinality(S \cup {x}) = IF x \in S THEN Cardinality(S) ELSE Cardinality(S) + 1
  BY FS_AddElement
<1> QED
  BY <1>1, <1>2, <1>3

\* What is left of the history after pruning is the window that ends now: the
\* log shows nothing that the count does not see.
LEMMA LiveIsWindow ==
    ASSUME IInv, NEW p \in Pairs
    PROVE  Live(p) = Window(p, boot, now)
<1> USE LimitAssumption DEF IInv, TypeOK, Entries
<1>1. Live(p) \subseteq Window(p, boot, now)
  BY DEF Live, Window, HistoryIsLogged, LogIsPast
<1>2. Window(p, boot, now) \subseteq Live(p)
  BY DEF Live, Window, PrunedIsOld
<1> QED
  BY <1>1, <1>2

\* HourlyQuota has a Cardinality of its own, defined by the same words.
LEMMA SameCardinality == ASSUME NEW S PROVE Quota!Cardinality(S) = Cardinality(S)
  BY DEF Cardinality, Quota!Cardinality

\* The quota counts the same entries in a log without a history.
LEMMA LiveIsLastHour ==
    ASSUME IInv, NEW m \in Mails
    PROVE  /\ Live(PairOf[m]) = Quota!LastHour(PairOf[m])
           /\ Cardinality(Live(PairOf[m])) = Quota!Cardinality(Quota!LastHour(PairOf[m]))
<1> USE LimitAssumption DEF IInv, TypeOK, Entries
<1>1. PairOf[m] \in Pairs
  BY PairAssumption
<1>2. Live(PairOf[m]) \subseteq Quota!LastHour(PairOf[m])
  BY <1>1 DEF Live, Quota!LastHour, HistoryIsLogged
<1>3. Quota!LastHour(PairOf[m]) \subseteq Live(PairOf[m])
  BY <1>1 DEF Live, Quota!LastHour, PrunedIsOld
<1> QED
  BY <1>2, <1>3, SameCardinality

LEMMA InitIInv == Init => IInv
<1> SUFFICES ASSUME Init PROVE IInv
  OBVIOUS
<1> USE LimitAssumption DEF Init
<1>1. TypeOK
  BY DEF TypeOK, Stages
<1>2. LogIsPast /\ HistoryIsLogged /\ PrunedIsOld
  BY DEF LogIsPast, HistoryIsLogged, PrunedIsOld
<1>3. LogIsFinite
  BY FS_EmptySet DEF LogIsFinite
<1>4. OneAdmitted /\ AdmittedFits
  BY DEF OneAdmitted, AdmittedFits
<1>5. WindowQuota
  <2> SUFFICES ASSUME NEW p \in Pairs, NEW b \in 0..MaxBoots, NEW t \in 0..MaxTime
               PROVE  Cardinality(Window(p, b, t)) <= QuotaLimit
    BY DEF WindowQuota
  <2>1. Window(p, b, t) = {}
    BY DEF Window
  <2> QED
    BY <2>1, FS_EmptySet
<1> QED
  BY <1>1, <1>2, <1>3, <1>4, <1>5 DEF IInv

-----------------------------------------------------------------------------
\* Time passing takes entries out of the live history and adds none.
LEMMA TickStep == ASSUME IInv, Tick PROVE IInv'
<1> USE LimitAssumption DEF Tick
<1>1. TypeOK'
  BY DEF IInv, TypeOK
<1>2. LogIsPast'
  BY DEF IInv, TypeOK, LogIsPast, Entries
<1>3. LogIsFinite' /\ HistoryIsLogged' /\ OneAdmitted'
  BY DEF IInv, LogIsFinite, HistoryIsLogged, OneAdmitted
<1>4. PrunedIsOld'
  BY DEF IInv, TypeOK, PrunedIsOld, Entries
<1>5. AdmittedFits'
  <2> SUFFICES ASSUME NEW m \in Mails, stage[m] = "admitted"
               PROVE  Cardinality(Live(PairOf[m]))' < QuotaLimit
    BY DEF AdmittedFits
  <2> DEFINE p == PairOf[m]
  <2>1. p \in Pairs
    BY PairAssumption
  <2>2. Live(p)' \subseteq Live(p)
    BY <2>1 DEF IInv, TypeOK, Live, Entries
  <2>3. Cardinality(Live(p)') <= Cardinality(Live(p)) /\ Cardinality(Live(p)') \in Nat
    BY <2>1, <2>2, LiveIsFinite, FS_Subset, FS_CardinalityType
  <2>4. Cardinality(Live(p)) < QuotaLimit /\ Cardinality(Live(p)) \in Nat
    BY <2>1, LiveIsFinite DEF IInv, AdmittedFits
  <2> QED
    BY <2>3, <2>4
<1>6. WindowQuota'
  BY DEF IInv, WindowQuota, Window
<1> QED
  BY <1>1, <1>2, <1>3, <1>4, <1>5, <1>6 DEF IInv

\* Pruning a history changes neither what is live in it nor what it shows of
\* the last hour.
LEMMA PruneKeeps ==
    ASSUME IInv, NEW q \in Pairs, Prune(q), UNCHANGED <<now, boot, sent>>
    PROVE  /\ history' \in [Pairs -> SUBSET Entries]
           /\ HistoryIsLogged'
           /\ PrunedIsOld'
           /\ \A p \in Pairs : Live(p)' = Live(p)
<1> USE LimitAssumption DEF IInv, TypeOK, Prune, Live
<1>1. history' \in [Pairs -> SUBSET Entries]
  OBVIOUS
<1>2. HistoryIsLogged'
  BY DEF HistoryIsLogged
<1>3. PrunedIsOld'
  BY DEF PrunedIsOld, Entries
<1>4. \A p \in Pairs : Live(p)' = Live(p)
  OBVIOUS
<1> QED
  BY <1>1, <1>2, <1>3, <1>4

LEMMA AdmitStep == ASSUME IInv, NEW m \in Mails, Admit(m) PROVE IInv'
<1> USE PairAssumption DEF Admit
<1>0. /\ history' \in [Pairs -> SUBSET Entries]
      /\ HistoryIsLogged'
      /\ PrunedIsOld'
      /\ \A p \in Pairs : Live(p)' = Live(p)
  BY PruneKeeps
<1>1. TypeOK'
  BY <1>0 DEF IInv, TypeOK, Stages
<1>2. LogIsPast' /\ LogIsFinite' /\ WindowQuota'
  BY DEF IInv, LogIsPast, LogIsFinite, WindowQuota, Window
<1>3. OneAdmitted'
  BY DEF IInv, TypeOK, OneAdmitted, Busy
<1>4. AdmittedFits'
  BY <1>0 DEF IInv, TypeOK, AdmittedFits, Busy
<1> QED
  BY <1>0, <1>1, <1>2, <1>3, <1>4 DEF IInv

LEMMA RefuseStep == ASSUME IInv, NEW m \in Mails, Refuse(m) PROVE IInv'
<1> USE PairAssumption DEF Refuse
<1>0. /\ history' \in [Pairs -> SUBSET Entries]
      /\ HistoryIsLogged'
      /\ PrunedIsOld'
      /\ \A p \in Pairs : Live(p)' = Live(p)
  BY PruneKeeps
<1>1. TypeOK'
  BY <1>0 DEF IInv, TypeOK, Stages
<1>2. LogIsPast' /\ LogIsFinite' /\ WindowQuota'
  BY DEF IInv, LogIsPast, LogIsFinite, WindowQuota, Window
<1>3. OneAdmitted'
  BY DEF IInv, TypeOK, OneAdmitted
<1>4. AdmittedFits'
  BY <1>0 DEF IInv, TypeOK, AdmittedFits, Busy
<1> QED
  BY <1>0, <1>1, <1>2, <1>3, <1>4 DEF IInv

\* Recording a mail fills the window it was counted against by one.
LEMMA RecordMessageStep ==
    ASSUME IInv, NEW m \in Mails, RecordMessage(m) PROVE IInv'
<1> USE PairAssumption, LimitAssumption DEF RecordMessage
<1> DEFINE q == PairOf[m]
           entry == [mail |-> m, at |-> now, boot |-> boot]
<1>0. q \in Pairs /\ entry \in Entries
  BY DEF IInv, TypeOK, Entries
<1>a. /\ history' = [history EXCEPT ![q] = @ \cup {entry}]
      /\ sent' = [sent EXCEPT ![q] = @ \cup {entry}]
  OBVIOUS
<1>1. TypeOK'
  BY <1>0, <1>a DEF IInv, TypeOK, Stages
<1>2. LogIsPast'
  BY <1>0, <1>a DEF IInv, TypeOK, LogIsPast
<1>3. LogIsFinite'
  <2>1. IsFiniteSet(sent[q] \cup {entry})
    BY <1>0, AddOne DEF IInv, LogIsFinite
  <2> QED
    BY <1>0, <1>a, <2>1 DEF IInv, TypeOK, LogIsFinite
<1>4. HistoryIsLogged'
  BY <1>0, <1>a DEF IInv, TypeOK, HistoryIsLogged
<1>5. PrunedIsOld'
  BY <1>0, <1>a DEF IInv, TypeOK, PrunedIsOld
<1>6. OneAdmitted' /\ AdmittedFits'
  BY DEF IInv, TypeOK, OneAdmitted, AdmittedFits
<1>7. WindowQuota'
  <2> SUFFICES ASSUME NEW p \in Pairs, NEW b \in 0..MaxBoots, NEW t \in 0..MaxTime
               PROVE  Cardinality(Window(p, b, t)') <= QuotaLimit
    BY DEF WindowQuota
  <2>1. Cardinality(Window(p, b, t)) <= QuotaLimit
    BY DEF IInv, WindowQuota
  <2>2. CASE p # q \/ b # boot \/ t < now
    <3>1. Window(p, b, t)' = Window(p, b, t)
      BY <1>0, <1>a, <2>2 DEF IInv, TypeOK, Window
    <3> QED
      BY <2>1, <3>1
  <2>3. CASE p = q /\ b = boot /\ ~(t < now)
    <3>1. Window(p, b, t)' \subseteq Live(q) \cup {entry}
      <4> SUFFICES ASSUME NEW e \in sent[q], e.boot = boot, t - Hour < e.at
                   PROVE  e \in Live(q)
        BY <1>0, <1>a, <2>3 DEF IInv, TypeOK, Window
      <4> QED
        BY <1>0, <2>3 DEF IInv, TypeOK, Live, PrunedIsOld, Entries
    <3>2. IsFiniteSet(Live(q)) /\ Cardinality(Live(q)) \in Nat
      BY <1>0, LiveIsFinite
    <3>3. Cardinality(Live(q)) < QuotaLimit
      BY DEF IInv, AdmittedFits
    <3>4. /\ IsFiniteSet(Live(q) \cup {entry})
          /\ Cardinality(Live(q) \cup {entry}) <= Cardinality(Live(q)) + 1
          /\ Cardinality(Live(q) \cup {entry}) \in Nat
      BY <3>2, AddOne
    <3>5. /\ Cardinality(Window(p, b, t)') <= Cardinality(Live(q) \cup {entry})
          /\ Cardinality(Window(p, b, t)') \in Nat
      BY <3>1, <3>4, FS_Subset, FS_CardinalityType
    <3> QED
      BY <3>2, <3>3, <3>4, <3>5
  <2> QED
    BY <2>2, <2>3 DEF IInv, TypeOK
<1> QED
  BY <1>1, <1>2, <1>3, <1>4, <1>5, <1>6, <1>7 DEF IInv

LEMMA TranslationFailsStep ==
    ASSUME IInv, NEW m \in Mails, TranslationFails(m) PROVE IInv'
<1> USE DEF IInv, TranslationFails
<1>1. TypeOK'
  BY DEF TypeOK, Stages
<1>2. LogIsPast' /\ LogIsFinite' /\ HistoryIsLogged' /\ PrunedIsOld' /\ WindowQuota'
  BY DEF LogIsPast, LogIsFinite, HistoryIsLogged, PrunedIsOld, WindowQuota, Window
<1>3. OneAdmitted' /\ AdmittedFits'
  BY DEF TypeOK, OneAdmitted, AdmittedFits, Live
<1> QED
  BY <1>1, <1>2, <1>3

\* A restart begins a boot that no entry of the log belongs to.
LEMMA RestartStep == ASSUME IInv, Restart PROVE IInv'
<1> USE LimitAssumption DEF IInv, Restart
<1>1. TypeOK'
  BY DEF TypeOK, Stages
<1>2. LogIsPast'
  BY DEF LogIsPast, TypeOK, Entries
<1>3. LogIsFinite' /\ HistoryIsLogged' /\ WindowQuota'
  BY DEF LogIsFinite, HistoryIsLogged, WindowQuota, Window
<1>4. PrunedIsOld'
  BY DEF TypeOK, LogIsPast, PrunedIsOld, Entries
<1>5. OneAdmitted' /\ AdmittedFits'
  BY DEF OneAdmitted, AdmittedFits
<1> QED
  BY <1>1, <1>2, <1>3, <1>4, <1>5

LEMMA NextIInv == IInv /\ [Next]_vars => IInv'
<1> SUFFICES ASSUME IInv, [Next]_vars PROVE IInv'
  OBVIOUS
<1>1. CASE UNCHANGED vars
  BY <1>1 DEF vars, IInv, TypeOK, LogIsPast, LogIsFinite, HistoryIsLogged,
              PrunedIsOld, OneAdmitted, AdmittedFits, Live, WindowQuota, Window
<1> QED
  BY <1>1, TickStep, AdmitStep, RefuseStep, RecordMessageStep,
     TranslationFailsStep, RestartStep DEF Next

-----------------------------------------------------------------------------
\* One step of the limiter is one step of the quota or changes nothing it shows.
LEMMA StepRefines == IInv /\ [Next]_vars => [Quota!Next]_(Quota!vars)
<1> SUFFICES ASSUME IInv, [Next]_vars PROVE [Quota!Next]_(Quota!vars)
  OBVIOUS
<1> DEFINE outcome == [m \in Mails |-> IF stage[m] = "admitted" THEN "new" ELSE stage[m]]
<1> USE PairAssumption
<1>0. stage \in [Mails -> Stages]
  BY DEF IInv, TypeOK
<1>1. ASSUME Tick PROVE Quota!Pass
  BY <1>1 DEF Tick, Quota!Pass
<1>2. ASSUME NEW m \in Mails, Admit(m) PROVE UNCHANGED Quota!vars
  <2>1. outcome' = outcome
    BY <1>0, <1>2 DEF Admit
  <2> QED
    BY <1>2, <2>1 DEF Admit, Quota!vars
<1>3. ASSUME NEW m \in Mails, Refuse(m) PROVE Quota!Refuse(m)
  <2>1. outcome[m] = "new" /\ outcome' = [outcome EXCEPT ![m] = "refused"]
    BY <1>0, <1>3 DEF Refuse
  <2>2. Quota!Cardinality(Quota!LastHour(PairOf[m])) >= QuotaLimit
    BY <1>3, LiveIsLastHour DEF Refuse
  <2> QED
    BY <1>3, <2>1, <2>2 DEF Refuse, Quota!Refuse, Quota!Decide
<1>4. ASSUME NEW m \in Mails, RecordMessage(m) PROVE Quota!Send(m)
  <2>1. outcome[m] = "new" /\ outcome' = [outcome EXCEPT ![m] = "sent"]
    BY <1>0, <1>4 DEF RecordMessage
  <2>2. Quota!Cardinality(Quota!LastHour(PairOf[m])) < QuotaLimit
    BY <1>4, LiveIsLastHour DEF RecordMessage, IInv, AdmittedFits
  <2> QED
    BY <1>4, <2>1, <2>2 DEF RecordMessage, Quota!Send, Quota!Decide
<1>5. ASSUME NEW m \in Mails, TranslationFails(m) PROVE Quota!Drop(m)
  <2>1. outcome[m] = "new" /\ outcome' = [outcome EXCEPT ![m] = "failed"]
    BY <1>0, <1>5 DEF TranslationFails
  <2> QED
    BY <1>5, <2>1 DEF TranslationFails, Quota!Drop, Quota!Decide
<1>6. ASSUME Restart PROVE Quota!Restart
  <2>1. CASE \E m \in Mails : stage[m] = "admitted"
    <3>1. PICK m \in Mails : stage[m] = "admitted"
      BY <2>1
    <3>2. \A n \in Mails : stage[n] = "admitted" => n = m
      BY <3>1 DEF IInv, OneAdmitted
    <3>3. outcome[m] = "new" /\ outcome' = [outcome EXCEPT ![m] = "failed"]
      BY <1>0, <1>6, <3>1, <3>2 DEF Restart
    <3> QED
      BY <1>6, <3>3 DEF Restart, Quota!Restart, Quota!Decide
  <2>2. CASE ~\E m \in Mails : stage[m] = "admitted"
    <3>1. outcome' = outcome
      BY <1>0, <1>6, <2>2 DEF Restart
    <3> QED
      BY <1>6, <3>1 DEF Restart, Quota!Restart
  <2> QED
    BY <2>1, <2>2
<1>7. CASE UNCHANGED vars
  <2>1. outcome' = outcome
    BY <1>7 DEF vars
  <2> QED
    BY <1>7, <2>1 DEF vars, Quota!vars
<1> QED
  BY <1>1, <1>2, <1>3, <1>4, <1>5, <1>6, <1>7 DEF Next, Quota!Next

-----------------------------------------------------------------------------
\* The inductive invariant holds in every reachable state.
THEOREM Invariant == Spec => []IInv
  BY InitIInv, NextIInv, PTL DEF Spec

\* The clock, the histories and the stages keep their types.
THEOREM TypeCorrect == Spec => []TypeOK
  BY Invariant, PTL DEF IInv

\* In no hour of one run of the daemon are more than quota_limit mails of a
\* pair of domains translated.
THEOREM QuotaHolds == Spec => []WindowQuota
  BY Invariant, PTL DEF IInv

\* A 429 is answered only when quota_limit mails of the pair were recorded in
\* the last hour.
THEOREM RefusalIsDue == Spec => RefusedOnlyWhenFull
<1> DEFINE Due == \A m \in Mails :
              (stage[m] = "new" /\ stage'[m] = "refused") =>
                  Cardinality(Window(PairOf[m], boot, now)) >= QuotaLimit
<1>1. IInv /\ [Next]_vars => [Due]_vars
  <2> SUFFICES ASSUME IInv, Next, NEW m \in Mails,
                      stage[m] = "new", stage'[m] = "refused"
               PROVE  Cardinality(Window(PairOf[m], boot, now)) >= QuotaLimit
    OBVIOUS
  <2>1. Refuse(m)
    BY DEF Next, Tick, Admit, Refuse, RecordMessage, TranslationFails, Restart, IInv, TypeOK
  <2>2. Cardinality(Live(PairOf[m])) >= QuotaLimit
    BY <2>1 DEF Refuse
  <2>3. Live(PairOf[m]) = Window(PairOf[m], boot, now)
    BY PairAssumption, LiveIsWindow
  <2> QED
    BY <2>2, <2>3
<1> QED
  BY <1>1, Invariant, PTL DEF Spec, RefusedOnlyWhenFull

\* The limiter, counting a pruned history and recording later, implements the
\* quota, which looks and sends in one step: for every limit, window length,
\* number of domains, of mails and of restarts.
THEOREM Refinement == Spec => QuotaSpec
<1>1. Init => Quota!Init
  BY DEF Init, Quota!Init
<1>2. Spec => Quota!Init /\ [][Quota!Next]_(Quota!vars)
  BY <1>1, StepRefines, Invariant, PTL DEF Spec
<1> QED
  BY <1>2 DEF QuotaSpec, Quota!Spec
=============================================================================
