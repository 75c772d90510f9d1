---------------------------- MODULE RateLimiter ----------------------------
(***************************************************************************)
(* The hourly quota per (sender domain, recipient domain) pair:            *)
(* MX2AntiSpamEngine.quota_history, get_hourly_count and record_message    *)
(* (src/anti_spam.py), used by _handle_translate (src/web_server.py).      *)
(*                                                                         *)
(* The handler asks for the count, refuses the mail with 429 or translates *)
(* it, and records it only when the translation has succeeded; time passes *)
(* in between.  The handler serves one request at a time.  The history is  *)
(* in memory: a restart of the daemon empties it.  time.time() is taken to *)
(* run forward; its value is a whole number of ticks, Hour of them to the  *)
(* 3600 seconds of the window.                                             *)
(*                                                                         *)
(* get_hourly_count prunes what it will never count again, so what the     *)
(* quota bounds is stated about a log that is never pruned.                *)
(***************************************************************************)
EXTENDS Integers, FiniteSets

CONSTANTS
    Mails,        \* requests to /api/translate, each decided once
    Pairs,        \* (sender domain, recipient domain), stripped, lower-cased
    PairOf,       \* [Mails -> Pairs]
    QuotaLimit,   \* quota_limit of MX2AntiSpamEngine, 100 in the daemon
    Hour,         \* 3600 seconds, in ticks
    MaxTime,      \* bound on the clock
    MaxBoots      \* bound on the restarts of the daemon

ASSUME PairAssumption == PairOf \in [Mails -> Pairs]

ASSUME LimitAssumption ==
    /\ QuotaLimit \in Nat
    /\ Hour \in Nat
    /\ MaxTime \in Nat
    /\ MaxBoots \in Nat

VARIABLES
    now,          \* time.time()
    boot,         \* how often the daemon was restarted
    history,      \* quota_history: [Pairs -> sets of entries], pruned
    sent,         \* every entry ever recorded: [Pairs -> sets of entries]
    stage         \* how far the request of each mail came

vars == <<now, boot, history, sent, stage>>

Stages == {"new", "admitted", "sent", "refused", "failed"}

\* record_message appends a timestamp; mail and boot tell entries apart.
Entries == [mail : Mails, at : 0..MaxTime, boot : 0..MaxBoots]

Busy == \E m \in Mails : stage[m] = "admitted"

\* Variant: old timestamps are counted with the others.
LiveForEver(p) == history[p]

\* What get_hourly_count keeps, and counts, of a pair's history.
Live(p) == {e \in history[p] : e.at > now - Hour}

Prune(p) == history' = [history EXCEPT ![p] = Live(p)]

Init ==
    /\ now = 0
    /\ boot = 0
    /\ history = [p \in Pairs |-> {}]
    /\ sent = [p \in Pairs |-> {}]
    /\ stage = [m \in Mails |-> "new"]

-----------------------------------------------------------------------------
Tick ==
    /\ now < MaxTime
    /\ now' = now + 1
    /\ UNCHANGED <<boot, history, sent, stage>>

\* Variant: the limit itself still admits.
AdmitAtLimit(m) ==
    /\ ~Busy
    /\ stage[m] = "new"
    /\ Cardinality(Live(PairOf[m])) <= QuotaLimit
    /\ Prune(PairOf[m])
    /\ stage' = [stage EXCEPT ![m] = "admitted"]
    /\ UNCHANGED <<now, boot, sent>>

\* Variant: requests are served concurrently, each counting for itself.
AdmitAlongside(m) ==
    /\ stage[m] = "new"
    /\ Cardinality(Live(PairOf[m])) < QuotaLimit
    /\ Prune(PairOf[m])
    /\ stage' = [stage EXCEPT ![m] = "admitted"]
    /\ UNCHANGED <<now, boot, sent>>

\* get_hourly_count is below the limit: the request goes on to translation.
Admit(m) ==
    /\ ~Busy
    /\ stage[m] = "new"
    /\ Cardinality(Live(PairOf[m])) < QuotaLimit
    /\ Prune(PairOf[m])
    /\ stage' = [stage EXCEPT ![m] = "admitted"]
    /\ UNCHANGED <<now, boot, sent>>

\* ERR_RATE_LIMIT_EXCEEDED.
Refuse(m) ==
    /\ ~Busy
    /\ stage[m] = "new"
    /\ Cardinality(Live(PairOf[m])) >= QuotaLimit
    /\ Prune(PairOf[m])
    /\ stage' = [stage EXCEPT ![m] = "refused"]
    /\ UNCHANGED <<now, boot, sent>>

\* Variant: the time at which the entry expires is recorded.
RecordExpiry(m) ==
    LET p == PairOf[m]
        entry == [mail |-> m, at |-> now + Hour, boot |-> boot]
    IN  /\ stage[m] = "admitted"
        /\ history' = [history EXCEPT ![p] = @ \cup {entry}]
        /\ sent' = [sent EXCEPT ![p] = @ \cup {entry}]
        /\ stage' = [stage EXCEPT ![m] = "sent"]
        /\ UNCHANGED <<now, boot>>

\* record_message, after the translation.
RecordMessage(m) ==
    LET p == PairOf[m]
        entry == [mail |-> m, at |-> now, boot |-> boot]
    IN  /\ stage[m] = "admitted"
        /\ history' = [history EXCEPT ![p] = @ \cup {entry}]
        /\ sent' = [sent EXCEPT ![p] = @ \cup {entry}]
        /\ stage' = [stage EXCEPT ![m] = "sent"]
        /\ UNCHANGED <<now, boot>>

\* The translation raises: the request ends in a 500 and nothing is recorded.
TranslationFails(m) ==
    /\ stage[m] = "admitted"
    /\ stage' = [stage EXCEPT ![m] = "failed"]
    /\ UNCHANGED <<now, boot, history, sent>>

\* The daemon stops, in a request or not, and is started again.
Restart ==
    /\ boot < MaxBoots
    /\ boot' = boot + 1
    /\ history' = [p \in Pairs |-> {}]
    /\ stage' = [m \in Mails |-> IF stage[m] = "admitted" THEN "failed" ELSE stage[m]]
    /\ UNCHANGED <<now, sent>>

Next ==
    \/ Tick
    \/ \E m \in Mails :
          \/ Admit(m)
          \/ Refuse(m)
          \/ RecordMessage(m)
          \/ TranslationFails(m)
    \/ Restart

Spec == Init /\ [][Next]_vars

-----------------------------------------------------------------------------
\* The entries of boot b and pair p in the hour that ends at t.
Window(p, b, t) ==
    {e \in sent[p] : e.boot = b /\ t - Hour < e.at /\ e.at <= t}

TypeOK ==
    /\ now \in 0..MaxTime
    /\ boot \in 0..MaxBoots
    /\ history \in [Pairs -> SUBSET Entries]
    /\ sent \in [Pairs -> SUBSET Entries]
    /\ stage \in [Mails -> Stages]

\* In every hour of one run of the daemon, not only the one that ends now, a
\* sender domain gets at most quota_limit mails to a recipient domain
\* translated, although counting and recording are apart in _handle_translate
\* and the history is pruned as it is counted.  (A restart forgets the count.)
WindowQuota ==
    \A p \in Pairs, b \in 0..MaxBoots, t \in 0..MaxTime :
        Cardinality(Window(p, b, t)) <= QuotaLimit

\* A mail is refused with 429 only if quota_limit mails of its pair really were
\* recorded in the last hour of this run of the daemon: nothing pruned, no
\* failed translation and no other pair counts against it.
RefusedOnlyWhenFull ==
    [][\A m \in Mails :
          (stage[m] = "new" /\ stage'[m] = "refused") =>
              Cardinality(Window(PairOf[m], boot, now)) >= QuotaLimit]_vars

\* Counting, translating and recording, apart as they are in _handle_translate,
\* are to their callers one step that sends a mail when there is room for it at
\* the moment it is sent: a mail that is being translated is not decided yet.
Quota == INSTANCE HourlyQuota WITH
             log <- sent,
             outcome <- [m \in Mails |->
                            IF stage[m] = "admitted" THEN "new" ELSE stage[m]]

QuotaSpec == Quota!Spec
=============================================================================
