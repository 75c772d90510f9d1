---------------------------- MODULE HourlyQuota ----------------------------
(***************************************************************************)
(* What the hourly quota of the MX2 daemon promises, without the history   *)
(* it counts in.  A mail between two domains is sent in one step, and only *)
(* when fewer than quota_limit mails between them were sent in the hour    *)
(* that ends there; it is refused only when that many were.  A mail whose  *)
(* translation fails is not counted.  A restart begins a new count, and    *)
(* may lose the one mail that is being translated.                         *)
(*                                                                         *)
(* RateLimiter implements this specification, although it counts a pruned  *)
(* history in one step and records the mail in a later one.                *)
(***************************************************************************)
EXTENDS Integers, FiniteSets

CONSTANTS
    Mails,
    Pairs,        \* (sender domain, recipient domain)
    PairOf,       \* [Mails -> Pairs]
    QuotaLimit,
    Hour

VARIABLES
    now,
    boot,         \* how often the count began anew
    log,          \* [Pairs -> the mails sent, each with its time and count]
    outcome       \* [Mails -> Outcomes]

vars == <<now, boot, log, outcome>>

Outcomes == {"new", "sent", "refused", "failed"}

LastHour(p) == {e \in log[p] : e.boot = boot /\ e.at > now - Hour}

Decide(m, o) ==
    /\ outcome[m] = "new"
    /\ outcome' = [outcome EXCEPT ![m] = o]

Init ==
    /\ now = 0
    /\ boot = 0
    /\ log = [p \in Pairs |-> {}]
    /\ outcome = [m \in Mails |-> "new"]

Pass ==
    /\ now' = now + 1
    /\ UNCHANGED <<boot, log, outcome>>

Send(m) ==
    /\ Cardinality(LastHour(PairOf[m])) < QuotaLimit
    /\ Decide(m, "sent")
    /\ log' = [log EXCEPT ![PairOf[m]] =
                  @ \cup {[mail |-> m, at |-> now, boot |-> boot]}]
    /\ UNCHANGED <<now, boot>>

Refuse(m) ==
    /\ Cardinality(LastHour(PairOf[m])) >= QuotaLimit
    /\ Decide(m, "refused")
    /\ UNCHANGED <<now, boot, log>>

Drop(m) ==
    /\ Decide(m, "failed")
    /\ UNCHANGED <<now, boot, log>>

Restart ==
    /\ boot' = boot + 1
    /\ UNCHANGED outcome \/ \E m \in Mails : Decide(m, "failed")
    /\ UNCHANGED <<now, log>>

Next ==
    \/ Pass
    \/ \E m \in Mails : Send(m) \/ Refuse(m) \/ Drop(m)
    \/ Restart

Spec == Init /\ [][Next]_vars
=============================================================================
