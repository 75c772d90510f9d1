--------------------------- MODULE StorageEngine ---------------------------
(***************************************************************************)
(* MX2StorageEngine (src/storage.py): the SQLite tables quarantine_queue   *)
(* and whitelists and the operations on them.                              *)
(*                                                                         *)
(* Every call opens connections of its own and nothing is locked across    *)
(* two statements, so the unit of atomicity is one commit.                 *)
(* quarantine_message and reject_quarantined_sender are one commit each.   *)
(* approve_quarantined_sender is a SELECT and three commits, on three      *)
(* connections: the domain, the sender, the DELETE.  Between two of them   *)
(* another caller may run, and the call may die ("database is locked", a   *)
(* full disk, the process killed), which leaves what was committed.        *)
(*                                                                         *)
(* A mail stands for its row and for its message id.  The id is the first  *)
(* 12 characters of an AES-GCM ciphertext under a fresh ephemeral key      *)
(* (web_server.py, gateway.py), 72 random bits, so two mails are taken to  *)
(* have different ids and INSERT OR REPLACE never replaces.                *)
(***************************************************************************)
EXTENDS Naturals

CONSTANTS
    Clients,      \* callers of the engine: request handlers or threads
    Mails,        \* the Grade E mails, and so the message ids
    Identities,   \* addresses and domains, stripped and lower-cased
    Blank,        \* the empty identity: what an empty From: header gives
    SenderOf,     \* [Mails -> Identities]
    DomainOf,     \* [Mails -> Identities]
    NoMail

ASSUME IdentityAssumption ==
    /\ SenderOf \in [Mails -> Identities]
    /\ DomainOf \in [Mails -> Identities]

ASSUME NoMailAssumption == NoMail \notin Mails

VARIABLES
    queue,        \* the rows of quarantine_queue, as mails
    whitelist,    \* the rows of whitelists
    frame,        \* where each client's call stands
    fate,         \* history: what became of each mail
    answers       \* history: how often each verdict on a mail was returned

vars == <<queue, whitelist, frame, fate, answers>>

Fates == {"new", "held", "released", "discarded"}
Verdicts == {"approved", "rejected"}

\* A call in progress: the statement it is about to run, the row it read and
\* the value it will return.  A caller outside a call is Idle.
Frames == [at : {"idle", "domain", "sender", "delete", "return"},
           mail : Mails \cup {NoMail},
           verdict : Verdicts \cup {"none"}]

Idle == [at |-> "idle", mail |-> NoMail, verdict |-> "none"]

Goto(c, step, m, v) ==
    frame' = [frame EXCEPT ![c] = [at |-> step, mail |-> m, verdict |-> v]]

\* The identities an approval of m makes trusted.
IdentitiesOf == [m \in Mails |-> {SenderOf[m], DomainOf[m]} \ {Blank}]

Init ==
    /\ queue = {}
    /\ whitelist = {}
    /\ frame = [c \in Clients |-> Idle]
    /\ fate = [m \in Mails |-> "new"]
    /\ answers = [m \in Mails |-> [v \in Verdicts |-> 0]]

-----------------------------------------------------------------------------
\* quarantine_message: one INSERT OR REPLACE and its commit.
QuarantineMessage(c, m) ==
    /\ frame[c] = Idle
    /\ fate[m] = "new"
    /\ queue' = queue \cup {m}
    /\ fate' = [fate EXCEPT ![m] = "held"]
    /\ UNCHANGED <<whitelist, frame, answers>>

\* Variant: the empty identity is stored like any other.
AddWhitelistBlank(i) == whitelist' = whitelist \cup {i}

\* add_whitelist of one identity, its own connection and commit; the empty
\* identity is ignored.
AddWhitelist(i) == whitelist' = whitelist \cup ({i} \ {Blank})

\* approve_quarantined_sender: the SELECT.  A missing row ends the call with
\* nothing changed.
SelectQuarantined(c, m) ==
    /\ frame[c] = Idle
    /\ m \in queue
    /\ Goto(c, "domain", m, "none")
    /\ UNCHANGED <<queue, whitelist, fate, answers>>

\* Variant: the sender itself is not whitelisted.
AddDomainOnly(c) ==
    /\ frame[c].at = "domain"
    /\ AddWhitelist(DomainOf[frame[c].mail])
    /\ Goto(c, "delete", frame[c].mail, "none")
    /\ UNCHANGED <<queue, fate, answers>>

AddDomain(c) ==
    /\ frame[c].at = "domain"
    /\ AddWhitelist(DomainOf[frame[c].mail])
    /\ Goto(c, "sender", frame[c].mail, "none")
    /\ UNCHANGED <<queue, fate, answers>>

AddSender(c) ==
    /\ frame[c].at = "sender"
    /\ AddWhitelist(SenderOf[frame[c].mail])
    /\ Goto(c, "delete", frame[c].mail, "none")
    /\ UNCHANGED <<queue, fate, answers>>

\* Variant: the DELETE selects by sender instead of by message id.
DeleteBySender(c) ==
    LET m == frame[c].mail
        rows == {x \in queue : SenderOf[x] = SenderOf[m]}
    IN  /\ frame[c].at = "delete"
        /\ queue' = queue \ rows
        /\ fate' = [x \in Mails |-> IF x \in rows THEN "released" ELSE fate[x]]
        /\ Goto(c, "return", m, "approved")
        /\ UNCHANGED <<whitelist, answers>>

\* The DELETE and its commit.  The row count is not looked at: the call goes
\* on to return True whether or not the row was still there.
DeleteApproved(c) ==
    LET m == frame[c].mail IN
    /\ frame[c].at = "delete"
    /\ queue' = queue \ {m}
    /\ fate' = [fate EXCEPT ![m] = IF m \in queue THEN "released" ELSE @]
    /\ Goto(c, "return", m, "approved")
    /\ UNCHANGED <<whitelist, answers>>

\* Variant: the DELETE of a rejection is not committed.
RejectUncommitted(c, m) ==
    /\ frame[c] = Idle
    /\ m \in queue
    /\ fate' = [fate EXCEPT ![m] = "discarded"]
    /\ Goto(c, "return", m, "rejected")
    /\ UNCHANGED <<queue, whitelist, answers>>

\* Variant: a rejection returns True whatever the DELETE found.
RejectUnconditionally(c, m) ==
    /\ frame[c] = Idle
    /\ fate[m] # "new"
    /\ queue' = queue \ {m}
    /\ fate' = [fate EXCEPT ![m] = IF m \in queue THEN "discarded" ELSE @]
    /\ Goto(c, "return", m, "rejected")
    /\ UNCHANGED <<whitelist, answers>>

\* reject_quarantined_sender: DELETE, rowcount > 0, commit.  A call that
\* deleted nothing returns False.
RejectQuarantined(c, m) ==
    LET deleted == m \in queue IN
    /\ frame[c] = Idle
    /\ fate[m] # "new"
    /\ queue' = queue \ {m}
    /\ fate' = [fate EXCEPT ![m] = IF deleted THEN "discarded" ELSE @]
    /\ IF deleted THEN Goto(c, "return", m, "rejected") ELSE UNCHANGED frame
    /\ UNCHANGED <<whitelist, answers>>

\* The caller gets its True.
Return(c) ==
    /\ frame[c].at = "return"
    /\ answers' = [answers EXCEPT ![frame[c].mail][frame[c].verdict] = @ + 1]
    /\ frame' = [frame EXCEPT ![c] = Idle]
    /\ UNCHANGED <<queue, whitelist, fate>>

\* The call dies between two commits, or after its last one: an exception of
\* sqlite3, or the end of the process.  There is no compensation.
Abort(c) ==
    /\ frame[c].at # "idle"
    /\ frame' = [frame EXCEPT ![c] = Idle]
    /\ UNCHANGED <<queue, whitelist, fate, answers>>

ApproveStep(c) ==
    \/ AddDomain(c)
    \/ AddSender(c)
    \/ DeleteApproved(c)
    \/ Return(c)

Next ==
    \E c \in Clients :
        \/ \E m \in Mails :
              \/ QuarantineMessage(c, m)
              \/ SelectQuarantined(c, m)
              \/ RejectQuarantined(c, m)
        \/ ApproveStep(c)
        \/ Abort(c)

Spec == Init /\ [][Next]_vars

-----------------------------------------------------------------------------
TypeOK ==
    /\ queue \subseteq Mails
    /\ whitelist \subseteq Identities \ {Blank}
    /\ frame \in [Clients -> Frames]
    /\ fate \in [Mails -> Fates]
    /\ answers \in [Mails -> [Verdicts -> Nat]]

\* A mail is in the table exactly while nobody decided on it: no crash between
\* the commits of an approval (storage.py, approve_quarantined_sender), and no
\* race of two calls, makes a held mail vanish or an answered one come back.
HeldIsQueued == \A m \in Mails : fate[m] = "held" <=> m \in queue

\* A mail leaves the queue by approval only after its domain and its sender
\* are both durable in whitelists, whoever else was approving or rejecting and
\* whichever earlier approval of it died half way.
ReleasedIsTrusted ==
    \A m \in Mails : fate[m] = "released" => IdentitiesOf[m] \subseteq whitelist

\* "Discarded" is answered at most once, and only for a mail that was
\* discarded: the rowcount of reject_quarantined_sender makes the answer true.
OneRejection ==
    \A m \in Mails :
        /\ answers[m]["rejected"] <= 1
        /\ answers[m]["rejected"] > 0 => fate[m] = "discarded"

\* A caller that is told "released" was told what became of the mail: nobody
\* discarded it, and nobody else was given it.
OneRelease ==
    \A m \in Mails :
        /\ answers[m]["approved"] <= 1
        /\ answers[m]["approved"] > 0 => fate[m] = "released"

\* Approval is atomic: while no call is in progress, an identity is trusted
\* only if a mail sent under it was released.
ApprovalIsAtomic ==
    (\A c \in Clients : frame[c] = Idle) =>
        \A i \in whitelist :
            \E m \in Mails : fate[m] = "released" /\ i \in IdentitiesOf[m]

\* The engine implements the quarantine's promise, its whitelist table being
\* the set of trusted identities.
Quarantine == INSTANCE QuarantineQueue WITH trusted <- whitelist
QuarantineSpec == Quarantine!Spec
=============================================================================
