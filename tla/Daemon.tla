------------------------------- MODULE Daemon -------------------------------
(***************************************************************************)
(* The MX2 gateway daemon on the path of a mail (src/web_server.py):       *)
(* _handle_translate with the trust grades and the quota of anti_spam.py,  *)
(* and _handle_queue_approve and _handle_queue_reject, over the SQLite     *)
(* store and the in-memory quota history.                                  *)
(*                                                                         *)
(* The store is StorageEngine with one client, the limiter RateLimiter:    *)
(* HTTPServer serves one request at a time, so there is one handler and    *)
(* its requests never interleave.  What does happen between two steps of a *)
(* request is that time passes, that a call fails and ends it with a 500,  *)
(* and that the daemon is stopped and started again, which keeps the       *)
(* tables, empties the history and leaves the client without an answer.    *)
(***************************************************************************)
EXTENDS Integers, FiniteSets

CONSTANTS
    Handler,          \* the one thread of HTTPServer
    Mails, NoMail,
    Identities, Blank, SenderOf, DomainOf,
    Pairs, PairOf, QuotaLimit, Hour, MaxTime, MaxBoots,
    SignatureValid,   \* the mails posted with "signatureValid" true
    Reputable,        \* REPUTABLE_DOMAINS
    TokenOf,          \* [Mails -> Tokens]: the vouching token posted with it
    NoToken,
    KnownContacts     \* the mails whose sender their recipient knows

ASSUME StoreAssumption ==
    /\ SenderOf \in [Mails -> Identities]
    /\ DomainOf \in [Mails -> Identities]
    /\ NoMail \notin Mails

ASSUME LimiterAssumption ==
    /\ PairOf \in [Mails -> Pairs]
    /\ QuotaLimit \in Nat
    /\ Hour \in Nat
    /\ MaxTime \in Nat
    /\ MaxBoots \in Nat

\* A vouching token: whether its signature verifies under the key posted with
\* it, when it expires, and in whose name it was issued.
Tokens == [signed : BOOLEAN, expires : Int, voucher : Identities] \cup {NoToken}

ASSUME TokenAssumption == TokenOf \in [Mails -> Tokens]

VARIABLES
    queue, whitelist, frame, fate, answers,   \* of StorageEngine
    now, boot, history, sent, stage,          \* of RateLimiter
    handler,                                  \* the /api/translate in progress
    status,                                   \* what each mail's client was told
    late,                                     \* history: the mails whose token
                                              \* had expired when they came
    approved                                  \* history: the mails an operator approved

storeVars == <<queue, whitelist, frame, fate, answers>>
limiterVars == <<now, boot, history, sent, stage>>
trail == <<late, approved>>
vars == <<storeVars, limiterVars, handler, status, trail>>

Store == INSTANCE StorageEngine WITH Clients <- {Handler}
Limiter == INSTANCE RateLimiter

Grades == {"A", "B", "C", "D", "E"}
Replies == {"INBOX", "JUNK", "QUARANTINE", "429", "500"}
NoRequest == [at |-> "idle", mail |-> NoMail, grade |-> "D"]

\* No request is being served.
Free == handler = NoRequest /\ frame[Handler].at = "idle"

Init ==
    /\ Store!Init
    /\ Limiter!Init
    /\ handler = NoRequest
    /\ status = [m \in Mails |-> "none"]
    /\ late = {}
    /\ approved = {}

-----------------------------------------------------------------------------
\* Variant: only the address is looked up.
WhitelistedSender(m) == SenderOf[m] \in whitelist

\* whitelisted_senders holds the sender or its domain.
Whitelisted(m) == SenderOf[m] \in whitelist \/ DomainOf[m] \in whitelist

\* Variant: the expiry of the token is not looked at.
VouchedForEver(m) ==
    LET token == TokenOf[m] IN
    /\ token # NoToken
    /\ token.signed
    /\ token.voucher \in Reputable

\* verify_vouch_token, and the voucher's reputation.
Vouched(m) ==
    LET token == TokenOf[m] IN
    /\ token # NoToken
    /\ ~(token.expires < now)
    /\ token.signed
    /\ token.voucher \in Reputable

\* Variant: the whitelist is consulted before the signature.
GradeWhitelistFirst(m) ==
    CASE Whitelisted(m) -> "A"
      [] ~Whitelisted(m) /\ m \notin SignatureValid -> "E"
      [] OTHER -> IF DomainOf[m] \in Reputable THEN "A"
                  ELSE IF Vouched(m) THEN "B"
                  ELSE IF m \in KnownContacts THEN "C" ELSE "D"

\* evaluate_trust_grade.
Grade(m) ==
    CASE m \notin SignatureValid -> "E"
      [] m \in SignatureValid /\ (Whitelisted(m) \/ DomainOf[m] \in Reputable) -> "A"
      [] OTHER -> IF Vouched(m) THEN "B"
                  ELSE IF m \in KnownContacts THEN "C" ELSE "D"

Destination(g) == CASE g = "E" -> "QUARANTINE"
                    [] g = "D" -> "JUNK"
                    [] OTHER -> "INBOX"

Goto(step) == handler' = [handler EXCEPT !.at = step]

\* _send_json and _send_error end the request.  The client may have hung up:
\* it is told nothing, and what was done stays done.
Reply(r) ==
    /\ status' \in {status, [status EXCEPT ![handler.mail] = r]}
    /\ handler' = NoRequest

\* /api/translate: the mail is read and graded.  (A request that fails up to
\* here, with a 400 or a 500, has changed nothing.)
GradeMail(m) ==
    /\ Free
    /\ stage[m] = "new"
    /\ handler' = [at |-> "count", mail |-> m, grade |-> Grade(m)]
    /\ late' = IF TokenOf[m] # NoToken /\ TokenOf[m].expires < now
                THEN late \cup {m} ELSE late
    /\ UNCHANGED <<storeVars, limiterVars, status, approved>>

\* The hourly count is below the quota.
CountAdmits ==
    /\ handler.at = "count"
    /\ Limiter!Admit(handler.mail)
    /\ Goto("translate")
    /\ UNCHANGED <<storeVars, status, trail>>

\* ERR_RATE_LIMIT_EXCEEDED.
CountRefuses ==
    /\ handler.at = "count"
    /\ Limiter!Refuse(handler.mail)
    /\ Reply("429")
    /\ UNCHANGED <<storeVars, trail>>

\* Variant: the mail is not recorded.
TranslateUncharged ==
    /\ handler.at = "translate"
    /\ stage' = [stage EXCEPT ![handler.mail] = "sent"]
    /\ Goto(IF handler.grade = "E" THEN "quarantine" ELSE "reply")
    /\ UNCHANGED <<storeVars, now, boot, history, sent, status, trail>>

\* translate_smtp_to_mx2 returns an envelope and the mail is recorded.
Translate ==
    /\ handler.at = "translate"
    /\ Limiter!RecordMessage(handler.mail)
    /\ Goto(IF handler.grade = "E" THEN "quarantine" ELSE "reply")
    /\ UNCHANGED <<storeVars, status, trail>>

\* ERR_TRANSLATION_FAILED.
TranslationFails ==
    /\ handler.at = "translate"
    /\ Limiter!TranslationFails(handler.mail)
    /\ Reply("500")
    /\ UNCHANGED <<storeVars, trail>>

\* A Grade E mail is stored before its client is told so.
Quarantine ==
    /\ handler.at = "quarantine"
    /\ Store!QuarantineMessage(Handler, handler.mail)
    /\ Goto("reply")
    /\ UNCHANGED <<limiterVars, status, trail>>

\* Variant: the failure is logged and the mail answered all the same.
QuarantineFailsSilently ==
    /\ handler.at = "quarantine"
    /\ Goto("reply")
    /\ UNCHANGED <<storeVars, limiterVars, status, trail>>

\* sqlite3 raises in quarantine_message: the client gets a 500 for a mail that
\* is charged to the quota.
QuarantineFails ==
    /\ handler.at = "quarantine"
    /\ Reply("500")
    /\ UNCHANGED <<storeVars, limiterVars, trail>>

\* Variant: the grade is sent as the status.
SendGrade ==
    /\ handler.at = "reply"
    /\ Reply(handler.grade)
    /\ UNCHANGED <<storeVars, limiterVars, trail>>

SendReply ==
    /\ handler.at = "reply"
    /\ Reply(Destination(handler.grade))
    /\ UNCHANGED <<storeVars, limiterVars, trail>>

\* /api/queue/approve of a message in the queue, one statement after the other.
ApproveSelect(m) ==
    /\ Free
    /\ Store!SelectQuarantined(Handler, m)
    /\ approved' = approved \cup {m}
    /\ UNCHANGED <<limiterVars, handler, status, late>>

\* Variant: the DELETE of an approval is not committed.
ApproveUncommitted ==
    /\ \/ Store!AddDomain(Handler)
       \/ Store!AddSender(Handler)
       \/ Store!Return(Handler)
       \/ /\ frame[Handler].at = "delete"
          /\ Store!Goto(Handler, "return", frame[Handler].mail, "approved")
          /\ fate' = [fate EXCEPT ![frame[Handler].mail] = "released"]
          /\ UNCHANGED <<queue, whitelist, answers>>
    /\ UNCHANGED <<limiterVars, handler, status, trail>>

ApproveStep ==
    /\ Store!ApproveStep(Handler)
    /\ UNCHANGED <<limiterVars, handler, status, trail>>

\* ERR_QUEUE_APPROVE_FAILED, ERR_QUEUE_REJECT_FAILED.
QueueCallFails ==
    /\ Store!Abort(Handler)
    /\ UNCHANGED <<limiterVars, handler, status, trail>>

\* /api/queue/reject.
RejectMail(m) ==
    /\ Free
    /\ Store!RejectQuarantined(Handler, m)
    /\ UNCHANGED <<limiterVars, handler, status, trail>>

Tick ==
    /\ Limiter!Tick
    /\ UNCHANGED <<storeVars, handler, status, trail>>

\* Variant: the whitelist is lost with the process.
RestartForgetsTrust ==
    /\ Limiter!Restart
    /\ handler' = NoRequest
    /\ frame' = [c \in {Handler} |-> Store!Idle]
    /\ whitelist' = {}
    /\ UNCHANGED <<queue, fate, answers, status, trail>>

\* Variant: the quota history is carried over.
RestartKeepsHistory ==
    /\ boot < MaxBoots
    /\ boot' = boot + 1
    /\ stage' = [m \in Mails |-> IF stage[m] = "admitted" THEN "failed" ELSE stage[m]]
    /\ handler' = NoRequest
    /\ frame' = [c \in {Handler} |-> Store!Idle]
    /\ UNCHANGED <<queue, whitelist, fate, answers, status, now, history, sent, trail>>

\* The container is restarted ("restart: unless-stopped").
Restart ==
    /\ Limiter!Restart
    /\ handler' = NoRequest
    /\ frame' = [c \in {Handler} |-> Store!Idle]
    /\ UNCHANGED <<queue, whitelist, fate, answers, status, trail>>

TranslateStep ==
    \/ CountAdmits
    \/ CountRefuses
    \/ Translate
    \/ TranslationFails
    \/ Quarantine
    \/ QuarantineFails
    \/ SendReply

Next ==
    \/ \E m \in Mails :
          \/ GradeMail(m)
          \/ ApproveSelect(m)
          \/ RejectMail(m)
    \/ TranslateStep
    \/ ApproveStep
    \/ QueueCallFails
    \/ Tick
    \/ Restart

Spec == Init /\ [][Next]_vars

-----------------------------------------------------------------------------
TypeOK ==
    /\ handler \in [at : {"idle", "count", "translate", "quarantine", "reply"},
                    mail : Mails \cup {NoMail}, grade : Grades]
    /\ status \in [Mails -> Replies \cup {"none"}]
    /\ late \cup approved \subseteq Mails
    /\ Store!TypeOK
    /\ Limiter!TypeOK

\* A mail whose client was told QUARANTINE is in the queue, or an operator
\* decided on it: no failure and no restart between the reply and the decision
\* loses it (_handle_translate stores the mail before it answers).
QuarantinedIsKept ==
    \A m \in Mails :
        status[m] = "QUARANTINE" =>
            m \in queue \/ fate[m] \in {"released", "discarded"}

\* The queue holds only mail that failed its signature check and was charged
\* to the quota, and such mail is never answered INBOX or JUNK, whatever the
\* whitelist says of its sender.
SpoofedIsQuarantined ==
    \A m \in Mails :
        /\ fate[m] # "new" => m \notin SignatureValid /\ stage[m] = "sent"
        /\ status[m] \in {"INBOX", "JUNK"} => m \in SignatureValid

\* After a mail was released, signed mail of its sender or its domain is never
\* answered JUNK again, not even after a restart: the approval is durable, and
\* it precedes the grading of every mail that is answered after it.
ApprovedSenderNotJunked ==
    [][\A m, r \in Mails :
          (status[m] # "JUNK" /\ status'[m] = "JUNK" /\ fate[r] = "released") =>
              Store!IdentitiesOf[r] \cap {SenderOf[m], DomainOf[m]} = {}]_vars

\* A voucher of good reputation signed the token that m came with, and m came
\* before the token expired.
VouchedOnArrival(m) ==
    /\ TokenOf[m] # NoToken
    /\ TokenOf[m].signed
    /\ TokenOf[m].voucher \in Reputable
    /\ m \notin late

\* Somebody speaks for m: its domain is reputable, a voucher or a contact does,
\* or an operator set out to approve a mail of the same sender or domain.
SpokenFor(m) ==
    \/ DomainOf[m] \in Reputable
    \/ VouchedOnArrival(m)
    \/ m \in KnownContacts
    \/ \E r \in approved : Store!IdentitiesOf[r] \cap {SenderOf[m], DomainOf[m]} # {}

\* A mail is answered INBOX only if somebody speaks for it: not because mail of
\* its sender was held or rejected, nor on a token that is unsigned, not of a
\* reputable voucher or expired when the mail came, however late the answer is.
\* Approving a mail with an empty From: speaks for nobody.
InboxIsJustified == \A m \in Mails : status[m] = "INBOX" => SpokenFor(m)

\* What the mail was charged to its pair.
Charges(m) == {e \in sent[PairOf[m]] : e.mail = m}

\* A mail that is answered with an envelope was charged to its pair's quota
\* once; a refused one was not, and got no envelope.
AnsweredIsCharged ==
    \A m \in Mails :
        /\ status[m] \in {"INBOX", "JUNK", "QUARANTINE"} => Cardinality(Charges(m)) = 1
        /\ status[m] = "429" => Charges(m) = {} /\ m \notin queue

\* One handler serves every request, so the race of two calls that the store
\* allows does not happen: whoever is told "released" is the only one.
OneRelease == Store!OneRelease

\* The daemon drives the store and the limiter as they are specified.
StoreSpec == Store!Spec
LimiterSpec == Limiter!Spec
=============================================================================
