------------------------------ MODULE Envelope ------------------------------
(***************************************************************************)
(* Who can open a mail, under whose name it is graded and sealed, and what *)
(* of it is sealed: the bilingual gateway (src/gateway.py) with the        *)
(* handlers translate and decrypt (src/web_server.py) and the SMTP proxy   *)
(* that posts to it (src/legacy_proxy.py).                                 *)
(*                                                                         *)
(* Cryptography is symbolic.  A key string is who it belongs to and how it *)
(* is written; parsing makes a key of every string, a digest of the string *)
(* if of nothing else, and an envelope opens for the private key whose     *)
(* public key it was sealed to.  Users write mails to each other, open     *)
(* what they can and forward what they have opened, as mail programs do:   *)
(* with the From: and To: lines of the original in the body.               *)
(***************************************************************************)
EXTENDS Integers, Sequences

CONSTANTS
    Users,
    Name,           \* [Users -> Names]: what they write in From: and To:
    Published,      \* [Users -> KeyStrings]: the key others post for them
    MockKey,        \* "MCowBQYDK2VwAyEAdS+7fGZ8A1839gBbcD81hS9bV2g327"
    MockPrivate,    \* "mock-private-key-12345"
    NoKey,          \* ""
    Lists,          \* the recipient lists that a new mail may have
    Bodies,         \* the sequences of parts that mails are made of
    NewLimit,       \* bound on the new mails: none is written after as many mails
    MailLimit       \* bound on the mails, new or forwarded

\* Key strings: 32 bytes of an X25519 or an Ed25519 key in hex or base64, the
\* DER of one, a private seed, a mail address where a key is meant.
SealStrings == [form : {"x25519", "x25519Der"}, of : Users]
VerifyStrings == [form : {"ed25519", "ed25519Der"}, of : Users]
Addresses == [form : {"address"}, of : Users]
Seeds == [form : {"seed"}, of : Users]
KeyStrings == SealStrings \cup VerifyStrings \cup Addresses \cup {MockKey, NoKey}

\* An address, or "did:mx2:" before a key string.  Parsing a key drops that.
Names == [scheme : {"address"}, key : Addresses]
         \cup [scheme : {"did"}, key : KeyStrings \ (Addresses \cup {NoKey})]

\* What a part has, decoded as UTF-8: its first 500 characters, characters after
\* those, and bytes that are not UTF-8.  An empty part has none of them.
Pieces == {"start", "rest", "foreign"}

Parts == [type : {"text", "html", "other"}, disposition : {"none", "inline", "attachment"},
          content : {c \in SUBSET Pieces : "rest" \in c => "start" \in c}]

ASSUME NameAssumption ==
    /\ Name \in [Users -> Names]
    /\ Published \in [Users -> KeyStrings]
    /\ Lists \subseteq Seq(Users) \ {<<>>}
    /\ Bodies \subseteq Seq(Parts)
    /\ NewLimit \in Nat /\ MailLimit \in Nat

\* Users give out keys of their own, under a name of their own.
ASSUME OwnKeyAssumption ==
    /\ \A u \in Users : \A k \in {Name[u].key, Published[u]} \cap SealStrings : k.of = u
    /\ \A u, v \in Users : Name[u] = Name[v] => u = v

ASSUME StringAssumption ==
    /\ {MockKey, NoKey} \cap (SealStrings \cup VerifyStrings \cup Addresses \cup Seeds) = {}
    /\ MockPrivate \notin Seeds
    /\ MockPrivate # MockKey
    /\ NoKey # MockKey

VARIABLES
    mails,      \* what was posted: the mails, in order
    envelopes,  \* what /api/translate answered to each
    readers     \* [Users -> the mails it has opened]

vars == <<mails, envelopes, readers>>

-----------------------------------------------------------------------------
\* parse_x25519_private_key: the key is its owner's, or that of a digest.
PrivateKeyOf(s) == IF s \in Seeds THEN [holder |-> s.of] ELSE [digest |-> s]

\* Variant: the DER form is not parsed.
PublicKeyOfRaw(k) ==
    CASE k = MockKey -> PrivateKeyOf(MockPrivate)
      [] k \in SealStrings /\ k.form = "x25519" -> [holder |-> k.of]
      [] OTHER -> [point |-> k]

\* parse_x25519_public_key: what is no X25519 key is hashed to a point that has
\* no known private key.
PublicKeyOf(k) ==
    CASE k = MockKey -> PrivateKeyOf(MockPrivate)
      [] k \in SealStrings -> [holder |-> k.of]
      [] OTHER -> [point |-> k]

-----------------------------------------------------------------------------
\* A mail is its From: lines and its To: lines, the header's before those that
\* its body quotes; a To: line is a list of names.

\* The recipient_domain of a To: line, which is one string: what follows its last
\* "@", or all of it.  An address stands for its domain.
Charged(line) ==
    LET addresses == {i \in DOMAIN line : line[i].scheme = "address"}
    IN  IF addresses = {} THEN line
        ELSE SubSeq(line, CHOOSE i \in addresses : \A j \in addresses : j <= i, Len(line))

\* What evaluate_trust_grade and the quota are given: the last lines of the text.
Graded(mail) ==
    LET line == mail.to[Len(mail.to)]
    IN  [sender |-> mail.from[Len(mail.from)], contact |-> line, charged |-> Charged(line)]

\* The first name of each To: line.
Leads(mail) == [i \in DOMAIN mail.to |-> Head(mail.to[i])]

DidsIn(names) == {i \in DOMAIN names : names[i].scheme = "did"}

\* The header's name, unless a line of the mail has a DID: then the first DID.
FirstDidOrHeader(names) ==
    IF DidsIn(names) = {} THEN Head(names)
    ELSE names[CHOOSE i \in DidsIn(names) : \A j \in DidsIn(names) : i <= j]

\* Variant: a DID is searched for in the From: lines too.
RecipientOfAnyLine(mail) == FirstDidOrHeader(Leads(mail) \o mail.from)

Recipient(mail) == FirstDidOrHeader(Leads(mail))

\* Variant: a DID is parsed with its scheme.
SealKeyWithScheme(mail) ==
    CASE Recipient(mail).scheme = "did" -> Recipient(mail)
      [] Recipient(mail).scheme = "address" /\ mail.key # NoKey -> mail.key
      [] OTHER -> MockKey

\* The key that the mail is sealed to: the DID's, the posted one, the mock key.
SealKey(mail) ==
    CASE Recipient(mail).scheme = "did" -> Recipient(mail).key
      [] Recipient(mail).scheme = "address" /\ mail.key # NoKey -> mail.key
      [] OTHER -> MockKey

\* Variant: an empty part is kept.
IsTextEvenEmpty(body, part) ==
    /\ part.type = "text"
    /\ part.disposition = "none" \/ (Len(body) = 1 /\ part.disposition = "inline")

\* A message with one part keeps it as text unless it is an attachment; one with
\* several keeps what has no disposition.  No empty part is kept.
IsText(body, part) ==
    /\ part.type = "text"
    /\ part.disposition = "none" \/ (Len(body) = 1 /\ part.disposition = "inline")
    /\ part.content # {}

TextAt(body) == {j \in DOMAIN body : IsText(body, body[j])}

HtmlAt(body) == {j \in DOMAIN body : body[j].type = "html" /\ body[j].content # {}}

AttachedAt(body) == {j \in DOMAIN body : body[j].disposition = "attachment"}

\* The list that the walk over the parts leaves, which appends those at the
\* positions I.
Collect(body, I) ==
    LET upto[n \in 0..Len(body)] ==
          IF n = 0 THEN <<>>
          ELSE IF n \in I THEN Append(upto[n - 1], body[n]) ELSE upto[n - 1]
    IN  upto[Len(body)]

\* Text as it decodes; of HTML the first 500 characters, marked as stripped.
BlockOf(part) ==
    IF part.type = "html"
    THEN [stripped |-> TRUE, content |-> part.content \ {"rest", "foreign"}]
    ELSE [stripped |-> FALSE, content |-> part.content \ {"foreign"}]

\* The text parts, or all HTML parts if there are none.
Blocks(body) ==
    LET kept == Collect(body, IF TextAt(body) # {} THEN TextAt(body) ELSE HtmlAt(body))
    IN  [k \in DOMAIN kept |-> BlockOf(kept[k])]

Attachments(body) == Collect(body, AttachedAt(body))

\* Variant: the list of recipients is the resolved one.
SealRecipientOnly(mail) ==
    [recipient |-> Recipient(mail), sealedTo |-> PublicKeyOf(SealKey(mail)),
     sender |-> FirstDidOrHeader(mail.from), recipients |-> <<Recipient(mail)>>,
     blocks |-> Blocks(mail.body), attachments |-> Attachments(mail.body)]

\* translate_smtp_to_mx2.
Seal(mail) ==
    [recipient |-> Recipient(mail), sealedTo |-> PublicKeyOf(SealKey(mail)),
     sender |-> FirstDidOrHeader(mail.from),
     recipients |-> Head(mail.to),
     blocks |-> Blocks(mail.body), attachments |-> Attachments(mail.body)]

\* decrypt_payload returns rather than raises.
Opens(s, envelope) == PrivateKeyOf(s) = envelope.sealedTo

-----------------------------------------------------------------------------
Init ==
    /\ mails = <<>>
    /\ envelopes = <<>>
    /\ readers = [u \in Users |-> {}]

\* The lines that u writes in a new mail, and in one that forwards a mail u has
\* opened: the sender and recipients it found inside, then what the body quotes.
\* The origin is the mail that was first written, to tell what a forward goes by.
Fresh(u) ==
    {[origin |-> Len(mails) + 1, from |-> <<Name[u]>>,
      to |-> <<[i \in DOMAIN list |-> Name[list[i]]]>>] :
       list \in {l \in Lists : Len(mails) < NewLimit}}

Forward(u, i, r) ==
    [origin |-> mails[i].origin,
     from |-> <<Name[u], envelopes[i].sender>> \o Tail(mails[i].from),
     to |-> <<<<Name[r]>>, envelopes[i].recipients>> \o Tail(mails[i].to)]

Forwards(u) == {Forward(u, i, r) : i \in readers[u], r \in Users}

\* A body that lines can be quoted in, for its next reader to quote them again.
Quotes(body) == \E j \in TextAt(body) : "start" \in body[j].content

\* _handle_translate is posted the mail with these lines, body and publicKey.
Translate(u, lines, body, key) ==
    LET mail == [by |-> u, origin |-> lines.origin, from |-> lines.from, to |-> lines.to,
                 body |-> body, key |-> key]
    IN  /\ Len(lines.from) > 1 => Quotes(body)
        /\ mails' = Append(mails, mail)
        /\ envelopes' = Append(envelopes, Seal(mail))
        /\ UNCHANGED readers

\* A client posts the key of the first recipient it writes to, or none.
Post(u) ==
    /\ Len(mails) < MailLimit
    /\ \E lines \in Fresh(u) \cup Forwards(u), body \in Bodies, r \in Users :
          /\ Name[r] = lines.to[1][1]
          /\ \E key \in {Published[r], NoKey} : Translate(u, lines, body, key)

\* The proxy posts the recipient in the place of its key.
PostViaProxy(u) ==
    /\ Len(mails) < MailLimit
    /\ \E lines \in Fresh(u) \cup Forwards(u), body \in Bodies :
          Translate(u, lines, body, Recipient(lines).key)

\* /api/decrypt answers 200.  A 403 changes nothing, nor does a second answer.
\* Without a privateKey it takes the mock one.
Decrypt(u, i) ==
    /\ i \notin readers[u]
    /\ \E s \in {[form |-> "seed", of |-> u], MockPrivate} : Opens(s, envelopes[i])
    /\ readers' = [readers EXCEPT ![u] = @ \cup {i}]
    /\ UNCHANGED <<mails, envelopes>>

Next ==
    \E u \in Users :
       \/ Post(u)
       \/ PostViaProxy(u)
       \/ \E i \in DOMAIN envelopes : Decrypt(u, i)

Spec == Init /\ [][Next]_vars
-----------------------------------------------------------------------------
Mails == [by : Users, origin : Nat, from : Seq(Names), to : Seq(Seq(Names)), body : Bodies,
          key : KeyStrings]

TextBlocks == [stripped : BOOLEAN, content : SUBSET Pieces]

Envelopes == [recipient : Names,
              sealedTo : {PublicKeyOf(k) : k \in KeyStrings},
              sender : Names, recipients : Seq(Names),
              blocks : Seq(TextBlocks), attachments : Seq(Parts)]

TypeOK ==
    /\ mails \in Seq(Mails)
    /\ envelopes \in Seq(Envelopes)
    /\ Len(envelopes) = Len(mails)
    /\ readers \in [Users -> SUBSET DOMAIN envelopes]

Seed(u) == [form |-> "seed", of |-> u]

\* The body quotes no To: line that begins with a DID.
QuotesNoDid(mail) == DidsIn(Leads(mail)) \subseteq {1}

\* A user's own key opens a mail only if a To: line begins with the user's name,
\* that of the header if no other begins with a DID: a forward never becomes
\* readable for somebody it does not name.  The mock key, which everybody has,
\* opens a mail only if it is the DID's or the posted key itself, or if no key was
\* posted for an address: no mail to the DID of another key.
OnlyNamedCanOpen ==
    \A i \in DOMAIN mails :
        /\ \A u \in Users : Opens(Seed(u), envelopes[i]) =>
              \E j \in DOMAIN mails[i].to :
                 /\ Leads(mails[i])[j] = Name[u]
                 /\ QuotesNoDid(mails[i]) => j = 1
        /\ Opens(MockPrivate, envelopes[i]) =>
              IF Recipient(mails[i]).scheme = "did" THEN Recipient(mails[i]).key = MockKey
              ELSE mails[i].key \in {MockKey, NoKey}

\* The first recipient of a mail that quotes no DID is never refused, if its DID
\* or the key that was posted for it is an X25519 key in any of the forms.
RecipientCanOpen ==
    \A i \in DOMAIN mails, u \in Users :
        (/\ Leads(mails[i])[1] = Name[u]
         /\ QuotesNoDid(mails[i])
         /\ \/ Name[u].key \in SealStrings
            \/ Name[u].scheme = "address" /\ mails[i].key \in SealStrings)
        => Opens(Seed(u), envelopes[i])

\* However often it is forwarded, a mail is graded under the name of who first
\* wrote it, and looked up and charged for those it was first written to: never
\* for the forwarder or the one it is forwarded to, and never for the reader that
\* a DID in the body makes of a mail to several.
GradedAsOriginal ==
    \A i \in DOMAIN mails :
        LET original == mails[mails[i].origin]
        IN  /\ Graded(mails[i]).sender = Name[original.by]
            /\ Graded(mails[i]).contact = Head(original.to)
            /\ Graded(mails[i]).charged = Charged(Head(original.to))

\* The ways to go through a list and the positions I together, in order.
Pairings(list, I) ==
    {at \in [DOMAIN list -> I] :
        /\ \A k, l \in DOMAIN list : k < l => at[k] < at[l]
        /\ \A j \in I : \E k \in DOMAIN list : at[k] = j}

\* What a block may lack of its part: bytes that are not UTF-8, and of HTML, which
\* the block says has been stripped, what comes after 500 characters.
Renders(block, part) ==
    /\ block.stripped <=> part.type = "html"
    /\ block.content \subseteq part.content
    /\ part.content \ block.content \subseteq
          {"foreign"} \cup (IF block.stripped THEN {"rest"} ELSE {})

\* The parts that are not empty and that no disposition marks.
Unmarked(body) == {j \in DOMAIN body : body[j].disposition = "none" /\ body[j].content # {}}

\* What is marked as an attachment is kept, once, in order and whole.  The text is
\* made of parts of one type that are not empty, each once and in order: all the
\* plain ones that are not marked, if there are any.  A mail with an unmarked plain
\* or HTML part that is not empty always has a text.
ContentIsKept ==
    \A i \in DOMAIN mails :
        LET body == mails[i].body
        IN  /\ \E at \in Pairings(envelopes[i].attachments, AttachedAt(body)) :
                  \A k \in DOMAIN at : envelopes[i].attachments[k] = body[at[k]]
            /\ \E I \in SUBSET DOMAIN body :
                  /\ \E at \in Pairings(envelopes[i].blocks, I) :
                        \A k \in DOMAIN at : Renders(envelopes[i].blocks[k], body[at[k]])
                  /\ \A j, l \in I : body[j].type = body[l].type /\ body[j].content # {}
                  /\ \A j \in Unmarked(body) : body[j].type = "text" => j \in I
                  /\ (\E j \in Unmarked(body) : body[j].type \in {"text", "html"}) => I # {}

\* gateway.py:170 "Extract plaintext recipient": an envelope is addressed to the
\* recipient in the header of its mail.
AddressedToRecipient ==
    \A i \in DOMAIN mails : envelopes[i].recipient = Leads(mails[i])[1]
=============================================================================
