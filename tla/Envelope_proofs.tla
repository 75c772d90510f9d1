--------------------------- MODULE Envelope_proofs ---------------------------
(***************************************************************************)
(* Who can open what, for every number of users, names, keys and mails.    *)
(* The envelope is a function of its mail, so the invariant is about the   *)
(* mails: every name in one is a user's, the posted key is that of the     *)
(* first recipient or the one that the proxy takes, a mail has a To: line  *)
(* for every From: line, and its last lines are the original's.  What the walk over the parts of a body      *)
(* collects is a recursive function; that it exists and what it returns is *)
(* shown by induction, with a set of naturals in the place of a predicate. *)
(***************************************************************************)
EXTENDS Envelope, SequenceTheorems, WellFoundedInduction, TLAPS

Used == {Name[u] : u \in Users}

NameLists == Seq(Used) \ {<<>>}

Posted == [by : Users, origin : Nat, from : NameLists, to : Seq(NameLists) \ {<<>>},
           body : Bodies, key : KeyStrings]

\* The key is none, the proxy's, or one that the first recipient publishes.
KeyKnown(mail) ==
    \/ mail.key \in {NoKey, Recipient(mail).key}
    \/ \E r \in Users : Name[r] = Leads(mail)[1] /\ mail.key = Published[r]

GoodMails == {mail \in Posted : Len(mail.from) = Len(mail.to) /\ KeyKnown(mail)}

\* The last of a list of lines, which the handler grades by.
LastOf(lines) == lines[Len(lines)]

IInv ==
    /\ mails \in Seq(GoodMails)
    /\ envelopes \in Seq({Seal(mail) : mail \in GoodMails})
    /\ Len(envelopes) = Len(mails)
    /\ \A i \in 1..Len(mails) : envelopes[i] = Seal(mails[i])
    /\ readers \in [Users -> SUBSET (1..Len(mails))]

-----------------------------------------------------------------------------
\* Names and their keys.
LEMMA UsedNames ==
    ASSUME NEW n \in Used
    PROVE  /\ n \in Names /\ n.key \in KeyStrings
           /\ n.scheme \in {"address", "did"}
           /\ n.scheme = "address" => n.key \in Addresses
  BY NameAssumption DEF Used, Names, KeyStrings

LEMMA FormsDiffer ==
    /\ SealStrings \cap VerifyStrings = {}
    /\ SealStrings \cap Addresses = {}
    /\ Seeds \cap SealStrings = {}
  BY DEF SealStrings, VerifyStrings, Addresses, Seeds

LEMMA LeastExists ==
    ASSUME NEW T \in SUBSET Nat, T # {}
    PROVE  \E x \in T : \A y \in T : x <= y
<1>1. PICK x \in T : \A y \in T : ~ (<<y, x>> \in OpToRel(<, Nat))
  BY NatLessThanWellFounded, WFMin
<1>2. \A y \in T : ~(y < x)
  BY <1>1 DEF OpToRel
<1> QED
  BY <1>2

\* Which of several names an envelope takes.
LEMMA FirstIsOne ==
    ASSUME NEW names \in Seq(Used), names # <<>>
    PROVE  /\ FirstDidOrHeader(names) \in Used
           /\ DidsIn(names) = {} =>
                 /\ FirstDidOrHeader(names) = names[1]
                 /\ names[1].scheme = "address"
           /\ DidsIn(names) # {} =>
                 /\ \E j \in DidsIn(names) : FirstDidOrHeader(names) = names[j]
                 /\ FirstDidOrHeader(names).scheme = "did"
<1>1. /\ Len(names) \in Nat \ {0} /\ DOMAIN names = 1..Len(names)
      /\ Head(names) = names[1]
      /\ \A i \in DOMAIN names : names[i] \in Used
  <2>1. Len(names) \in Nat \ {0} /\ DOMAIN names = 1..Len(names) /\ Head(names) = names[1]
    OBVIOUS
  <2> QED
    BY <2>1, ElementOfSeq
<1>2. CASE DidsIn(names) = {}
  <2>1. FirstDidOrHeader(names) = names[1] /\ names[1] \in Used
    BY <1>1, <1>2 DEF FirstDidOrHeader
  <2>2. names[1].scheme # "did"
    BY <1>1, <1>2 DEF DidsIn
  <2> QED
    BY <1>2, <2>1, <2>2, UsedNames
<1>3. CASE DidsIn(names) # {}
  <2>1. DidsIn(names) \in SUBSET Nat
    BY <1>1 DEF DidsIn
  <2>2. \E i \in DidsIn(names) : \A j \in DidsIn(names) : i <= j
    BY <1>3, <2>1, LeastExists
  <2>3. PICK i \in DidsIn(names) : FirstDidOrHeader(names) = names[i]
    BY <1>3, <2>2 DEF FirstDidOrHeader
  <2>4. names[i] \in Used /\ names[i].scheme = "did"
    BY <1>1 DEF DidsIn
  <2> QED
    BY <1>3, <2>3, <2>4
<1> QED
  BY <1>2, <1>3

\* The first names of the To: lines.
LEMMA LeadsAre ==
    ASSUME NEW mail, mail.to \in Seq(NameLists) \ {<<>>}
    PROVE  /\ Leads(mail) \in Seq(Used) /\ Leads(mail) # <<>>
           /\ DOMAIN Leads(mail) = 1..Len(mail.to)
           /\ Len(Leads(mail)) = Len(mail.to) /\ Len(mail.to) \in Nat \ {0}
           /\ \A i \in 1..Len(mail.to) : Leads(mail)[i] = mail.to[i][1]
<1>1. Len(mail.to) \in Nat \ {0} /\ DOMAIN mail.to = 1..Len(mail.to)
  OBVIOUS
<1>2. ASSUME NEW i \in 1..Len(mail.to)
      PROVE  Head(mail.to[i]) = mail.to[i][1] /\ Head(mail.to[i]) \in Used
  <2>1. mail.to[i] \in NameLists
    BY ElementOfSeq
  <2> QED
    BY <2>1 DEF NameLists
<1>3. Leads(mail) \in [1..Len(mail.to) -> Used]
  BY <1>1, <1>2 DEF Leads
<1>4. Leads(mail) \in Seq(Used) /\ Len(Leads(mail)) = Len(mail.to)
  BY <1>1, <1>3
<1> QED
  BY <1>1, <1>2, <1>3, <1>4 DEF Leads

\* What is known of a good mail.
LEMMA GoodMailIs ==
    ASSUME NEW mail \in GoodMails
    PROVE  /\ mail.from \in NameLists /\ mail.to \in Seq(NameLists) \ {<<>>}
           /\ mail.by \in Users /\ mail.key \in KeyStrings
           /\ Recipient(mail) \in Used /\ FirstDidOrHeader(mail.from) \in Used
           /\ Len(mail.from) = Len(mail.to) /\ KeyKnown(mail)
<1>1. /\ mail.from \in NameLists /\ mail.to \in Seq(NameLists) \ {<<>>}
      /\ mail.by \in Users /\ mail.key \in KeyStrings
      /\ Len(mail.from) = Len(mail.to) /\ KeyKnown(mail)
  BY DEF GoodMails, Posted
<1>2. Recipient(mail) \in Used
  BY <1>1, LeadsAre, FirstIsOne DEF Recipient
<1>3. FirstDidOrHeader(mail.from) \in Used
  BY <1>1, FirstIsOne DEF NameLists
<1> QED
  BY <1>1, <1>2, <1>3

\* The names of a new mail, and of one that forwards another.
LEMMA FreshIs ==
    ASSUME NEW u \in Users, NEW lines \in Fresh(u)
    PROVE  /\ lines.from \in NameLists /\ lines.to \in Seq(NameLists) \ {<<>>}
           /\ Len(lines.from) = Len(lines.to)
           /\ lines.origin = Len(mails) + 1
           /\ LastOf(lines.from) = Name[u] /\ LastOf(lines.to) = Head(lines.to)
<1>1. PICK list \in Lists :
         lines = [origin |-> Len(mails) + 1, from |-> <<Name[u]>>,
                  to |-> <<[i \in DOMAIN list |-> Name[list[i]]]>>]
  BY DEF Fresh
<1>2. list \in Seq(Users) /\ list # <<>>
  BY NameAssumption
<1>3. [i \in DOMAIN list |-> Name[list[i]]] \in NameLists
  <2>1. Len(list) \in Nat \ {0} /\ DOMAIN list = 1..Len(list)
    BY <1>2
  <2>2. \A i \in 1..Len(list) : Name[list[i]] \in Used
    BY <1>2, ElementOfSeq DEF Used
  <2>3. [i \in DOMAIN list |-> Name[list[i]]] \in [1..Len(list) -> Used]
    BY <2>1, <2>2
  <2>4. /\ [i \in DOMAIN list |-> Name[list[i]]] \in Seq(Used)
        /\ Len([i \in DOMAIN list |-> Name[list[i]]]) = Len(list)
    BY <2>1, <2>3
  <2> QED
    BY <2>1, <2>4 DEF NameLists
<1>4. <<Name[u]>> \in NameLists
  BY DEF Used, NameLists
<1> QED
  BY <1>1, <1>3, <1>4 DEF LastOf

\* A line put before the tail of a sequence leaves the last line, unless the
\* sequence has one line, in whose place it is then put.
LEMMA LastKept ==
    ASSUME NEW E, NEW s \in Seq(E), s # <<>>, NEW a \in E, NEW b \in E,
           Len(s) = 1 => b = s[1]
    PROVE  LastOf(<<a, b>> \o Tail(s)) = LastOf(s)
<1>1. PICK n \in Nat \ {0} : n = Len(s)
  BY LenProperties, EmptySeq
<1>2. /\ Tail(s) \in Seq(E) /\ Len(Tail(s)) = n - 1
      /\ \A i \in 1..(n - 1) : Tail(s)[i] = s[i + 1]
  BY <1>1, HeadTailProperties
<1>3. /\ Len(<<a, b>> \o Tail(s)) = n + 1
      /\ \A i \in 1..(n + 1) : (<<a, b>> \o Tail(s))[i] =
            IF i <= 2 THEN <<a, b>>[i] ELSE Tail(s)[i - 2]
  <2>1. <<a, b>> \in Seq(E) /\ Len(<<a, b>>) = 2
    OBVIOUS
  <2> QED
    BY <1>2, <2>1, ConcatProperties
<1>4. CASE n = 1
  BY <1>1, <1>3, <1>4 DEF LastOf
<1>5. CASE n # 1
  <2>1. n + 1 \in 1..(n + 1) /\ ~(n + 1 <= 2) /\ n - 1 \in 1..(n - 1)
    BY <1>5
  <2>2. (<<a, b>> \o Tail(s))[n + 1] = Tail(s)[n - 1]
    BY <1>3, <2>1
  <2> QED
    BY <1>1, <1>2, <1>3, <2>1, <2>2 DEF LastOf
<1> QED
  BY <1>4, <1>5

LEMMA ForwardsAre ==
    ASSUME IInv, NEW u \in Users, NEW lines \in Forwards(u)
    PROVE  /\ lines.from \in NameLists /\ lines.to \in Seq(NameLists) \ {<<>>}
           /\ Len(lines.from) = Len(lines.to)
           /\ \E i \in 1..Len(mails) :
                 /\ lines.origin = mails[i].origin /\ mails[i].origin \in Nat
                 /\ LastOf(lines.from) = LastOf(mails[i].from)
                 /\ LastOf(lines.to) = LastOf(mails[i].to)
<1>1. PICK i \in readers[u], r \in Users : lines = Forward(u, i, r)
  BY DEF Forwards
<1>2. i \in 1..Len(mails) /\ mails \in Seq(GoodMails) /\ envelopes[i] = Seal(mails[i])
  BY DEF IInv
<1>3. PICK m \in GoodMails : m = mails[i]
  BY <1>2, ElementOfSeq
<1>4. envelopes[i].sender = FirstDidOrHeader(m.from) /\ envelopes[i].recipients = Head(m.to)
  BY <1>2, <1>3 DEF Seal
<1>5. /\ m.from \in Seq(Used) /\ m.from # <<>> /\ m.to \in Seq(NameLists) /\ m.to # <<>>
      /\ Len(m.from) = Len(m.to) /\ FirstDidOrHeader(m.from) \in Used
  BY GoodMailIs DEF NameLists
<1>6. /\ Tail(m.from) \in Seq(Used) /\ Len(Tail(m.from)) = Len(m.from) - 1
      /\ Tail(m.to) \in Seq(NameLists) /\ Len(Tail(m.to)) = Len(m.to) - 1
      /\ Head(m.to) \in NameLists
      /\ Len(m.from) \in Nat \ {0}
  BY <1>5, HeadTailProperties
<1>7. /\ <<Name[u], FirstDidOrHeader(m.from)>> \in Seq(Used)
      /\ Len(<<Name[u], FirstDidOrHeader(m.from)>>) = 2
      /\ <<<<Name[r]>>, Head(m.to)>> \in Seq(NameLists)
      /\ Len(<<<<Name[r]>>, Head(m.to)>>) = 2
  <2>1. <<Name[r]>> \in NameLists
    BY DEF Used, NameLists
  <2> QED
    BY <1>5, <1>6, <2>1 DEF Used
<1>8. /\ lines.from \in Seq(Used) /\ Len(lines.from) = 2 + (Len(m.from) - 1)
      /\ lines.to \in Seq(NameLists) /\ Len(lines.to) = 2 + (Len(m.to) - 1)
  BY <1>1, <1>3, <1>4, <1>6, <1>7, ConcatProperties DEF Forward
<1>9. Len(lines.from) # 0 /\ Len(lines.to) # 0
  BY <1>5, <1>6, <1>8
<1>10. lines.from # <<>> /\ lines.to # <<>>
  BY <1>9
<1>11. LastOf(lines.from) = LastOf(m.from)
  <2>1. Len(m.from) = 1 => FirstDidOrHeader(m.from) = m.from[1]
    BY <1>5, FirstIsOne DEF DidsIn
  <2>2. Name[u] \in Used
    BY DEF Used
  <2>3. LastOf(<<Name[u], FirstDidOrHeader(m.from)>> \o Tail(m.from)) = LastOf(m.from)
    BY <1>5, <2>1, <2>2, LastKept
  <2> QED
    BY <1>1, <1>3, <1>4, <2>3 DEF Forward
<1>12. LastOf(lines.to) = LastOf(m.to)
  <2>1. Head(m.to) = m.to[1] /\ <<Name[r]>> \in NameLists
    <3>1. <<Name[r]>> \in NameLists
      BY DEF Used, NameLists
    <3> QED
      BY <1>5, <3>1
  <2>2. LastOf(<<<<Name[r]>>, Head(m.to)>> \o Tail(m.to)) = LastOf(m.to)
    BY <1>5, <1>6, <2>1, LastKept
  <2> QED
    BY <1>1, <1>3, <1>4, <2>2 DEF Forward
<1>13. lines.origin = m.origin /\ m.origin \in Nat
  BY <1>1, <1>3 DEF Forward, GoodMails, Posted
<1> QED
  BY <1>2, <1>3, <1>5, <1>8, <1>10, <1>11, <1>12, <1>13 DEF NameLists

LEMMA TranslateIInv ==
    ASSUME IInv, NEW u \in Users, NEW lines, NEW body \in Bodies, NEW key \in KeyStrings,
           lines.origin \in Nat, lines.from \in NameLists, lines.to \in Seq(NameLists) \ {<<>>},
           Len(lines.from) = Len(lines.to),
           \/ key \in {NoKey, Recipient(lines).key}
           \/ \E r \in Users : Name[r] = lines.to[1][1] /\ key = Published[r],
           Translate(u, lines, body, key)
    PROVE  IInv'
<1>1. PICK mail : mail = [by |-> u, origin |-> lines.origin, from |-> lines.from,
                          to |-> lines.to, body |-> body, key |-> key]
  OBVIOUS
<1>2. /\ mails' = Append(mails, mail)
      /\ envelopes' = Append(envelopes, Seal(mail))
      /\ readers' = readers
  BY <1>1 DEF Translate
<1>3. mail \in Posted /\ mail.to = lines.to /\ mail.from = lines.from /\ mail.key = key
  BY <1>1 DEF Posted
<1>4. Recipient(mail) = Recipient(lines) /\ Leads(mail)[1] = lines.to[1][1]
  BY <1>3, LeadsAre DEF Recipient, Leads
<1>5. KeyKnown(mail)
  BY <1>3, <1>4 DEF KeyKnown
<1>6. mail \in GoodMails
  BY <1>3, <1>5 DEF GoodMails
<1>7. Seal(mail) \in {Seal(m) : m \in GoodMails}
  BY <1>6
<1>8. /\ mails' \in Seq(GoodMails) /\ Len(mails') = Len(mails) + 1 /\ Len(mails) \in Nat
      /\ \A i \in 1..Len(mails) : mails'[i] = mails[i]
      /\ mails'[Len(mails) + 1] = mail
  BY <1>2, <1>6, AppendProperties, LenProperties DEF IInv
<1>9. /\ envelopes' \in Seq({Seal(m) : m \in GoodMails})
      /\ Len(envelopes') = Len(mails) + 1
      /\ \A i \in 1..Len(mails) : envelopes'[i] = envelopes[i]
      /\ envelopes'[Len(mails) + 1] = Seal(mail)
  BY <1>2, <1>7, AppendProperties, LenProperties DEF IInv
<1>10. ASSUME NEW i \in 1..(Len(mails) + 1) PROVE envelopes'[i] = Seal(mails'[i])
  <2>1. CASE i \in 1..Len(mails)
    BY <1>8, <1>9, <2>1 DEF IInv
  <2>2. CASE i = Len(mails) + 1
    BY <1>8, <1>9, <2>2
  <2> QED
    BY <1>8, <2>1, <2>2
<1> QED
  BY <1>2, <1>8, <1>9, <1>10 DEF IInv

LEMMA NextIInv == IInv /\ [Next]_vars => IInv'
<1> SUFFICES ASSUME IInv, [Next]_vars PROVE IInv'
  OBVIOUS
<1>1. ASSUME NEW u \in Users, NEW lines \in Fresh(u) \cup Forwards(u)
      PROVE  /\ lines.from \in NameLists /\ lines.to \in Seq(NameLists) \ {<<>>}
             /\ Len(lines.from) = Len(lines.to) /\ lines.origin \in Nat
  BY FreshIs, ForwardsAre, LenProperties DEF IInv
<1>2. ASSUME NEW u \in Users, Post(u) PROVE IInv'
  <2>1. PICK lines \in Fresh(u) \cup Forwards(u), body \in Bodies, r \in Users :
           /\ Name[r] = lines.to[1][1]
           /\ \E key \in {Published[r], NoKey} : Translate(u, lines, body, key)
    BY <1>2 DEF Post
  <2>2. PICK key \in {Published[r], NoKey} : Translate(u, lines, body, key)
    BY <2>1
  <2>3. key \in KeyStrings
    BY NameAssumption DEF KeyStrings
  <2>4. /\ lines.from \in NameLists /\ lines.to \in Seq(NameLists) \ {<<>>}
        /\ Len(lines.from) = Len(lines.to) /\ lines.origin \in Nat
    BY <1>1
  <2>5. key = NoKey \/ (Name[r] = lines.to[1][1] /\ key = Published[r])
    BY <2>1
  <2> QED
    BY <2>2, <2>3, <2>4, <2>5, TranslateIInv
<1>3. ASSUME NEW u \in Users, PostViaProxy(u) PROVE IInv'
  <2>1. PICK lines \in Fresh(u) \cup Forwards(u), body \in Bodies :
           Translate(u, lines, body, Recipient(lines).key)
    BY <1>3 DEF PostViaProxy
  <2>2. /\ lines.from \in NameLists /\ lines.to \in Seq(NameLists) \ {<<>>}
        /\ Len(lines.from) = Len(lines.to) /\ lines.origin \in Nat
    BY <1>1
  <2>3. Recipient(lines).key \in KeyStrings
    BY <2>2, LeadsAre, FirstIsOne, UsedNames DEF Recipient
  <2> QED
    BY <2>1, <2>2, <2>3, TranslateIInv
<1>4. ASSUME NEW u \in Users, NEW i \in DOMAIN envelopes, Decrypt(u, i) PROVE IInv'
  <2>1. DOMAIN envelopes = 1..Len(mails)
    BY DEF IInv
  <2>2. readers' \in [Users -> SUBSET (1..Len(mails))]
    BY <1>4, <2>1 DEF Decrypt, IInv
  <2>3. mails' = mails /\ envelopes' = envelopes
    BY <1>4 DEF Decrypt
  <2> QED
    BY <2>2, <2>3 DEF IInv
<1>5. CASE UNCHANGED vars
  BY <1>5 DEF vars, IInv
<1> QED
  BY <1>2, <1>3, <1>4, <1>5 DEF Next

\* The invariant of the gateway: each envelope is the seal of its mail, and the
\* mails are written as mail programs write them.
THEOREM Invariant == Spec => []IInv
<1>1. Init => IInv
  BY DEF Init, IInv
<1> QED
  BY <1>1, NextIInv, PTL DEF Spec

LEMMA MailIsGood ==
    ASSUME IInv, NEW i \in DOMAIN mails
    PROVE  mails[i] \in GoodMails /\ envelopes[i] = Seal(mails[i])
<1>1. i \in 1..Len(mails) /\ mails \in Seq(GoodMails)
  BY DEF IInv
<1> QED
  BY <1>1, ElementOfSeq DEF IInv

LEMMA SealIs ==
    ASSUME NEW mail
    PROVE  /\ Seal(mail).recipient = Recipient(mail)
           /\ Seal(mail).sealedTo = PublicKeyOf(SealKey(mail))
           /\ Seal(mail).sender = FirstDidOrHeader(mail.from)
  BY DEF Seal

-----------------------------------------------------------------------------
\* Which private key opens what is sealed to a key string.
LEMMA SeedOpens ==
    ASSUME NEW k \in KeyStrings, NEW u \in Users
    PROVE  PrivateKeyOf(Seed(u)) = PublicKeyOf(k) <=> k \in SealStrings /\ k.of = u
<1>1. Seed(u) \in Seeds /\ PrivateKeyOf(Seed(u)) = [holder |-> u]
  BY DEF Seed, Seeds, PrivateKeyOf
<1>2. CASE k = MockKey
  <2>1. PublicKeyOf(k) = [digest |-> MockPrivate] /\ k \notin SealStrings
    BY <1>2, StringAssumption DEF PublicKeyOf, PrivateKeyOf
  <2> QED
    BY <1>1, <2>1
<1>3. CASE k \in SealStrings /\ k # MockKey
  BY <1>1, <1>3 DEF PublicKeyOf
<1>4. CASE k \notin SealStrings /\ k # MockKey
  <2>1. PublicKeyOf(k) = [point |-> k]
    BY <1>4 DEF PublicKeyOf
  <2> QED
    BY <1>1, <1>4, <2>1
<1> QED
  BY <1>2, <1>3, <1>4

LEMMA MockOpens ==
    ASSUME NEW k \in KeyStrings
    PROVE  PrivateKeyOf(MockPrivate) = PublicKeyOf(k) <=> k = MockKey
<1>1. PrivateKeyOf(MockPrivate) = [digest |-> MockPrivate]
  BY StringAssumption DEF PrivateKeyOf
<1>2. ASSUME k = MockKey PROVE PrivateKeyOf(MockPrivate) = PublicKeyOf(k)
  BY <1>2, StringAssumption DEF PublicKeyOf
<1>3. ASSUME k # MockKey PROVE PrivateKeyOf(MockPrivate) # PublicKeyOf(k)
  <2>1. CASE k \in SealStrings
    BY <1>1, <1>3, <2>1 DEF PublicKeyOf
  <2>2. CASE k \notin SealStrings
    BY <1>1, <1>3, <2>2 DEF PublicKeyOf
  <2> QED
    BY <2>1, <2>2
<1> QED
  BY <1>2, <1>3

\* What a mail is sealed to.
LEMMA SealKeyIs ==
    ASSUME NEW mail \in GoodMails
    PROVE  /\ SealKey(mail) \in KeyStrings
           /\ Recipient(mail).scheme = "did" => SealKey(mail) = Recipient(mail).key
           /\ Recipient(mail).scheme = "address" /\ mail.key # NoKey => SealKey(mail) = mail.key
           /\ Recipient(mail).scheme = "address" /\ mail.key = NoKey => SealKey(mail) = MockKey
           /\ Recipient(mail).scheme \in {"did", "address"}
  BY GoodMailIs, UsedNames DEF SealKey, KeyStrings

LEMMA FirstLead ==
    ASSUME NEW mail \in GoodMails
    PROVE  /\ \A j \in DOMAIN mail.to : \E v \in Users : Leads(mail)[j] = Name[v]
           /\ DOMAIN Leads(mail) = DOMAIN mail.to /\ 1 \in DOMAIN mail.to
           /\ Recipient(mail).scheme = "did" =>
                 \E j \in DidsIn(Leads(mail)) : Recipient(mail) = Leads(mail)[j]
           /\ Recipient(mail).scheme = "address" \/ QuotesNoDid(mail) =>
                 Recipient(mail) = Leads(mail)[1]
           /\ DidsIn(Leads(mail)) \subseteq DOMAIN mail.to
<1>1. /\ Leads(mail) \in Seq(Used) /\ Leads(mail) # <<>>
      /\ DOMAIN Leads(mail) = 1..Len(mail.to)
      /\ Len(Leads(mail)) = Len(mail.to) /\ Len(mail.to) \in Nat \ {0}
      /\ mail.to \in Seq(NameLists)
  BY GoodMailIs, LeadsAre
<1>2. \A j \in 1..Len(mail.to) : Leads(mail)[j] \in Used
  BY <1>1, ElementOfSeq
<1>3. DOMAIN mail.to = 1..Len(mail.to) /\ 1 \in 1..Len(mail.to)
  BY <1>1
<1>4. CASE DidsIn(Leads(mail)) = {}
  BY <1>1, <1>2, <1>3, <1>4, FirstIsOne DEF Recipient, Used
<1>5. CASE DidsIn(Leads(mail)) # {}
  <2>1. PICK j \in DidsIn(Leads(mail)) : Recipient(mail) = Leads(mail)[j]
    BY <1>1, <1>5, FirstIsOne DEF Recipient
  <2>2. Recipient(mail).scheme = "did"
    BY <1>1, <1>5, FirstIsOne DEF Recipient
  <2>3. QuotesNoDid(mail) => j = 1
    BY DEF QuotesNoDid
  <2>4. DidsIn(Leads(mail)) \subseteq 1..Len(mail.to)
    BY <1>1 DEF DidsIn
  <2> QED
    BY <1>1, <1>2, <1>3, <2>1, <2>2, <2>3, <2>4 DEF Used
<1> QED
  BY <1>4, <1>5

\* Two users never have the same X25519 key, so a mail sealed to one is opened by
\* nobody else: neither by those whom a forwarded body quotes in other places,
\* nor by everybody (through the mock key), unless it is for an address and no
\* key was posted.
THEOREM OnlyNamedOpen == Spec => []OnlyNamedCanOpen
<1>1. ASSUME IInv, NEW i \in DOMAIN mails, NEW u \in Users, Opens(Seed(u), envelopes[i])
      PROVE  \E j \in DOMAIN mails[i].to :
                 /\ Leads(mails[i])[j] = Name[u]
                 /\ QuotesNoDid(mails[i]) => j = 1
  <2>1. PICK m \in GoodMails : m = mails[i]
    BY <1>1, MailIsGood
  <2>2. PrivateKeyOf(Seed(u)) = PublicKeyOf(SealKey(m))
    BY <1>1, <2>1, MailIsGood, SealIs DEF Opens
  <2>3. SealKey(m) \in SealStrings /\ SealKey(m).of = u
    BY <2>2, SealKeyIs, SeedOpens
  <2>4. CASE Recipient(m).scheme = "did"
    <3>1. PICK j \in DOMAIN m.to : /\ Recipient(m) = Leads(m)[j]
                                   /\ QuotesNoDid(m) => j = 1
      BY <2>4, FirstLead DEF QuotesNoDid
    <3>2. PICK v \in Users : Leads(m)[j] = Name[v]
      BY FirstLead
    <3>3. Name[v].key \in SealStrings /\ Name[v].key.of = u
      BY <2>3, <2>4, <3>1, <3>2, SealKeyIs
    <3>4. v = u
      BY <3>3, OwnKeyAssumption
    <3> QED
      BY <2>1, <3>1, <3>2, <3>4
  <2>5. CASE Recipient(m).scheme = "address"
    <3>1. Recipient(m) = Leads(m)[1] /\ 1 \in DOMAIN m.to
      BY <2>5, FirstLead
    <3>2. MockKey \notin SealStrings /\ Recipient(m).key \notin SealStrings
      BY <2>5, GoodMailIs, UsedNames, FormsDiffer, StringAssumption
    <3>3. m.key # NoKey /\ m.key \in SealStrings /\ m.key.of = u /\ m.key # Recipient(m).key
      BY <2>3, <2>5, <3>2, SealKeyIs
    <3>4. PICK v \in Users : Name[v] = Leads(m)[1] /\ m.key = Published[v]
      BY <3>3, GoodMailIs DEF KeyKnown
    <3>5. v = u
      BY <3>3, <3>4, OwnKeyAssumption
    <3> QED
      BY <2>1, <3>1, <3>4, <3>5
  <2> QED
    BY <2>4, <2>5, SealKeyIs
<1>2. ASSUME IInv, NEW i \in DOMAIN mails, Opens(MockPrivate, envelopes[i])
      PROVE  IF Recipient(mails[i]).scheme = "did" THEN Recipient(mails[i]).key = MockKey
             ELSE mails[i].key \in {MockKey, NoKey}
  <2>1. PICK m \in GoodMails : m = mails[i]
    BY <1>2, MailIsGood
  <2>2. PrivateKeyOf(MockPrivate) = PublicKeyOf(SealKey(m))
    BY <1>2, <2>1, MailIsGood, SealIs DEF Opens
  <2>3. SealKey(m) = MockKey
    BY <2>2, SealKeyIs, MockOpens
  <2> QED
    BY <2>1, <2>3, SealKeyIs
<1>3. IInv => OnlyNamedCanOpen
  BY <1>1, <1>2 DEF OnlyNamedCanOpen
<1> QED
  BY Invariant, <1>3, PTL

\* The recipient that the header names can open its mail, unless the body quotes
\* another's DID, in every form of key that parse_x25519_public_key reads.
THEOREM RecipientOpens == Spec => []RecipientCanOpen
<1>1. ASSUME IInv, NEW i \in DOMAIN mails, NEW u \in Users,
             Leads(mails[i])[1] = Name[u], QuotesNoDid(mails[i]),
             \/ Name[u].key \in SealStrings
             \/ Name[u].scheme = "address" /\ mails[i].key \in SealStrings
      PROVE  Opens(Seed(u), envelopes[i])
  <2>1. PICK m \in GoodMails : m = mails[i]
    BY <1>1, MailIsGood
  <2>2. Recipient(m) = Name[u]
    BY <1>1, <2>1, FirstLead
  <2>3. SealKey(m) \in SealStrings /\ SealKey(m).of = u
    <3>1. Name[u] \in Used
      BY DEF Used
    <3>2. CASE Name[u].key \in SealStrings
      <4>1. Name[u].scheme = "did"
        BY <3>1, <3>2, UsedNames, FormsDiffer
      <4> QED
        BY <2>2, <3>2, <4>1, SealKeyIs, OwnKeyAssumption
    <3>3. CASE Name[u].scheme = "address" /\ m.key \in SealStrings
      <4>1. NoKey \notin SealStrings /\ Name[u].key \notin SealStrings
        BY <3>1, <3>3, UsedNames, FormsDiffer, StringAssumption
      <4>2. SealKey(m) = m.key
        BY <2>2, <3>3, <4>1, SealKeyIs
      <4>3. PICK v \in Users : Name[v] = Name[u] /\ m.key = Published[v]
        BY <1>1, <2>1, <2>2, <3>3, <4>1, GoodMailIs DEF KeyKnown
      <4>4. v = u
        BY <4>3, OwnKeyAssumption
      <4> QED
        BY <3>3, <4>2, <4>3, <4>4, OwnKeyAssumption
    <3> QED
      BY <1>1, <2>1, <3>2, <3>3
  <2>4. PrivateKeyOf(Seed(u)) = PublicKeyOf(SealKey(m))
    BY <2>3, SealKeyIs, SeedOpens
  <2> QED
    BY <1>1, <2>1, <2>4, MailIsGood, SealIs DEF Opens
<1>2. IInv => RecipientCanOpen
  BY <1>1 DEF RecipientCanOpen
<1> QED
  BY Invariant, <1>2, PTL

-----------------------------------------------------------------------------
\* The last lines of a mail, which it is graded by, are the first of its original.
Originals ==
    \A i \in 1..Len(mails) :
        /\ mails[i].origin \in 1..Len(mails)
        /\ LastOf(mails[i].from) = Name[mails[mails[i].origin].by]
        /\ LastOf(mails[i].to) = Head(mails[mails[i].origin].to)

\* A mail that is appended is its own original, or has the last lines and the
\* original of one that was there.
LEMMA TranslateOriginals ==
    ASSUME IInv, Originals, NEW u \in Users, NEW lines, NEW body, NEW key,
           Translate(u, lines, body, key),
           \/ /\ lines.origin = Len(mails) + 1
              /\ LastOf(lines.from) = Name[u] /\ LastOf(lines.to) = Head(lines.to)
           \/ \E i \in 1..Len(mails) :
                 /\ lines.origin = mails[i].origin
                 /\ LastOf(lines.from) = LastOf(mails[i].from)
                 /\ LastOf(lines.to) = LastOf(mails[i].to)
    PROVE  Originals'
<1>1. PICK mail : mail = [by |-> u, origin |-> lines.origin, from |-> lines.from,
                          to |-> lines.to, body |-> body, key |-> key]
  OBVIOUS
<1>2. PICK n \in Nat : n = Len(mails)
  BY LenProperties DEF IInv
<1>3. mails' = Append(mails, mail)
  BY <1>1 DEF Translate
<1>4. /\ Len(mails') = n + 1 /\ mails'[n + 1] = mail
      /\ \A i \in 1..n : mails'[i] = mails[i]
  BY <1>2, <1>3, AppendProperties DEF IInv
<1>5. /\ mail.by = u /\ mail.origin = lines.origin
      /\ mail.from = lines.from /\ mail.to = lines.to
  BY <1>1
<1>6. ASSUME NEW i \in 1..n
      PROVE  /\ mails'[i].origin \in 1..n
             /\ LastOf(mails'[i].from) = Name[mails'[mails'[i].origin].by]
             /\ LastOf(mails'[i].to) = Head(mails'[mails'[i].origin].to)
  <2>1. PICK o \in 1..n : o = mails[i].origin
    BY <1>2 DEF Originals
  <2> QED
    BY <1>2, <1>4, <2>1 DEF Originals
<1>7. /\ mail.origin \in 1..(n + 1)
      /\ LastOf(mail.from) = Name[mails'[mail.origin].by]
      /\ LastOf(mail.to) = Head(mails'[mail.origin].to)
  <2>1. CASE /\ lines.origin = Len(mails) + 1
             /\ LastOf(lines.from) = Name[u] /\ LastOf(lines.to) = Head(lines.to)
    BY <1>2, <1>4, <1>5, <2>1
  <2>2. ASSUME NEW i \in 1..n, lines.origin = mails[i].origin,
               LastOf(lines.from) = LastOf(mails[i].from),
               LastOf(lines.to) = LastOf(mails[i].to)
        PROVE  <1>7!1 /\ <1>7!2 /\ <1>7!3
    <3>1. mails'[i] = mails[i] /\ mails'[i].origin \in 1..(n + 1)
      BY <1>4, <1>6
    <3> QED
      BY <1>5, <1>6, <2>2, <3>1
  <2> QED
    BY <1>2, <2>1, <2>2
<1>8. \A i \in 1..(n + 1) : i \in 1..n \/ i = n + 1
  OBVIOUS
<1> QED
  BY <1>4, <1>6, <1>7, <1>8 DEF Originals

LEMMA NextOriginals == IInv /\ Originals /\ [Next]_vars => Originals'
<1> SUFFICES ASSUME IInv, Originals, [Next]_vars PROVE Originals'
  OBVIOUS
<1>1. ASSUME NEW u \in Users, NEW lines \in Fresh(u) \cup Forwards(u), NEW body, NEW key,
             Translate(u, lines, body, key)
      PROVE  Originals'
  <2>1. CASE lines \in Fresh(u)
    BY <1>1, <2>1, FreshIs, TranslateOriginals
  <2>2. CASE lines \in Forwards(u)
    BY <1>1, <2>2, ForwardsAre, TranslateOriginals
  <2> QED
    BY <2>1, <2>2
<1>2. ASSUME NEW u \in Users, Post(u) PROVE Originals'
  BY <1>1, <1>2 DEF Post
<1>3. ASSUME NEW u \in Users, PostViaProxy(u) PROVE Originals'
  BY <1>1, <1>3 DEF PostViaProxy
<1>4. ASSUME NEW u \in Users, NEW i \in DOMAIN envelopes, Decrypt(u, i) PROVE Originals'
  BY <1>4 DEF Decrypt, Originals
<1>5. CASE UNCHANGED vars
  BY <1>5 DEF vars, Originals
<1> QED
  BY <1>2, <1>3, <1>4, <1>5 DEF Next

\* A chain of forwards of any length is graded, looked up and charged by the two
\* lines that its first mail begins with: a quota is that of who wrote the mail.
THEOREM GradesAsOriginal == Spec => []GradedAsOriginal
<1>1. Init => Originals
  BY DEF Init, Originals
<1>2. IInv /\ Originals => GradedAsOriginal
  <2> SUFFICES ASSUME IInv, Originals, NEW i \in DOMAIN mails
               PROVE  /\ Graded(mails[i]).sender = Name[mails[mails[i].origin].by]
                      /\ Graded(mails[i]).contact = Head(mails[mails[i].origin].to)
                      /\ Graded(mails[i]).charged = Charged(Head(mails[mails[i].origin].to))
    BY DEF GradedAsOriginal
  <2>1. i \in 1..Len(mails)
    BY DEF IInv
  <2>2. /\ LastOf(mails[i].from) = Name[mails[mails[i].origin].by]
        /\ LastOf(mails[i].to) = Head(mails[mails[i].origin].to)
    BY <2>1 DEF Originals
  <2> QED
    BY <2>2 DEF Graded, LastOf
<1> QED
  BY <1>1, <1>2, Invariant, NextOriginals, PTL DEF Spec

-----------------------------------------------------------------------------
\* The walk over the parts of a body.

\* A list holds the parts at the positions I, each once and in their order.
KeepsInOrder(list, body, I) ==
    \E at \in Pairings(list, I) : \A k \in DOMAIN at : list[k] = body[at[k]]

\* Induction over the natural numbers.
LEMMA SetInduction ==
    ASSUME NEW T, 0 \in T, \A n \in Nat : n \in T => n + 1 \in T
    PROVE  Nat \subseteq T
<1> SUFFICES ASSUME Nat \ T # {} PROVE FALSE
  OBVIOUS
<1>1. PICK x \in Nat \ T : \A y \in Nat \ T : x <= y
  BY LeastExists
<1>2. x # 0 /\ x - 1 \in Nat /\ ~(x <= x - 1)
  BY <1>1
<1>3. x - 1 \in T
  BY <1>1, <1>2
<1> QED
  BY <1>2, <1>3

\* The body of the recursion of Collect.
Turn(f, s, S, n) ==
    IF n = 0 THEN <<>> ELSE IF n \in S THEN Append(f[n - 1], s[n]) ELSE f[n - 1]

\* The recursion has a solution.
LEMMA LoopExists ==
    ASSUME NEW s, NEW S, Len(s) \in Nat
    PROVE  \E f : f = [n \in 0..Len(s) |->
                IF n = 0 THEN <<>>
                ELSE IF n \in S THEN Append(f[n - 1], s[n]) ELSE f[n - 1]]
<1> DEFINE Solved == {m \in Nat : \E f : f = [n \in 0..m |-> Turn(f, s, S, n)]}
<1>1. 0 \in Solved
  <2> DEFINE g == [n \in 0..0 |-> <<>>]
  <2>1. g = [n \in 0..0 |-> Turn(g, s, S, n)]
    BY DEF Turn
  <2> QED
    BY <2>1
<1>2. ASSUME NEW m \in Nat, m \in Solved PROVE m + 1 \in Solved
  <2>1. PICK f : f = [n \in 0..m |-> Turn(f, s, S, n)]
    BY <1>2
  <2> DEFINE g == [n \in 0..(m + 1) |-> IF n <= m THEN f[n] ELSE Turn(f, s, S, n)]
  <2>2. ASSUME NEW n \in 0..(m + 1) PROVE g[n] = Turn(g, s, S, n)
    <3>1. n = 0 \/ (n - 1 \in 0..m /\ n - 1 \in 0..(m + 1) /\ n - 1 <= m /\ g[n - 1] = f[n - 1])
      OBVIOUS
    <3>2. Turn(g, s, S, n) = Turn(f, s, S, n)
      BY <3>1 DEF Turn
    <3>3. \A k \in 0..m : f[k] = Turn(f, s, S, k)
      BY <2>1, Zenon
    <3> QED
      BY <3>2, <3>3
  <2>3. g = [n \in 0..(m + 1) |-> g[n]]
    OBVIOUS
  <2> HIDE DEF g
  <2>4. g = [n \in 0..(m + 1) |-> Turn(g, s, S, n)]
    BY <2>2, <2>3
  <2> QED
    BY <2>4
<1> HIDE DEF Solved
<1>3. Len(s) \in Solved
  BY <1>1, <1>2, SetInduction
<1> QED
  BY <1>3 DEF Solved, Turn

\* One turn of the loop.
LEMMA AppendKeeps ==
    ASSUME NEW E, NEW s, NEW I \in SUBSET Nat, NEW kept \in Seq(E), KeepsInOrder(kept, s, I),
           NEW p \in Nat, \A i \in I : i < p, s[p] \in E
    PROVE  KeepsInOrder(Append(kept, s[p]), s, I \cup {p})
<1>1. PICK at \in [DOMAIN kept -> I] :
         /\ \A k, l \in DOMAIN kept : k < l => at[k] < at[l]
         /\ \A i \in I : \E k \in DOMAIN kept : at[k] = i
         /\ \A k \in DOMAIN kept : kept[k] = s[at[k]]
  BY DEF KeepsInOrder, Pairings
<1>2. PICK m \in Nat : m = Len(kept) /\ DOMAIN kept = 1..m
  BY LenProperties
<1>3. PICK longer : longer = Append(kept, s[p])
  OBVIOUS
<1>4. /\ DOMAIN longer = 1..(m + 1)
      /\ \A k \in 1..m : longer[k] = kept[k]
      /\ longer[m + 1] = s[p]
  BY <1>2, <1>3, AppendProperties, LenProperties
<1>5. PICK next : next = [k \in 1..(m + 1) |-> IF k = m + 1 THEN p ELSE at[k]]
  OBVIOUS
<1>6. next[m + 1] = p /\ \A k \in 1..m : next[k] = at[k] /\ next[k] \in I
  BY <1>2, <1>5
<1>7. \A k \in 1..(m + 1) : k = m + 1 \/ k \in 1..m
  OBVIOUS
<1>8. next \in [1..(m + 1) -> I \cup {p}]
  BY <1>5, <1>6, <1>7
<1>9. ASSUME NEW k \in 1..(m + 1), NEW l \in 1..(m + 1), k < l PROVE next[k] < next[l]
  <2>1. k \in 1..m
    BY <1>9
  <2>2. CASE l \in 1..m
    BY <1>1, <1>2, <1>6, <1>9, <2>1, <2>2
  <2>3. CASE l = m + 1
    BY <1>6, <2>1, <2>3
  <2> QED
    BY <1>7, <2>2, <2>3
<1>10. ASSUME NEW i \in I \cup {p} PROVE \E k \in 1..(m + 1) : next[k] = i
  <2>1. CASE i \in I
    <3>1. PICK k \in 1..m : at[k] = i
      BY <1>1, <1>2, <2>1
    <3>2. k \in 1..(m + 1) /\ next[k] = i
      BY <1>6, <3>1
    <3> QED
      BY <3>2
  <2>2. CASE i = p
    BY <1>6, <2>2
  <2> QED
    BY <2>1, <2>2
<1>11. ASSUME NEW k \in 1..(m + 1) PROVE longer[k] = s[next[k]]
  BY <1>1, <1>2, <1>4, <1>6, <1>7
<1>12. next \in [DOMAIN longer -> I \cup {p}]
  BY <1>4, <1>8
<1>13. /\ \A k, l \in DOMAIN longer : k < l => next[k] < next[l]
       /\ \A j \in I \cup {p} : \E k \in DOMAIN longer : next[k] = j
       /\ \A k \in DOMAIN longer : longer[k] = s[next[k]]
  BY <1>4, <1>9, <1>10, <1>11
<1>14. KeepsInOrder(longer, s, I \cup {p})
  <2>1. next \in Pairings(longer, I \cup {p}) /\ DOMAIN next = DOMAIN longer
    BY <1>12, <1>13 DEF Pairings
  <2> QED
    BY <1>13, <2>1 DEF KeepsInOrder
<1> QED
  BY <1>3, <1>14

\* What the loop has collected after n turns.
LEMMA LoopKeeps ==
    ASSUME NEW E, NEW s \in Seq(E), NEW S, NEW f,
           \A n \in 0..Len(s) : f[n] = Turn(f, s, S, n)
    PROVE  \A n \in 0..Len(s) :
              f[n] \in Seq(E) /\ KeepsInOrder(f[n], s, S \cap (1..n))
<1> DEFINE Good == {n \in Nat : n <= Len(s) =>
                       f[n] \in Seq(E) /\ KeepsInOrder(f[n], s, S \cap (1..n))}
<1>1. Len(s) \in Nat /\ 0 \in 0..Len(s)
  BY LenProperties
<1>2. 0 \in Good
  <2>1. f[0] = <<>> /\ <<>> \in Seq(E)
    BY <1>1 DEF Turn
  <2>2. KeepsInOrder(<<>>, s, {})
    <3>1. PICK none : none = [k \in {} |-> k]
      OBVIOUS
    <3>2. none \in [{} -> {}] /\ DOMAIN none = {} /\ DOMAIN <<>> = {}
      BY <3>1
    <3>3. none \in Pairings(<<>>, {})
      BY <3>2 DEF Pairings
    <3> QED
      BY <3>2, <3>3 DEF KeepsInOrder
  <2>3. S \cap (1..0) = {}
    OBVIOUS
  <2> QED
    BY <2>1, <2>2, <2>3
<1>3. ASSUME NEW n \in Nat, n \in Good PROVE n + 1 \in Good
  <2> SUFFICES ASSUME n + 1 <= Len(s)
               PROVE  f[n + 1] \in Seq(E) /\ KeepsInOrder(f[n + 1], s, S \cap (1..(n + 1)))
    OBVIOUS
  <2>1. f[n] \in Seq(E) /\ KeepsInOrder(f[n], s, S \cap (1..n)) /\ n + 1 \in 1..Len(s) /\ n + 1 \in 0..Len(s)
    BY <1>3, LenProperties
  <2>2. s[n + 1] \in E
    BY <2>1, ElementOfSeq
  <2>3. f[n + 1] = IF n + 1 \in S THEN Append(f[n], s[n + 1]) ELSE f[n]
    BY <2>1 DEF Turn
  <2>4. CASE n + 1 \notin S
    <3>1. S \cap (1..(n + 1)) = S \cap (1..n)
      BY <2>4
    <3> QED
      BY <2>1, <2>3, <2>4, <3>1
  <2>5. CASE n + 1 \in S
    <3>1. S \cap (1..(n + 1)) = (S \cap (1..n)) \cup {n + 1}
      BY <2>5
    <3>2. S \cap (1..n) \in SUBSET Nat /\ \A i \in S \cap (1..n) : i < n + 1
      OBVIOUS
    <3>3. KeepsInOrder(Append(f[n], s[n + 1]), s, S \cap (1..(n + 1)))
      <4> HIDE DEF Good
      <4>1. n + 1 \in Nat
        OBVIOUS
      <4>2. KeepsInOrder(Append(f[n], s[n + 1]), s, (S \cap (1..n)) \cup {n + 1})
        BY <2>1, <2>2, <3>2, <4>1, AppendKeeps
      <4> QED
        BY <3>1, <4>2
    <3>4. Append(f[n], s[n + 1]) \in Seq(E)
      BY <2>1, <2>2
    <3> QED
      BY <2>3, <2>5, <3>3, <3>4
  <2> QED
    BY <2>4, <2>5
<1> HIDE DEF Good
<1>4. Nat \subseteq Good
  BY <1>2, <1>3, SetInduction
<1>5. ASSUME NEW n \in 0..Len(s) PROVE n \in Nat /\ n <= Len(s)
  BY <1>1
<1> QED
  BY <1>4, <1>5 DEF Good

\* What the walk returns: the parts at the given positions, in their order.
LEMMA CollectIs ==
    ASSUME NEW E, NEW s \in Seq(E), NEW S
    PROVE  /\ Collect(s, S) \in Seq(E)
           /\ KeepsInOrder(Collect(s, S), s, S \cap (1..Len(s)))
<1> DEFINE upto == CHOOSE f : f = [n \in 0..Len(s) |->
             IF n = 0 THEN <<>>
             ELSE IF n \in S THEN Append(f[n - 1], s[n]) ELSE f[n - 1]]
<1>1. upto = [n \in 0..Len(s) |->
          IF n = 0 THEN <<>>
          ELSE IF n \in S THEN Append(upto[n - 1], s[n]) ELSE upto[n - 1]]
  <2>1. Len(s) \in Nat
    BY LenProperties
  <2>2. \E f : f = [n \in 0..Len(s) |->
             IF n = 0 THEN <<>>
             ELSE IF n \in S THEN Append(f[n - 1], s[n]) ELSE f[n - 1]]
    <3> HIDE DEF upto
    <3> QED
      BY <2>1, LoopExists, Zenon
  <2> QED
    BY <2>2, Zenon
<1>2. Collect(s, S) = upto[Len(s)]
  BY DEF Collect
<1> HIDE DEF upto
<1>3. \A n \in 0..Len(s) : upto[n] = Turn(upto, s, S, n)
  BY <1>1, Zenon DEF Turn
<1>4. Len(s) \in 0..Len(s)
  BY LenProperties
<1>5. upto[Len(s)] \in Seq(E) /\ KeepsInOrder(upto[Len(s)], s, S \cap (1..Len(s)))
  BY <1>3, <1>4, LoopKeeps
<1> QED
  BY <1>2, <1>5

\* The positions that the text of a body is taken from.
TextFrom(body) == IF TextAt(body) # {} THEN TextAt(body) ELSE HtmlAt(body)

LEMMA BlockIs ==
    ASSUME NEW part \in Parts
    PROVE  BlockOf(part) \in TextBlocks /\ Renders(BlockOf(part), part)
<1>1. part.content \in SUBSET Pieces
  BY DEF Parts
<1>2. CASE part.type = "html"
  <2>1. BlockOf(part) = [stripped |-> TRUE, content |-> part.content \ {"rest", "foreign"}]
    BY <1>2 DEF BlockOf
  <2> QED
    BY <1>1, <1>2, <2>1 DEF Renders, TextBlocks
<1>3. CASE part.type # "html"
  <2>1. BlockOf(part) = [stripped |-> FALSE, content |-> part.content \ {"foreign"}]
    BY <1>3 DEF BlockOf
  <2> QED
    BY <1>1, <1>3, <2>1 DEF Renders, TextBlocks
<1> QED
  BY <1>2, <1>3

LEMMA PartsKept ==
    ASSUME NEW body \in Bodies
    PROVE  /\ Blocks(body) \in Seq(TextBlocks) /\ Attachments(body) \in Seq(Parts)
           /\ KeepsInOrder(Attachments(body), body, AttachedAt(body))
           /\ \E at \in Pairings(Blocks(body), TextFrom(body)) :
                 \A k \in DOMAIN at : Renders(Blocks(body)[k], body[at[k]])
<1>1. body \in Seq(Parts) /\ DOMAIN body = 1..Len(body)
  BY NameAssumption, LenProperties
<1>2. ASSUME NEW I \in SUBSET DOMAIN body
      PROVE  Collect(body, I) \in Seq(Parts) /\ KeepsInOrder(Collect(body, I), body, I)
  <2>1. I \cap (1..Len(body)) = I
    BY <1>1
  <2> QED
    BY <1>1, <2>1, CollectIs
<1>3. TextFrom(body) \in SUBSET DOMAIN body /\ AttachedAt(body) \in SUBSET DOMAIN body
  BY DEF TextFrom, TextAt, HtmlAt, AttachedAt
<1>4. PICK kept : kept = Collect(body, TextFrom(body))
  OBVIOUS
<1>5. kept \in Seq(Parts) /\ KeepsInOrder(kept, body, TextFrom(body))
  BY <1>2, <1>3, <1>4
<1>6. Blocks(body) = [k \in DOMAIN kept |-> BlockOf(kept[k])]
  BY <1>4 DEF Blocks, TextFrom
<1>7. \A k \in DOMAIN kept : kept[k] \in Parts
  BY <1>5, ElementOfSeq, LenProperties
<1>8. Blocks(body) \in Seq(TextBlocks) /\ DOMAIN Blocks(body) = DOMAIN kept
  <2>1. PICK n \in Nat : DOMAIN kept = 1..n
    BY <1>5, LenProperties
  <2>2. Blocks(body) \in [1..n -> TextBlocks]
    BY <1>6, <1>7, <2>1, BlockIs
  <2> QED
    BY <1>6, <2>1, <2>2, IsASeq
<1>9. \E at \in Pairings(Blocks(body), TextFrom(body)) :
         \A k \in DOMAIN at : Renders(Blocks(body)[k], body[at[k]])
  <2>1. PICK at \in Pairings(kept, TextFrom(body)) : \A k \in DOMAIN at : kept[k] = body[at[k]]
    BY <1>5 DEF KeepsInOrder
  <2>2. DOMAIN at = DOMAIN kept
    BY DEF Pairings
  <2>3. at \in Pairings(Blocks(body), TextFrom(body))
    BY <1>8, <2>1 DEF Pairings
  <2>4. ASSUME NEW k \in DOMAIN at PROVE Renders(Blocks(body)[k], body[at[k]])
    <3>1. Blocks(body)[k] = BlockOf(kept[k]) /\ kept[k] \in Parts
      BY <1>6, <1>7, <2>2
    <3>2. Renders(BlockOf(kept[k]), kept[k])
      BY <3>1, BlockIs
    <3> QED
      BY <2>1, <3>1, <3>2
  <2> QED
    BY <2>3, <2>4
<1> QED
  BY <1>2, <1>3, <1>8, <1>9 DEF Attachments

\* An attachment is never dropped, doubled or moved, in bodies of any number of
\* parts, nor is plain text that no disposition marks and that is not empty; HTML
\* is kept in its place where there is none.  Of a text that is kept no character
\* is lost that is in UTF-8, and of HTML none of the first 500.
THEOREM ContentKept == Spec => []ContentIsKept
<1>1. ASSUME NEW body \in Bodies
      PROVE  /\ TextFrom(body) \in SUBSET DOMAIN body
             /\ \A j, l \in TextFrom(body) :
                   body[j].type = body[l].type /\ body[j].content # {}
             /\ \A j \in Unmarked(body) : body[j].type = "text" => j \in TextFrom(body)
             /\ (\E j \in Unmarked(body) : body[j].type \in {"text", "html"})
                   => TextFrom(body) # {}
  <2>1. \A j \in Unmarked(body) : body[j].type = "text" => j \in TextAt(body)
    BY DEF Unmarked, TextAt, IsText
  <2>2. \A j \in Unmarked(body) : body[j].type = "html" => j \in HtmlAt(body)
    BY DEF Unmarked, HtmlAt
  <2>3. CASE TextAt(body) # {}
    <3>1. TextFrom(body) = TextAt(body)
      BY <2>3 DEF TextFrom
    <3> QED
      BY <2>1, <2>3, <3>1 DEF TextAt, IsText
  <2>4. CASE TextAt(body) = {}
    <3>1. TextFrom(body) = HtmlAt(body)
      BY <2>4 DEF TextFrom
    <3> QED
      BY <2>1, <2>2, <2>4, <3>1 DEF HtmlAt
  <2> QED
    BY <2>3, <2>4
<1>2. ASSUME IInv, NEW i \in DOMAIN mails
      PROVE  /\ mails[i].body \in Bodies
             /\ envelopes[i].blocks = Blocks(mails[i].body)
             /\ envelopes[i].attachments = Attachments(mails[i].body)
  <2>1. PICK m \in GoodMails : m = mails[i]
    BY <1>2, MailIsGood
  <2>2. envelopes[i] = Seal(m) /\ m.body \in Bodies
    BY <1>2, <2>1, MailIsGood DEF GoodMails, Posted
  <2>3. Seal(m).blocks = Blocks(m.body) /\ Seal(m).attachments = Attachments(m.body)
    BY DEF Seal
  <2> QED
    BY <2>1, <2>2, <2>3
<1>3. IInv => ContentIsKept
  <2> SUFFICES ASSUME IInv, NEW i \in DOMAIN mails
               PROVE  LET body == mails[i].body
                      IN  /\ \E at \in Pairings(envelopes[i].attachments, AttachedAt(body)) :
                                \A k \in DOMAIN at : envelopes[i].attachments[k] = body[at[k]]
                          /\ \E I \in SUBSET DOMAIN body :
                                /\ \E at \in Pairings(envelopes[i].blocks, I) :
                                      \A k \in DOMAIN at :
                                         Renders(envelopes[i].blocks[k], body[at[k]])
                                /\ \A j, l \in I :
                                      body[j].type = body[l].type /\ body[j].content # {}
                                /\ \A j \in Unmarked(body) : body[j].type = "text" => j \in I
                                /\ (\E j \in Unmarked(body) : body[j].type \in {"text", "html"})
                                      => I # {}
    BY DEF ContentIsKept
  <2> PICK body : body = mails[i].body
    OBVIOUS
  <2>1. /\ body \in Bodies /\ envelopes[i].blocks = Blocks(body)
        /\ envelopes[i].attachments = Attachments(body)
    BY <1>2
  <2>2. KeepsInOrder(Attachments(body), body, AttachedAt(body))
    BY <2>1, PartsKept
  <2>3. \E at \in Pairings(Blocks(body), TextFrom(body)) :
           \A k \in DOMAIN at : Renders(Blocks(body)[k], body[at[k]])
    BY <2>1, PartsKept
  <2>4. /\ TextFrom(body) \in SUBSET DOMAIN body
        /\ \A j, l \in TextFrom(body) :
              body[j].type = body[l].type /\ body[j].content # {}
        /\ \A j \in Unmarked(body) : body[j].type = "text" => j \in TextFrom(body)
        /\ (\E j \in Unmarked(body) : body[j].type \in {"text", "html"}) => TextFrom(body) # {}
    BY <1>1, <2>1
  <2> QED
    BY <2>1, <2>2, <2>3, <2>4 DEF KeepsInOrder
<1> QED
  BY Invariant, <1>3, PTL

\* The types of mails and envelopes.
THEOREM TypeCorrect == Spec => []TypeOK
<1>1. NameLists \subseteq Seq(Names)
  BY UsedNames, SeqMonotonic DEF NameLists
<1>2. ASSUME NEW mail \in GoodMails PROVE mail \in Mails /\ Seal(mail) \in Envelopes
  <2>1. /\ mail.from \in NameLists /\ mail.to \in Seq(NameLists) /\ mail.to # <<>>
        /\ Recipient(mail) \in Used /\ FirstDidOrHeader(mail.from) \in Used
        /\ SealKey(mail) \in KeyStrings
    BY GoodMailIs, SealKeyIs
  <2>2. mail.to \in Seq(Seq(Names)) /\ Head(mail.to) \in Seq(Names)
    BY <1>1, <2>1, HeadTailProperties
  <2>3. mail \in Posted
    BY DEF GoodMails
  <2>4. mail \in Mails
    BY <1>1, <2>2, <2>3 DEF Posted, Mails
  <2>5. Blocks(mail.body) \in Seq(TextBlocks) /\ Attachments(mail.body) \in Seq(Parts)
    BY <2>3, PartsKept DEF Posted
  <2>6. Seal(mail) \in Envelopes
    BY <2>1, <2>2, <2>5, UsedNames DEF Seal, Envelopes
  <2> QED
    BY <2>4, <2>6
<1>3. IInv => TypeOK
  <2> SUFFICES ASSUME IInv PROVE TypeOK
    OBVIOUS
  <2>1. mails \in Seq(Mails) /\ envelopes \in Seq(Envelopes)
    BY <1>2, SeqMonotonic DEF IInv
  <2>2. DOMAIN envelopes = 1..Len(mails)
    BY LenProperties DEF IInv
  <2> QED
    BY <2>1, <2>2 DEF IInv, TypeOK
<1> QED
  BY Invariant, <1>3, PTL

-----------------------------------------------------------------------------
\* An envelope is addressed to the recipient in the header of its mail exactly
\* if that one has a DID or no line that the mail quotes begins with one.
AddressedUnlessQuoted ==
    \A i \in DOMAIN mails :
        envelopes[i].recipient = Leads(mails[i])[1]
        <=> Leads(mails[i])[1].scheme = "did" \/ DidsIn(Leads(mails[i])) = {}

\* The condition under which AddressedToRecipient, which the code violates for
\* forwarded mail, does hold: only a recipient with a plain address loses its
\* mail to a DID that the body quotes.
THEOREM HeaderIsAddressed == Spec => []AddressedUnlessQuoted
<1>1. ASSUME IInv, NEW i \in DOMAIN mails
      PROVE  envelopes[i].recipient = Leads(mails[i])[1]
             <=> Leads(mails[i])[1].scheme = "did" \/ DidsIn(Leads(mails[i])) = {}
  <2>1. PICK m \in GoodMails : m = mails[i]
    BY <1>1, MailIsGood
  <2>2. PICK names : names = Leads(m)
    OBVIOUS
  <2>3. names \in Seq(Used) /\ names # <<>> /\ 1 \in DOMAIN names
    BY <2>2, GoodMailIs, LeadsAre
  <2>4. envelopes[i].recipient = FirstDidOrHeader(names)
    BY <1>1, <2>1, <2>2, MailIsGood, SealIs DEF Recipient
  <2>5. CASE DidsIn(names) = {}
    BY <2>1, <2>2, <2>3, <2>4, <2>5, FirstIsOne
  <2>6. CASE DidsIn(names) # {} /\ names[1].scheme # "did"
    BY <2>1, <2>2, <2>3, <2>4, <2>6, FirstIsOne
  <2>7. CASE names[1].scheme = "did"
    <3>1. 1 \in DidsIn(names) /\ DidsIn(names) \in SUBSET Nat /\ \A j \in DidsIn(names) : 1 <= j
      BY <2>3, <2>7 DEF DidsIn
    <3>2. \A k \in DidsIn(names) : (\A j \in DidsIn(names) : k <= j) => k = 1
      BY <3>1
    <3>3. (CHOOSE k \in DidsIn(names) : \A j \in DidsIn(names) : k <= j) = 1
      BY <3>1, <3>2
    <3>4. FirstDidOrHeader(names) = names[1]
      BY <3>1, <3>3 DEF FirstDidOrHeader
    <3> QED
      BY <2>1, <2>2, <2>4, <2>7, <3>4
  <2> QED
    BY <2>5, <2>6, <2>7
<1>2. IInv => AddressedUnlessQuoted
  BY <1>1 DEF AddressedUnlessQuoted
<1> QED
  BY Invariant, <1>2, PTL
=============================================================================
