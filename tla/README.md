# A TLA+ model of the MX2 gateway daemon

This directory models the reference daemon of MX2 (Mail eXchange 2.0): the
Python program under `src/` that takes legacy mail, grades its sender, encrypts
it into an MX2 envelope, and quarantines what it does not trust. The modules
here are checked with TLC on small instances and, in all but liveness, proved with
TLAPS for every value of the constants. Paths below are relative to the
repository's root, whose package is `src/`.

## 1. Inventory of the system

| Component | State it keeps | Operations | Who uses it |
| --- | --- | --- | --- |
| `src/storage.py`, `MX2StorageEngine` | SQLite tables `quarantine_queue`, `whitelists`, `social_graph`, `cas_index` | `quarantine_message`, `get_holding_queue`, `approve_quarantined_sender`, `reject_quarantined_sender`, `add_whitelist`, `is_whitelisted`, `record_cas_entry` | the anti-spam engine |
| `src/anti_spam.py`, `MX2AntiSpamEngine` | `quota_history` (memory), contacts, a queue and a whitelist in memory when there is no storage engine | `record_message`, `get_hourly_count`, `verify_vouch_token`, `evaluate_trust_grade`, `verify_proof_of_work`, and the three queue operations | the daemon |
| `src/web_server.py` | none of its own; one storage, anti-spam, CAS, metrics object per process | 13 POST endpoints, `/metrics`, `/admin`, `/health` | `mx2ctl.py`, the admin page, the SMTP proxy |
| `src/cas.py`, `MX2CASEngine` | one file per SHA-256 under `storage/cas` | `write`, `read` | the daemon and, through the gateway, the SMTP proxy |
| `src/gateway.py`, `BilingualGateway` | none | `translate_smtp_to_mx2`, `encrypt_payload`, `decrypt_payload`, `generate_delivery_receipt`, `negotiate_capabilities`, key parsing | the daemon and the SMTP proxy |
| `src/legacy_proxy.py` | one SMTP session per connection (`in_data_mode`, `data_buffer`) | the SMTP and IMAP command loops, `_post_to_gateway` | mail clients |
| `src/did_resolver.py` | a TTL cache of DID documents | `resolve`, `get`, `set`, `clear` | `mx2ctl.py resolve`; constructed, not called, by the daemon |
| `src/dns_resolver.py` | none | `resolve_domain_key`, `resolve_gateway_srv`, `verify_dnssec_chain` | `mx2ctl.py resolve` |
| `src/tls_manager.py` | a key file and a certificate file, ACME challenges | `ensure_self_signed_cert`, `create_ssl_context`, the ACME hooks | constructed, not called, by the daemon |
| `src/metrics.py` | four counters under a lock | increments, `export_prometheus_metrics` | the daemon (one counter) |
| `src/logger.py`, `src/web_ui.py`, `mx2ctl.py`, `run_sandbox.py` | none | formatting, a page, a CLI, a demonstration | the operator |

### How a mail travels

A client posts a raw mail to `/api/translate`. The handler takes the sender and
the recipient from the header lines, **grades** the sender (signature flag,
whitelist, reputation, vouching token, contacts), **counts** the mails of the
pair (sender domain, recipient domain) in the last hour and refuses the request
with 429 at the quota, **translates** the mail into an envelope, **records** it
in the history of the quota, **stores** it in the quarantine table if its grade
is E, and **answers** with the destination and the envelope. An operator lists
the queue and approves or rejects a message; approving whitelists the domain
and the address of its sender.

### What is hard about it

* **Atomicity and crashes.** An approval is three commits on three
  connections; a request is five steps, two of which can fail after the
  previous ones took effect; the whitelist survives a restart and the quota
  does not.
* **Concurrency.** The daemon serves one request at a time (`HTTPServer`, not
  `ThreadingHTTPServer`), so the storage engine, documented as thread-safe, is
  never tested by concurrent callers. The CAS directory *is* shared by two
  processes, since the SMTP proxy translates every mail itself before it posts
  it.
* **Time.** The count is read before the translation, the record is written
  after it, and the history is pruned when it is read.
* **Order of checks.** Grading consults four sources; only one order is right.
* **Swallowed errors and timeouts** in the SMTP proxy: its post blocks every
  session, gives up after three seconds on a request that the daemon still
  serves, and is answered 250 whatever became of it.
* **Two searches of one mail.** The daemon grades the last `From:` and `To:` line
  of the raw text and charges what follows the last `@` of each, so the last
  recipient of a list; the gateway seals for the first DID after a `To:` anywhere
  in the text, or else for the first recipient of the list; and the key comes from the DID, the caller or a default; a mail
  program that forwards a mail puts the old lines into the new body.
* **Keys that parse whatever they are.** A string that is no key is hashed into
  one, so a wrong key never fails where it is used, only where it is opened.
* **Stale cache entries** in the DID resolver, whose fetch may take any time while
  the host changes its document, and **two files written in place** by every
  process that does not find both in the TLS manager.

`PROJECT.json` lists each hazard at its line with the properties that cover it.

### What makes each component correct

* Storage: an undecided mail is never lost, a decided one never comes back;
  release implies that its identities are durably trusted; a decision is
  reported once.
* Quota: no hour holds more than the limit; nobody is refused below it.
* CAS: a file nobody is writing holds its content; a stored content stays.
* Daemon: what each client was told agrees with the tables and the quota.
* Proxy: mails are not mixed, cut, reordered or repeated, and no client waits
  for ever.
* Gateway: a mail opens for the recipient it names and for nobody else, with the
  content it came with; a forward is graded and charged as the mail it forwards.
* Resolver: no answer is older than the TTL, however it was fetched.
* TLS manager: the two files belong together, and never change once used.

## 2. The modules

| Module | Models | Kind |
| --- | --- | --- |
| `QuarantineQueue` | what the quarantine promises, with no tables or callers | abstract specification |
| `StorageEngine` | `MX2StorageEngine`, statement by statement, any number of callers | component; implements `QuarantineQueue` |
| `HourlyQuota` | what the quota promises, with no pruned history and no step between the count and the record | abstract specification |
| `RateLimiter` | `get_hourly_count`, `record_message` and the request around them | component; implements `HourlyQuota` |
| `CASEngine` | `MX2CASEngine.write`, step by step, by several processes | component |
| `Daemon` | `_handle_translate`, `_handle_queue_approve`, `_handle_queue_reject`, grading | composition of `StorageEngine` (one client) and `RateLimiter` |
| `SmtpProxy` | `MX2LegacySMTPProxy.handle_client` for several sessions, `_post_to_gateway`, the daemon's listen queue | component |
| `Envelope` | `translate_smtp_to_mx2`, the key parsers, `decrypt_payload`, what `_handle_translate` and the proxy take from a mail and post | component, with its users |
| `DidResolver` | `DIDCache` and `DIDResolver.resolve`, with a clock and hosts that rotate keys | component |
| `TlsManager` | `ensure_self_signed_cert` and `create_ssl_context`, one file operation a step, by several processes | component |
| `MC...` | instances for TLC | |
| `..._proofs` | theorems | |

### StorageEngine

`queue` and `whitelist` are the rows of the two tables, `frame[c]` the local
state of a caller inside `approve_quarantined_sender` or
`reject_quarantined_sender`. One action is one commit, because that is the unit
SQLite makes atomic: `SelectQuarantined` is the SELECT, `AddDomain` and
`AddSender` the two calls of `add_whitelist`, each with its own connection,
`DeleteApproved` the DELETE, whose row count the code does not look at, and
`Return` the value reaching the caller. `RejectQuarantined` is one transaction
and does look at the row count. `Abort` is an exception of `sqlite3` or the end
of the process at any of these points; nothing is rolled back but the statement
that failed. `fate` and `answers` are history variables: what became of each
mail, and what callers were told.

A mail is identified with its message id. The id is the first 12 characters of
an AES-GCM ciphertext under a fresh key, so the model takes ids to be distinct;
with equal ids, INSERT OR REPLACE would replace the earlier mail.

### RateLimiter

`history` is `quota_history`: one set of entries per pair, pruned when it is
counted. `sent` is the same log unpruned, so that the quota can be stated about
every hour and not only about what pruning left. `stage` says how far the
request of a mail came. The code keeps timestamps in a list, in which two equal
ones count twice; entries carry their mail, so a set counts the same.

`HourlyQuota` has neither `history` nor stages between: a mail is sent in one
step, if fewer than the limit were sent in the hour that ends there. That the
limiter implements it (`QuotaSpec`, with `sent` as the log and a mail that is
counted and not yet recorded taken as new) says that nothing can come between the
count and the record that makes the count stale, as long as one request is served
at a time; a second request beside the first (the mutant `AdmitAlongside`) breaks it.

### CASEngine

A file is the set of its chunks. `Miss` is `os.path.exists` answering no,
`Open` is `open(path, "wb")`, which empties a file that appeared in between,
`WriteChunk` is what reaches the kernel, `Return` the end of the `with` block,
`Fail` a write that dies. A writer continues at its own offset, so a file that
was emptied under it would have a hole.

### Daemon

The daemon's variables are those of the two components, the request in progress
(`handler`) and what each client was told (`status`). Every action of a request
is a step of the store, of the limiter or of neither, so that the daemon's
behaviours are, projected, behaviours of both (`StoreSpec`, `LimiterSpec`).
A reply may be lost: the client hung up, and what was done stays done.
`Restart` is the container's `restart: unless-stopped`: tables and clock stay,
history and request go. Signature validity is an input of the request (the code
takes the caller's word for it), and so are the vouching token and the contact
relation.

`late` and `approved` are history variables: the mails that came with a token that
had expired by then, and the mails that an operator set out to approve. With them
"somebody speaks for this mail" (`SpokenFor`) can be said of a reply that is sent
long after the grading, and an approval can be told from a mail that was held or
rejected and has the same sender.

### SmtpProxy

`session[s]` is the state of one `handle_client`: where it is, `data` meaning
`in_data_mode`, and its `data_buffer`. `client[s]` is the conforming client on
the other side, with the mails it means to send; `Step` is one turn of the loop,
which reads the next line the client sends. What a client sends ahead waits in
its socket and is read in order, so nothing is lost by reading a line as it is
sent. While a session is `posting` nothing is read of any session (`LoopFree`),
because `urlopen` blocks the event loop. `PostEnds` is its return, for whatever
reason: the code does not tell an answer from a refusal or a timeout, and the
request stays in the daemon's listen queue. `Serve` is the daemon, which takes
requests one at a time and answers with an envelope (200) or an error (400, 429,
500); `Daemon` says which. `CutLine` is a connection that is lost when a dot of
the next line has arrived: `readline` then returns the dot, and the dot ends the
mail.

Lines are those on the wire. The code does not undo the client's dot-stuffing,
so "whole" means as the client sent it, with the stuffed dots. The commands that
are answered and change nothing (HELO, MAIL FROM, RCPT TO and any other) are not
actions.

### Envelope

Cryptography is symbolic. A key string is a record of its form (raw X25519, its
DER, raw Ed25519, its DER, a seed, a mail address) and its owner; a key is what
the parsers of `gateway.py` make of it: `[holder |-> u]` if the string is one of
u's in a form that the parser reads, `[digest |-> s]` if a private string was
hashed, `[point |-> k]` if a public one was, which nobody has the private key of.
`Opens` is `decrypt_payload` returning, that is, the private key matching
`sealedTo`; the mock key pair, which is in the source, is everybody's.

A mail is the list of its `From:` lines and the list of its `To:` lines, the
header's first and then those that its body quotes, a body of MIME parts and the
posted key. `Graded` is what `web_server.py` takes: the last `From:` line as the
sender, the last `To:` line as the contact, and of that line what follows its last
`@` as the domain that is charged (`Charged`). `Recipient` and `sender` are what
`gateway.py` takes (the first DID anywhere, else the header), `recipients` is the
whole list of the header, `SealKey` says which key wins.

A part has content in up to three `Pieces`: its first 500 characters, characters
after those, and bytes that are not UTF-8; an empty part has none. `Blocks` and
`Attachments` are what the MIME walk collects (`Collect` is the loop, a recursive
function over the parts that appends those it takes) and `BlockOf` what becomes of
one part: bytes that are not UTF-8 are dropped, HTML is cut to its first piece and
marked as stripped. An empty text part is not kept, and with no text part kept the
HTML parts are.

`mails`, `envelopes` and `readers` are the world around the gateway, which itself
keeps nothing: what was posted, what was answered, and who has opened what. `Post`
is a client that posts the key of its first recipient or none; `PostViaProxy` what
`_post_to_gateway` sends; `Decrypt` is `/api/decrypt`. Whoever has opened a mail
may forward it (`Forwards`), which is how its old lines get into a new body, if the
body has plain text to quote them in (`Quotes`). `origin` is a history variable:
which mail a chain of forwards began with. Users, names and forwarding are the
environment and marked external in the map.

### DidResolver and TlsManager

`retired[d]` are the times at which the host of a did:web replaced its document,
so the number of the current one is its length and "was current between" can be
asked of any of them. A fetch is three steps, `Ask`, `Served` and `Return`, and
the clock and the host may move between any two: urllib's timeout is one of each
socket operation. `Hit` and `Build` (did:mx2, did:key, unknown methods) are one
step, since nothing in between waits. The record of an entry and of an answer
says when its document was asked for and got, which the code does not store; only
`expiry` is the code's.

`keyFile` and `certFile` hold `Absent`, `Broken` (opened and not yet written
whole) or the number of a key. A process that does not find both generates a key
and goes through `OpenKey`, `WriteKey`, `OpenCert`, `WriteCert` and `Load`; it may
`Die` anywhere. `load_cert_chain` is taken as one step. `torn` and `raced` are
history variables: a process died between opening and writing the certificate;
two generated at once. The code has no answer to either (a broken certificate is
found and never replaced, and nothing locks), and the two properties say that
there is no third way to a bad pair.

A caller that names the two files itself (`Given`) has only the certificate looked
for. The files elsewhere that such a caller may name are not modelled.

The daemon constructs a resolver and a TLS manager and calls neither, so there is
no composition to model. `MCResolverTls` puts the two side by side for TLC and
checks each while the other has not begun.

## 3. The runs

| Run | Instance | What it shows |
| --- | --- | --- |
| `storage` | two callers, three mails, two of one sender and one with an empty `From:` | no interleaving or crash loses, duplicates or prematurely releases a mail; `StorageEngine` implements `QuarantineQueue` |
| `storage_race` | the same | **violated**: two callers are both told they decided on a message (`OneRelease`) |
| `storage_half_approval` | one caller | **violated**: an approval that dies leaves a domain trusted with nothing released (`ApprovalIsAtomic`) |
| `limiter` | five mails, two pairs, quota 2, hour of 2 ticks, clock to 4, one restart | the window never overflows and nobody is refused early; `RateLimiter` implements `HourlyQuota` |
| `daemon` | five mails, of which a behaviour has three: two spoofed ones of one sender and a signed one of their domain, or a spoofed and two with an empty `From:`; quota 1, hour of 1 tick, one restart | what is graded before and after an approval, whole or cut short, of the same sender or domain, on a token that is good, expired or unsigned; the daemon's answers agree with its state; it implements `StorageEngine` with one client and `RateLimiter` |
| `cas` | two processes, two contents of two chunks | concurrent writes leave a whole file unless one died; acknowledged content becomes whole |
| `cas_dead_write` | one process, one content | **violated**: after a write died, the retry is acknowledged for a truncated file |
| `proxy` | a client with two mails of two lines together, each `DATA` or a line that strips to a dot, and one with a mail of one line that begins with a dot | what is posted is a run of lines of one mail; a mail with no line that strips to a dot is posted whole and after its end, unless the connection is lost behind a dot; the daemon gets them in order and once; every client is answered or cut off |
| `proxy_accepted` | the same | **violated**: 250 for a mail the daemon never got |
| `envelope` | three users (a DID; an address and a DER key; an address and, as in the repository's zone file, an Ed25519 key), a mail and two forwards, three lists, three bodies | who can open a mail, its forwards included; under which name and for whom they are graded and charged; what of a body is kept |
| `envelope_forward` | the same | **violated**: a forward is addressed to the recipient of the mail it quotes |
| `resolver_tls` | a did:web that rotates twice, a did:mx2, TTL 2, clock to 3; three processes and three keys | no answer is older than the TTL; a pair of files that is taken for good matches, and never changes |

The five violated runs are findings; `PROJECT.json` quotes the lines of the
repository each contradicts. In short: the row count of the DELETE in an
approval is ignored; an approval is not atomic although the module says so; a
partial file is taken for a stored one; the proxy accepts mail that is not
translated; and a forwarded mail is sealed to the recipient of the mail it
quotes.

### Bounds and why they are enough

* Two callers: every conflict in `StorageEngine` is between an approval and one
  other call. Two mails of one sender make approvals share identities; the
  third, with an empty sender, reaches the early return of `add_whitelist`.
* The limiter's clock runs over two full windows, so that an entry enters,
  fills, leaves and makes room again; the quota of two and four mails of one
  pair let a window be full with entries of different ages. One restart shows a
  history emptied between a count and a record.
* The daemon's quota is one and its hour one tick, the least with which a second
  mail of a pair is refused, or admitted after the hour.  Its token expires at
  the first tick, so one mail can be graded B, then D, or A after an approval. The
  second spoofed mail has the sender and the domain of the first, so it is graded
  with its sender or its domain whitelisted, and has a good token of its own: it is
  still to be quarantined. All five mails in one behaviour are too many for TLC;
  the constraint `ThreeMails` keeps apart the two that have to do only with an
  empty `From:` and the two that share a domain with the first.
* The proxy's first client has two mails, the least with which a buffer that is
  not cleared, a request overtaken by the next or a session that is out of step
  shows; two lines in all, in one mail or one in each, let a mail be cut and its
  rest hold a command. The second client interleaves with it and brings the
  stuffed line.
* `Envelope`: one new mail, which may be forwarded, and the forward forwarded again
  or the mail forwarded twice. New mails have nothing to do with each other. The three
  users have between them every form of name and of key, the lists one with a DID
  behind an address, which is neither sealed for nor cut off the charged domain, and
  the three bodies every branch of the MIME walk: foreign
  bytes, long HTML beside an empty text, text kept although it decodes to nothing.
* `resolver_tls`: an entry lives for 2 and the clock runs to 3, so that an
  answer comes from a cache that is fresh, old and expired, and a fetch may last
  longer than an entry; two rotations let a document be replaced before and during
  a fetch. Three processes and three keys give a race of two and a third that finds
  what they leave. Larger instances are covered by the proofs.
* Two chunks are the least with which a file can be neither empty nor whole.

The bounds appear in the modules as `MaxTime`, `MaxBoots`, `NewLimit`, `MailLimit`,
`LineLimit` (the lines of one client, all mails together), `MaxVersions` and
`MaxKeys`, and are only in the guards of `Tick`, `Restart`, `Send`, `Fresh`, `Post`,
`PostViaProxy`, `Rotate` and `Generate`. The theorems hold for every value of them.

### Deadlock

`CHECK_DEADLOCK FALSE` is set where the bounds let the system come to rest: the
clock has run out, every mail is decided, every session closed. `cas` checks for deadlock.

## 4. Fairness

Two modules state any. `CASEngine`: `FairSpec` gives weak fairness to each process's
`WriteStep`, since a process inside `write()` neither waits for another nor
blocks on a lock; it goes on until it returns or dies (`Fail` is never forced).
With it, `AckedBecomesWhole` says that an acknowledged content is whole sooner
or later.

`SmtpProxy`: weak fairness of `PostEnds`, since `urlopen` has a timeout of three
seconds, and strong fairness of each session's `Read`, since asyncio runs ready
callbacks in the order in which they became ready: a session with a line to read
is read after a post of another, although every post makes reading impossible
for a while. That includes that the client goes on; one that stops is outside
`MailIsAnswered`. Nothing is assumed of the daemon: it may hang for ever.

No other module needs fairness: what the other properties promise is
that nothing bad happens whenever the client or the operator chooses to stop.

## 5. What is proved

`tlapm` checks every theorem below from the assumptions named in the modules:
that `SenderOf`, `DomainOf` and `PairOf` are functions of the right type, that
`NoMail` is not a mail, that bounds are naturals and `K` is positive.

* `StorageEngine_proofs`, for any number of callers. The four safety properties
  are not inductive: what is missing is what a call in the middle has already
  committed. `InProgress` says that before the DELETE the domain, then the
  sender, are in the whitelist and that the message was once held;
  `RejectInProgress` says that two callers are never both about to be told
  "discarded" of one message. `Refinement` shows that every step is a step of
  `QuarantineQueue` or a stutter: an `AddSender` is `Trust`, a `DeleteApproved`
  is `Release` if the row is still there and a stutter otherwise. `ReleaseIsOne`
  adds the assumption that there is one caller, `ApprovalIsAtomicIfAlone` that and
  that no call dies (`[][~Abort]`): exactly what the two violated runs drop. Its
  invariant, `TrustIsOwed`, gives every whitelisted identity a released mail or the
  approval that is about to release one.
* `RateLimiter_proofs`. `WindowQuota` speaks of every hour of the unpruned log;
  the invariant says that the pruned history and the log agree on the hour that
  ends now, that a pair somebody has been admitted for has room for one more,
  and that entries lie in the past. A new entry then changes only windows that
  end now or later, and each such window is contained in the one that ends now.
  `Refinement`: a `Record` is the abstract `Send`, because the room found by the
  count is still there, and every other step is a refusal, a failure, a tick, a
  restart or a stutter.
* `CASEngine_proofs`. The invariant says that each chunk a file lacks is still
  to come: somebody will open the file, or is writing and has not reached it,
  unless a write died. `AckedFileIsComing` (an acknowledged file is whole or some
  process is filling it) and `CallsEnd` (a `write()` has at most `K + 3` steps, and
  nobody else's step adds one) are the two safety halves of `AckedBecomesWhole`;
  what is left to TLC is that weak fairness makes those steps happen.
  `AckedIsWholeIfAlone` states when the violated `AckedIsWhole` does hold: one
  process and no dead write.
* `Daemon_proofs`. All the daemon's properties, over an invariant that follows
  the one request and the one queue call in progress. `DrivesStore` and
  `DrivesLimiter` show that the daemon implements both components'
  specifications. The module instantiates the components' proof modules
  (`StoreProofs`, `LimiterProofs`), so what they prove holds in the daemon without a
  second proof: part of its types, `ReleaseIsOne` (there is one handler), `QuotaHolds`, and that it
  implements the abstract quarantine and quota (`KeepsQuarantine`, `KeepsQuota`).
  `ApprovalIsAtomicUnlessCut` is the condition for an atomic approval: no queue call
  fails and no restart comes in the middle of one. `ChargedExactlyOnce` rests on
  `ChargedOnce`, the log of the quota against the answers. `ApprovalLasts` and
  `InboxHasReason` rest on `Trust`, which is inductive relative to it: each
  whitelisted identity is one of an approved mail, and neither the whitelist nor
  what speaks for a mail can change between its grading and its answer.
* `SmtpProxy_proofs`, for any number of clients, mails and lines. What the three
  safety properties lack is where a client and its session are with each other
  inside a mail: `Synced` says that a session that buffers holds the end of what
  its client has sent of the mail, all of it if no line strips to a dot. `Good`
  says of each request ever sent that it is a run of its mail's lines and, if the
  mail is plain, whole; a mail that its client still writes grows under the
  request (`MailGrows`), which is sound because such a request can only be of a
  mail that is not plain. `Ordered` speaks of the served requests followed by
  those in the queue. `AcceptedIsTranslatedUnlessSwallowed` states when the violated
  `AcceptedIsTranslated` holds: as long as no post misses the daemon, no request
  is lost with it and none is answered with an error (`Swallowed`).
* `Envelope_proofs`, for any users, names, keys, mails and chains of forwards,
  from the assumptions that users have names and X25519 keys of their own and
  that the mock strings are nobody's. The invariant says that each envelope is the
  seal of its mail, that all names in a mail are users', that its key is none,
  the first recipient's or the proxy's, and that it has as many `From:` as `To:`
  lines; the least DID of `FirstDidOrHeader` exists since the natural numbers are
  well-founded. `GradesAsOriginal` needs `Originals`: the
  last `From:` and `To:` lines of a mail are those of its origin, for a forward puts
  its own before what it quotes. `ContentKept` and `TypeCorrect` need what the recursive function
  inside `Collect` is, for bodies of any length. The library's induction rule takes
  an operator, which no prover can instantiate; the proofs use induction over a *set*
  of naturals instead (`SetInduction`, from the well-foundedness of `<`): the set of
  the lengths for which the claim holds. `HeaderIsAddressed` says exactly when the
  violated `AddressedToRecipient` holds.
* `DidResolver_proofs`, for any DIDs, documents and TTL. The document of each entry,
  fetch and answer was its host's between the two times it is recorded with.
* `TlsManager_proofs`, for any number of processes and keys. Unless `torn` or
  `raced`: at most one process generates, there is no certificate until it opens
  it, and every loaded context is of the pair that is there.

Only model-checked: `AckedBecomesWhole` and `MailIsAnswered`, since liveness under
fairness is beyond tlapm. The five violated properties are, of course, not
theorems; for each of them a theorem above says under which condition it holds
(`ReleaseIsOne`, `ApprovalIsAtomicIfAlone`, `AckedIsWholeIfAlone`,
`AcceptedIsTranslatedUnlessSwallowed`, `HeaderIsAddressed`), that is, what the
repository's claims tacitly assume.

## 6. What the model leaves out

* Message contents, MIME parsing, JSON, logging, wording of errors.
* `social_graph` and `cas_index`: nothing reads or writes them but the tests.
* The IMAP side of the proxy, which answers OK to every command and keeps no
  state, and lines over the 64 KiB at which `readline` raises and the session
  ends without a reply.
* A wall clock that is set back; message ids that collide.
* SQLite itself: a commit is taken to be atomic and durable, and a statement
  that fails to have changed nothing.
* The endpoints `list`, `pow`, `vouch` and `trust`, which read or compute and
  change nothing, and `revoke`, which answers without doing anything.
* Delivery receipts and the negotiation of capabilities (`receipt`, `negotiate`):
  functions of one request that no later one reads.
* Of a mail: header lines that are folded or missing (the daemon's handler then
  takes `alice@example.com` and `bob@example.com`, the gateway an empty name), the
  `Cc:` and `Bcc:` lines, which the gateway adds to the list of recipients, the
  subject and the features, messages attached as `message/rfc822`, and public keys
  of low order. A part's charset does not matter: the code decodes all as UTF-8.
* `MX2CASEngine.read`, which changes nothing.
* The queue and the whitelist in the memory of `anti_spam.py`: the daemon always
  has a storage engine, so nothing reaches them but a test.
* `dns_resolver.py`: one query and one parse without state, in which everything
  depends on the spelling of a record.
* The ACME challenges, a dictionary that nothing reads, the expiry of
  certificates, and the reads inside `load_cert_chain`, which is one step.
* Metrics, logger, admin page, command line: counters, formatting, a page and
  requests, with no state that the rest of the system depends on.

## 7. Plan

Done, in this order: storage, quota, CAS, daemon; the proxy; envelope, resolver
and TLS manager; the proofs of all of them, of every safety property that a run
checks, and of the conditions for the violated ones. What is left, most useful first:

1. The composition of `SmtpProxy` and `Daemon`: a mail posted through the proxy
   carries no signature flag, so it counts as signed and is never quarantined.
2. The in-memory queue of `anti_spam.py` as a second implementation of
   `QuarantineQueue`.
3. Pure algorithms against reference definitions: leading zero bits of a proof of
   work, the TXT record of `dns_resolver.py`.
4. The metrics counters under their lock.
5. Receipts and negotiation, once a request of the daemon reads what another left.
