---------------------------- MODULE DidResolver ----------------------------
(***************************************************************************)
(* The DID resolver with its cache (src/did_resolver.py).  A did:mx2 or a  *)
(* did:key is its own document; a did:web is fetched from its host, which  *)
(* replaces its document now and then and is not always reachable.         *)
(* resolve() runs to its end before the next call, but time passes, and    *)
(* the document may be replaced, while it fetches: its timeout is one of   *)
(* each socket operation and bounds no whole fetch.                        *)
(***************************************************************************)
EXTENDS Naturals, Sequences

CONSTANTS
    Dids,
    Method,     \* [Dids -> {"mx2", "key", "web", "other"}]
    Ttl,        \* ttl_seconds
    Local,      \* the document that a did:mx2 or a did:key is built into
    Fallback,   \* the document with the mock key
    Empty,      \* {}, or any other document that Python takes for false
    NoDoc,      \* None
    NoEntry,
    NoCall,
    MaxTime,    \* bound on the clock
    MaxVersions \* bound on the documents of a host

ASSUME ResolverAssumption ==
    /\ Method \in [Dids -> {"mx2", "key", "web", "other"}]
    /\ Ttl \in Nat
    /\ {Local, Fallback, Empty, NoDoc} \cap Nat = {}
    /\ Fallback \notin {Local, Empty, NoDoc}
    /\ Empty \notin {Local, NoDoc}
    /\ Local # NoDoc

VARIABLES
    now,        \* time.time()
    retired,    \* [Dids -> when its documents 0, 1, ... were replaced]
    cache,      \* DIDCache._cache, with when each document was asked and got
    call,       \* the fetch in progress
    answer      \* what resolve() returned last, with when it was asked and got

drVars == <<now, retired, cache, call, answer>>

-----------------------------------------------------------------------------
DRInit ==
    /\ now = 0
    /\ retired = [d \in Dids |-> <<>>]
    /\ cache = [d \in Dids |-> NoEntry]
    /\ call = NoCall
    /\ answer = NoEntry

Tick ==
    /\ now < MaxTime
    /\ now' = now + 1
    /\ UNCHANGED <<retired, cache, call, answer>>

\* The host replaces its document: keys are rotated.
Rotate(d) ==
    /\ Method[d] = "web"
    /\ Len(retired[d]) < MaxVersions
    /\ retired' = [retired EXCEPT ![d] = Append(@, now)]
    /\ UNCHANGED <<now, cache, call, answer>>

-----------------------------------------------------------------------------
\* Variant: an entry is good at its expiry.
LiveAtExpiry(d) == cache[d] # NoEntry /\ now <= cache[d].expiry

\* DIDCache.get returns an entry; if not, it has deleted it.
Live(d) == cache[d] # NoEntry /\ now < cache[d].expiry

\* Variant: an empty document is cached.
CachedAlways(d, doc, asked) ==
    [cache EXCEPT ![d] = [doc |-> doc, asked |-> asked, got |-> now, expiry |-> now + Ttl]]

\* DIDCache.set, if the document is one.
Cached(d, doc, asked) ==
    [cache EXCEPT ![d] =
        IF doc \in {Empty, NoDoc} THEN NoEntry
        ELSE [doc |-> doc, asked |-> asked, got |-> now, expiry |-> now + Ttl]]

Answer(d, doc, asked, got) ==
    [did |-> d, doc |-> doc, asked |-> asked, got |-> got, at |-> now]

Hit(d) ==
    /\ call = NoCall
    /\ Live(d)
    /\ answer' = Answer(d, cache[d].doc, cache[d].asked, cache[d].got)
    /\ UNCHANGED <<now, retired, cache, call>>

\* did:mx2 and did:key; a method that is not known gets None.
Build(d) ==
    LET doc == IF Method[d] = "other" THEN NoDoc ELSE Local IN
    /\ call = NoCall
    /\ ~Live(d)
    /\ Method[d] # "web"
    /\ cache' = Cached(d, doc, now)
    /\ answer' = Answer(d, doc, now, now)
    /\ UNCHANGED <<now, retired, call>>

Ask(d) ==
    /\ call = NoCall
    /\ ~Live(d)
    /\ Method[d] = "web"
    /\ cache' = [cache EXCEPT ![d] = NoEntry]
    /\ call' = [did |-> d, asked |-> now, doc |-> NoDoc]
    /\ UNCHANGED <<now, retired, answer>>

\* The host serves what it has now, which may be an empty document, or the fetch
\* fails: no connection, a bad certificate, an error status, no JSON.
Serves(d) == {Len(retired[d]), Empty, Fallback}

Served ==
    /\ call # NoCall
    /\ call.doc = NoDoc
    /\ \E doc \in Serves(call.did) : call' = [call EXCEPT !.doc = doc]
    /\ UNCHANGED <<now, retired, cache, answer>>

\* The fetch is over; the entry's time to live begins.
Return ==
    /\ call # NoCall
    /\ call.doc # NoDoc
    /\ cache' = Cached(call.did, call.doc, call.asked)
    /\ answer' = Answer(call.did, call.doc, call.asked, now)
    /\ call' = NoCall
    /\ UNCHANGED <<now, retired>>

\* DIDCache.clear.
Clear ==
    /\ call = NoCall
    /\ cache' = [d \in Dids |-> NoEntry]
    /\ UNCHANGED <<now, retired, call, answer>>

\* The process that has the resolver ends and is started again.
Restart ==
    /\ cache' = [d \in Dids |-> NoEntry]
    /\ call' = NoCall
    /\ UNCHANGED <<now, retired, answer>>

World == Tick \/ \E d \in Dids : Rotate(d)

Resolve ==
    \/ \E d \in Dids : Hit(d) \/ Build(d) \/ Ask(d)
    \/ Served
    \/ Return
    \/ Clear

DRNext == World \/ Resolve \/ Restart

DRSpec == DRInit /\ [][DRNext]_drVars
-----------------------------------------------------------------------------
Docs == Nat \cup {Local, Fallback, Empty}

Entries == [doc : Docs \ {Empty}, asked : Nat, got : Nat, expiry : Nat]

Calls == [did : Dids, asked : Nat, doc : Docs \cup {NoDoc}]

Answers == [did : Dids, doc : Docs \cup {NoDoc}, asked : Nat, got : Nat, at : Nat]

DRTypeOK ==
    /\ now \in Nat
    /\ retired \in [Dids -> Seq(Nat)]
    /\ cache \in [Dids -> Entries \cup {NoEntry}]
    /\ call \in Calls \cup {NoCall}
    /\ answer \in Answers \cup {NoEntry}

\* Document v was its host's at some moment between the two.
CurrentBetween(d, v, from, to) ==
    /\ v \in 0..Len(retired[d])
    /\ v > 0 => retired[d][v] <= to
    /\ v < Len(retired[d]) => retired[d][v + 1] >= from

\* What resolve() answers for a did:web comes from a fetch that ended less than
\* the TTL ago (or just now), whatever it was asked meanwhile and however long
\* the fetch took: a real document was its host's during that fetch, the
\* fallback says that it failed, and an empty one is never answered from memory.
\* No document of one method is answered for another.
AnswerIsRecent ==
    answer # NoEntry =>
        /\ answer.asked <= answer.got
        /\ answer.at = answer.got \/ answer.at < answer.got + Ttl
        /\ answer.doc \in Nat => CurrentBetween(answer.did, answer.doc, answer.asked, answer.got)
        /\ answer.doc = Empty => answer.at = answer.got
        /\ answer.doc \in Nat \cup {Fallback, Empty} <=> Method[answer.did] = "web"
=============================================================================
