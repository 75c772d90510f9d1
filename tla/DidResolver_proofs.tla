------------------------- MODULE DidResolver_proofs -------------------------
(***************************************************************************)
(* What resolve() answers, for every number of DIDs and documents, every TTL*)
(* and every length of a fetch.  A document once current between two moments*)
(* stays so, whatever its host does later, so it is enough to record with  *)
(* each entry, fetch and answer the moments it is known to be current for. *)
(***************************************************************************)
EXTENDS DidResolver, SequenceTheorems, TLAPS

\* What a document was when it was got, of a fetch asked and got at these times.
Recent(d, doc, asked, got) ==
    /\ asked <= got
    /\ got <= now
    /\ doc \in Nat => CurrentBetween(d, doc, asked, got)
    /\ doc \in Nat \cup {Fallback, Empty} <=> Method[d] = "web"

GoodEntries(d) ==
    {e \in Entries : Recent(d, e.doc, e.asked, e.got) /\ e.expiry = e.got + Ttl}

GoodCalls ==
    {c \in Calls :
        /\ Method[c.did] = "web"
        /\ c.doc \in Nat \cup {Fallback, Empty, NoDoc}
        /\ c.asked <= now
        /\ c.doc \in Nat => CurrentBetween(c.did, c.doc, c.asked, now)}

GoodAnswers ==
    {a \in Answers :
        /\ Recent(a.did, a.doc, a.asked, a.got)
        /\ a.at = a.got \/ a.at < a.got + Ttl
        /\ a.doc = Empty => a.at = a.got}

RetiredInv == \A d \in Dids : \A i \in DOMAIN retired[d] : retired[d][i] <= now

DRInv ==
    /\ DRTypeOK
    /\ \A d \in Dids : cache[d] \in GoodEntries(d) \cup {NoEntry}
    /\ call \in GoodCalls \cup {NoCall}
    /\ answer \in GoodAnswers \cup {NoEntry}
    /\ RetiredInv

LEMMA RotateKeeps ==
    ASSUME DRTypeOK, NEW e \in Dids, Rotate(e), NEW d \in Dids, NEW v,
           NEW from \in Nat, NEW to, from <= now, CurrentBetween(d, v, from, to)
    PROVE  CurrentBetween(d, v, from, to)'
<1>1. /\ now \in Nat /\ retired[e] \in Seq(Nat) /\ retired[d] \in Seq(Nat)
      /\ retired' = [retired EXCEPT ![e] = Append(@, now)]
      /\ retired \in [Dids -> Seq(Nat)]
  BY DEF DRTypeOK, Rotate
<1>2. CASE d # e
  BY <1>1, <1>2 DEF CurrentBetween
<1>3. CASE d = e
  <2>1. retired'[d] = Append(retired[d], now)
    BY <1>1, <1>3
  <2>2. /\ Len(Append(retired[d], now)) = Len(retired[d]) + 1 /\ Len(retired[d]) \in Nat
        /\ \A k \in 1..Len(retired[d]) : Append(retired[d], now)[k] = retired[d][k]
        /\ Append(retired[d], now)[Len(retired[d]) + 1] = now
    BY <1>1, AppendProperties, LenProperties
  <2> QED
    BY <2>1, <2>2 DEF CurrentBetween
<1> QED
  BY <1>2, <1>3

LEMMA RecentStays ==
    ASSUME DRTypeOK, [DRNext]_drVars, NEW d \in Dids, NEW doc,
           NEW asked \in Nat, NEW got \in Nat, Recent(d, doc, asked, got)
    PROVE  Recent(d, doc, asked, got)'
<1>1. now \in Nat
  BY DEF DRTypeOK
<1>2. CASE retired' = retired /\ (now' = now \/ now' = now + 1)
  BY <1>1, <1>2 DEF Recent, CurrentBetween
<1>3. ASSUME NEW e \in Dids, Rotate(e) PROVE Recent(d, doc, asked, got)'
  <2>1. now' = now /\ asked <= now
    BY <1>1, <1>3 DEF Rotate, Recent
  <2>2. doc \in Nat => CurrentBetween(d, doc, asked, got)'
    BY <1>3, <2>1, RotateKeeps DEF Recent
  <2> QED
    BY <2>1, <2>2 DEF Recent
<1> QED
  BY <1>2, <1>3 DEF DRNext, World, Tick, Resolve, Hit, Build, Ask, Served, Return, Clear,
                    Restart, drVars

LEMMA CachedIs ==
    ASSUME DRTypeOK, NEW d \in Dids, NEW doc \in Docs \cup {NoDoc}, NEW asked \in Nat
    PROVE  /\ Cached(d, doc, asked) \in [Dids -> Entries \cup {NoEntry}]
           /\ \A e \in Dids \ {d} : Cached(d, doc, asked)[e] = cache[e]
           /\ Cached(d, doc, asked)[d] # NoEntry =>
                 /\ Cached(d, doc, asked)[d].doc = doc
                 /\ Cached(d, doc, asked)[d].asked = asked
                 /\ Cached(d, doc, asked)[d].got = now
                 /\ Cached(d, doc, asked)[d].expiry = now + Ttl
<1>1. now \in Nat /\ Ttl \in Nat /\ cache \in [Dids -> Entries \cup {NoEntry}]
  BY ResolverAssumption DEF DRTypeOK
<1>2. CASE doc \in {Empty, NoDoc}
  BY <1>1, <1>2 DEF Cached
<1>3. CASE doc \notin {Empty, NoDoc}
  <2>1. [doc |-> doc, asked |-> asked, got |-> now, expiry |-> now + Ttl] \in Entries
    BY <1>1, <1>3 DEF Entries, Docs
  <2> QED
    BY <1>1, <1>3, <2>1 DEF Cached
<1> QED
  BY <1>2, <1>3

LEMMA AnswerIs ==
    ASSUME DRTypeOK, NEW d \in Dids, NEW doc \in Docs \cup {NoDoc}, NEW asked \in Nat,
           NEW got \in Nat
    PROVE  Answer(d, doc, asked, got) \in Answers
  BY DEF DRTypeOK, Answer, Answers

\* Of the entries of the cache and of the call, in the shape of the next lemma.
LEMMA EntryIs ==
    ASSUME DRTypeOK, NEW d \in Dids, cache[d] # NoEntry
    PROVE  /\ cache[d] \in Entries
           /\ cache[d].doc \in Docs \ {Empty}
           /\ cache[d].asked \in Nat /\ cache[d].got \in Nat /\ cache[d].expiry \in Nat
  BY DEF DRTypeOK, Entries

LEMMA CallIs ==
    ASSUME DRTypeOK, call # NoCall
    PROVE  call \in Calls /\ call.did \in Dids /\ call.asked \in Nat
           /\ call.doc \in Docs \cup {NoDoc}
  BY DEF DRTypeOK, Calls

LEMMA DRNextTypeOK ==
    ASSUME DRTypeOK, [DRNext]_drVars
    PROVE  DRTypeOK'
<1>1. /\ now \in Nat
      /\ retired \in [Dids -> Seq(Nat)]
      /\ cache \in [Dids -> Entries \cup {NoEntry}]
      /\ call \in Calls \cup {NoCall}
      /\ answer \in Answers \cup {NoEntry}
  BY DEF DRTypeOK
<1>2. CASE Tick
  BY <1>1, <1>2 DEF Tick, DRTypeOK
<1>3. ASSUME NEW d \in Dids, Rotate(d) PROVE DRTypeOK'
  <2>1. Append(retired[d], now) \in Seq(Nat)
    BY <1>1
  <2>2. retired' \in [Dids -> Seq(Nat)]
    BY <1>1, <1>3, <2>1 DEF Rotate
  <2> QED
    BY <1>1, <1>3, <2>2 DEF Rotate, DRTypeOK
<1>4. ASSUME NEW d \in Dids, Hit(d) PROVE DRTypeOK'
  <2>1. answer' \in Answers
    BY <1>4, EntryIs, AnswerIs DEF Hit, Live
  <2> QED
    BY <1>1, <1>4, <2>1 DEF Hit, DRTypeOK
<1>5. ASSUME NEW d \in Dids, Build(d) PROVE DRTypeOK'
  <2>1. PICK doc \in {NoDoc, Local} :
           cache' = Cached(d, doc, now) /\ answer' = Answer(d, doc, now, now)
    BY <1>5 DEF Build
  <2>2. doc \in Docs \cup {NoDoc}
    BY <2>1 DEF Docs
  <2>3. cache' \in [Dids -> Entries \cup {NoEntry}]
    BY <1>1, <2>1, <2>2, CachedIs
  <2>4. answer' \in Answers
    BY <1>1, <2>1, <2>2, AnswerIs
  <2>5. UNCHANGED <<now, retired, call>>
    BY <1>5 DEF Build
  <2> QED
    BY <1>1, <2>3, <2>4, <2>5 DEF DRTypeOK
<1>6. ASSUME NEW d \in Dids, Ask(d) PROVE DRTypeOK'
  BY <1>1, <1>6 DEF Ask, DRTypeOK, Calls
<1>7. CASE Served
  <2>1. PICK doc \in Serves(call.did) : call' = [call EXCEPT !.doc = doc]
    BY <1>7 DEF Served
  <2>2. doc \in Docs
    <3>1. Len(retired[call.did]) \in Nat
      BY <1>1, <1>7, CallIs DEF Served
    <3> QED
      BY <3>1 DEF Serves, Docs
  <2>3. call' \in Calls
    BY <1>7, <2>1, <2>2, CallIs DEF Served, Calls
  <2> QED
    BY <1>1, <1>7, <2>3 DEF Served, DRTypeOK
<1>8. CASE Return
  <2>1. /\ call.did \in Dids /\ call.asked \in Nat /\ call.doc \in Docs \cup {NoDoc}
        /\ now \in Nat
    BY <1>1, <1>8, CallIs DEF Return
  <2>2. cache' \in [Dids -> Entries \cup {NoEntry}]
    BY <1>8, <2>1, CachedIs DEF Return
  <2>3. answer' \in Answers
    BY <1>8, <2>1, AnswerIs DEF Return
  <2> QED
    BY <1>1, <1>8, <2>2, <2>3 DEF Return, DRTypeOK
<1>9. CASE Clear \/ Restart
  BY <1>1, <1>9 DEF Clear, Restart, DRTypeOK
<1>10. CASE UNCHANGED drVars
  BY <1>1, <1>10 DEF drVars, DRTypeOK
<1> QED
  BY <1>2, <1>3, <1>4, <1>5, <1>6, <1>7, <1>8, <1>9, <1>10 DEF DRNext, World, Resolve

\* What was good stays good.
LEMMA EntriesStay ==
    ASSUME DRTypeOK, [DRNext]_drVars, NEW d \in Dids
    PROVE  GoodEntries(d) \subseteq GoodEntries(d)'
<1> SUFFICES ASSUME NEW e \in GoodEntries(d) PROVE e \in GoodEntries(d)'
  OBVIOUS
<1>1. /\ e \in Entries /\ e.asked \in Nat /\ e.got \in Nat
      /\ Recent(d, e.doc, e.asked, e.got) /\ e.expiry = e.got + Ttl
  BY DEF GoodEntries, Entries
<1>2. Recent(d, e.doc, e.asked, e.got)'
  BY <1>1, RecentStays
<1> QED
  BY <1>1, <1>2 DEF GoodEntries

LEMMA AnswersStay ==
    ASSUME DRTypeOK, [DRNext]_drVars
    PROVE  GoodAnswers \subseteq GoodAnswers'
<1> SUFFICES ASSUME NEW a \in GoodAnswers PROVE a \in GoodAnswers'
  OBVIOUS
<1>1. /\ a \in Answers /\ a.did \in Dids /\ a.asked \in Nat /\ a.got \in Nat
      /\ Recent(a.did, a.doc, a.asked, a.got)
      /\ a.at = a.got \/ a.at < a.got + Ttl
      /\ a.doc = Empty => a.at = a.got
  BY DEF GoodAnswers, Answers
<1>2. Recent(a.did, a.doc, a.asked, a.got)'
  BY <1>1, RecentStays
<1> QED
  BY <1>1, <1>2 DEF GoodAnswers

LEMMA CallsStay ==
    ASSUME DRTypeOK, [DRNext]_drVars
    PROVE  GoodCalls \subseteq GoodCalls'
<1> SUFFICES ASSUME NEW c \in GoodCalls PROVE c \in GoodCalls'
  OBVIOUS
<1>0. now \in Nat
  BY DEF DRTypeOK
<1>1. /\ c \in Calls /\ c.did \in Dids /\ c.asked \in Nat
      /\ Method[c.did] = "web" /\ c.doc \in Nat \cup {Fallback, Empty, NoDoc}
      /\ c.asked <= now
      /\ c.doc \in Nat => CurrentBetween(c.did, c.doc, c.asked, now)
  BY DEF GoodCalls, Calls
<1>2. CASE retired' = retired /\ (now' = now \/ now' = now + 1)
  <2>1. c.asked <= now'
    BY <1>0, <1>1, <1>2
  <2>2. c.doc \in Nat => CurrentBetween(c.did, c.doc, c.asked, now)'
    <3>1. retired[c.did] \in Seq(Nat) /\ DOMAIN retired[c.did] = 1..Len(retired[c.did])
      BY <1>1 DEF DRTypeOK
    <3>2. \A v \in 1..Len(retired[c.did]) : retired[c.did][v] \in Nat
      BY <3>1, ElementOfSeq
    <3> QED
      BY <1>0, <1>1, <1>2, <3>1, <3>2 DEF CurrentBetween
  <2> QED
    BY <1>1, <2>1, <2>2 DEF GoodCalls
<1>3. ASSUME NEW e \in Dids, Rotate(e) PROVE c \in GoodCalls'
  <2>1. now' = now
    BY <1>3 DEF Rotate
  <2>2. PICK to : to = now
    OBVIOUS
  <2>3. c.doc \in Nat => CurrentBetween(c.did, c.doc, c.asked, to)'
    BY <1>1, <1>3, <2>2, RotateKeeps
  <2>4. c.doc \in Nat => CurrentBetween(c.did, c.doc, c.asked, now)'
    BY <2>1, <2>2, <2>3 DEF CurrentBetween
  <2> QED
    BY <1>1, <2>1, <2>4 DEF GoodCalls
<1> QED
  BY <1>2, <1>3 DEF DRNext, World, Tick, Resolve, Hit, Build, Ask, Served, Return, Clear,
                    Restart, drVars

LEMMA RetiredStays == DRInv /\ [DRNext]_drVars => RetiredInv'
<1> SUFFICES ASSUME DRInv, [DRNext]_drVars PROVE RetiredInv'
  OBVIOUS
<1>1. now \in Nat /\ retired \in [Dids -> Seq(Nat)]
  BY DEF DRInv, DRTypeOK
<1>2. CASE retired' = retired /\ (now' = now \/ now' = now + 1)
  <2>1. ASSUME NEW d \in Dids, NEW i \in DOMAIN retired[d] PROVE retired[d][i] \in Nat
    <3>1. retired[d] \in Seq(Nat)
      BY <1>1
    <3>2. DOMAIN retired[d] = 1..Len(retired[d])
      BY <3>1
    <3> QED
      BY <3>1, <3>2, ElementOfSeq
  <2> QED
    BY <1>1, <1>2, <2>1 DEF DRInv, RetiredInv
<1>3. ASSUME NEW e \in Dids, Rotate(e) PROVE RetiredInv'
  <2>1. /\ DOMAIN Append(retired[e], now) = 1..(Len(retired[e]) + 1)
        /\ DOMAIN retired[e] = 1..Len(retired[e]) /\ Len(retired[e]) \in Nat
        /\ \A k \in 1..Len(retired[e]) : Append(retired[e], now)[k] = retired[e][k]
        /\ Append(retired[e], now)[Len(retired[e]) + 1] = now
    BY <1>1, AppendProperties
  <2>2. \A i \in DOMAIN Append(retired[e], now) : Append(retired[e], now)[i] <= now
    BY <1>1, <2>1 DEF DRInv, RetiredInv
  <2>3. now' = now /\ retired' = [retired EXCEPT ![e] = Append(retired[e], now)]
    BY <1>3 DEF Rotate
  <2> QED
    BY <1>1, <2>2, <2>3 DEF DRInv, RetiredInv
<1> QED
  BY <1>2, <1>3 DEF DRNext, World, Tick, Resolve, Hit, Build, Ask, Served, Return, Clear,
                    Restart, drVars

\* A document that is the method's own, new or not.
LEMMA LocalIsOwn == Local \notin Nat \cup {Fallback, Empty} /\ NoDoc \notin Nat \cup {Fallback, Empty}
  BY ResolverAssumption

LEMMA DRNextInv == DRInv /\ [DRNext]_drVars => DRInv'
<1> SUFFICES ASSUME DRInv, [DRNext]_drVars PROVE DRInv'
  OBVIOUS
<1>0. DRTypeOK /\ DRTypeOK' /\ RetiredInv' /\ now \in Nat
  BY DRNextTypeOK, RetiredStays DEF DRInv, DRTypeOK
<1>1. /\ \A d \in Dids : cache[d] \in GoodEntries(d)' \cup {NoEntry}
      /\ call \in GoodCalls' \cup {NoCall}
      /\ answer \in GoodAnswers' \cup {NoEntry}
  BY <1>0, EntriesStay, CallsStay, AnswersStay DEF DRInv
<1>2. ASSUME NEW d \in Dids, NEW doc \in Docs \cup {NoDoc}, NEW asked \in Nat,
             Recent(d, doc, asked, now)', now' = now,
             cache' = Cached(d, doc, asked), answer' = Answer(d, doc, asked, now)
      PROVE  /\ \A e \in Dids : cache'[e] \in GoodEntries(e)' \cup {NoEntry}
             /\ answer' \in GoodAnswers'
  <2>1. cache'[d] # NoEntry => cache'[d] \in GoodEntries(d)'
    BY <1>0, <1>2, CachedIs DEF GoodEntries
  <2>2. \A e \in Dids \ {d} : cache'[e] = cache[e]
    BY <1>0, <1>2, CachedIs
  <2>3. answer' \in GoodAnswers'
    BY <1>0, <1>2, AnswerIs DEF GoodAnswers, Answer
  <2> QED
    BY <1>1, <2>1, <2>2, <2>3
<1>3. CASE World
  BY <1>0, <1>1, <1>3 DEF World, Tick, Rotate, DRInv
<1>4. ASSUME NEW d \in Dids, Hit(d) PROVE DRInv'
  <2>1. cache[d] \in GoodEntries(d) /\ cache[d] # NoEntry /\ now < cache[d].expiry
    BY <1>4 DEF DRInv, Hit, Live
  <2>2. PICK e \in GoodEntries(d) : e = cache[d]
    BY <2>1
  <2>3. /\ e \in Entries /\ e.doc \in Docs \ {Empty} /\ e.asked \in Nat /\ e.got \in Nat
        /\ Recent(d, e.doc, e.asked, e.got) /\ e.expiry = e.got + Ttl
    BY DEF GoodEntries, Entries
  <2>4. answer' = Answer(d, e.doc, e.asked, e.got) /\ answer' \in Answers
    BY <1>0, <1>4, <2>2, <2>3, AnswerIs DEF Hit
  <2>5. Recent(d, e.doc, e.asked, e.got)'
    BY <1>0, <2>3, RecentStays
  <2>6. answer' \in GoodAnswers'
    BY <2>1, <2>2, <2>3, <2>4, <2>5 DEF GoodAnswers, Answer
  <2> QED
    BY <1>0, <1>1, <1>4, <2>6 DEF Hit, DRInv
<1>5. ASSUME NEW d \in Dids, Build(d) PROVE DRInv'
  <2>1. PICK doc \in {NoDoc, Local} :
           cache' = Cached(d, doc, now) /\ answer' = Answer(d, doc, now, now)
    BY <1>5 DEF Build
  <2>2. PICK t \in Nat : t = now
    BY <1>0
  <2>3. doc \in Docs \cup {NoDoc} /\ now' = now
    BY <1>5, <2>1 DEF Build, Docs
  <2>4. Recent(d, doc, t, now)'
    BY <1>5, <2>1, <2>2, <2>3, LocalIsOwn DEF Build, Recent
  <2> QED
    BY <1>0, <1>1, <1>2, <1>5, <2>1, <2>2, <2>3, <2>4 DEF Build, DRInv
<1>6. ASSUME NEW d \in Dids, Ask(d) PROVE DRInv'
  <2>1. call' \in GoodCalls'
    BY <1>0, <1>6, ResolverAssumption DEF Ask, GoodCalls, Calls
  <2>2. \A e \in Dids : cache'[e] \in GoodEntries(e)' \cup {NoEntry}
    BY <1>0, <1>1, <1>6 DEF Ask, DRTypeOK
  <2> QED
    BY <1>0, <1>1, <1>6, <2>1, <2>2 DEF Ask, DRInv
<1>7. CASE Served
  <2>1. PICK c \in GoodCalls : c = call /\ c.did \in Dids
    BY <1>7 DEF Served, DRInv, GoodCalls, Calls
  <2>2. PICK doc \in Serves(c.did) : call' = [c EXCEPT !.doc = doc]
    BY <1>7, <2>1 DEF Served
  <2>3. Len(retired[c.did]) \in Nat /\ DOMAIN retired[c.did] = 1..Len(retired[c.did])
    BY <1>0, <2>1 DEF DRTypeOK
  <2>4. c.asked \in Nat /\ c.asked <= now /\ Method[c.did] = "web" /\ c \in Calls
    BY DEF GoodCalls, Calls
  <2>5. doc \in Nat \cup {Fallback, Empty} /\ (doc \in Nat => doc = Len(retired[c.did]))
    BY <2>2, <2>3, ResolverAssumption DEF Serves
  <2>6. doc \in Nat => CurrentBetween(c.did, doc, c.asked, now)
    BY <2>1, <2>3, <2>5 DEF DRInv, RetiredInv, CurrentBetween
  <2>7. call'.did = c.did /\ call'.asked = c.asked /\ call'.doc = doc /\ call' \in Calls
    BY <2>2, <2>4, <2>5 DEF Calls, Docs
  <2>8. call' \in GoodCalls
    BY <2>4, <2>5, <2>6, <2>7 DEF GoodCalls
  <2>9. call' \in GoodCalls'
    BY <1>0, <2>8, CallsStay
  <2> QED
    BY <1>0, <1>1, <1>7, <2>9 DEF Served, DRInv
<1>8. CASE Return
  <2>1. PICK c \in GoodCalls : c = call
    BY <1>8 DEF Return, DRInv
  <2>2. /\ c.did \in Dids /\ c.asked \in Nat /\ c.asked <= now /\ Method[c.did] = "web"
        /\ c.doc \in Docs \cup {NoDoc} /\ c.doc \in Nat \cup {Fallback, Empty}
        /\ c.doc \in Nat => CurrentBetween(c.did, c.doc, c.asked, now)
    BY <1>8, <2>1 DEF GoodCalls, Calls, Return
  <2>3. now' = now /\ retired' = retired
    BY <1>8 DEF Return
  <2>4. Recent(c.did, c.doc, c.asked, now)'
    BY <1>0, <2>2, <2>3 DEF Recent, CurrentBetween
  <2> QED
    BY <1>0, <1>2, <1>8, <2>1, <2>2, <2>3, <2>4 DEF Return, DRInv
<1>9. CASE Clear \/ Restart
  BY <1>0, <1>1, <1>9 DEF Clear, Restart, DRInv
<1>10. CASE UNCHANGED drVars
  BY <1>0, <1>1, <1>10 DEF drVars, DRInv
<1> QED
  BY <1>3, <1>4, <1>5, <1>6, <1>7, <1>8, <1>9, <1>10 DEF DRNext, Resolve

\* The invariant of the resolver: each entry, fetch and answer has a document
\* that was its host's between the times it is recorded with.
THEOREM ResolverInvariant == DRSpec => []DRInv
<1>1. DRInit => DRInv
  <2> SUFFICES ASSUME DRInit PROVE DRInv
    OBVIOUS
  <2>1. DRTypeOK
    BY DEF DRInit, DRTypeOK
  <2>2. DOMAIN << >> = {}
    OBVIOUS
  <2>3. RetiredInv
    BY <2>2, Zenon DEF DRInit, RetiredInv
  <2> QED
    BY <2>1, <2>3 DEF DRInit, DRInv
<1> QED
  BY <1>1, DRNextInv, PTL DEF DRSpec

\* The clock, the cache, a fetch and an answer keep their shape.
THEOREM ResolverTypeCorrect == DRSpec => []DRTypeOK
<1>1. DRInv => DRTypeOK
  BY DEF DRInv
<1> QED
  BY ResolverInvariant, <1>1, PTL

\* Whatever resolve() answers for a did:web is of a fetch that ended less than
\* the TTL ago, and was what the host had while it was fetched: for every TTL,
\* every length of a fetch and every replacement of the document meanwhile.
THEOREM AnswersAreRecent == DRSpec => []AnswerIsRecent
<1>1. DRInv => AnswerIsRecent
  BY DEF DRInv, GoodAnswers, Recent, AnswerIsRecent
<1> QED
  BY ResolverInvariant, <1>1, PTL
=============================================================================
