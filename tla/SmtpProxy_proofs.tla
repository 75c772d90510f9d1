-------------------------- MODULE SmtpProxy_proofs --------------------------
(***************************************************************************)
(* Mails are not mixed, cut, reordered or repeated by the proxy, for every *)
(* number of clients, mails and lines, but for mails with a line that      *)
(* strips to a dot.  What is missing from the properties is where the      *)
(* client and its session are with each other in the middle of a mail:     *)
(* Synced says that a session that buffers holds the end of what its       *)
(* client has sent of the mail, and all of it if no line strips to a dot.  *)
(*                                                                         *)
(* The last part shows when 250 does mean that a mail is translated: when  *)
(* no post fails in a way that the proxy swallows.                         *)
(***************************************************************************)
EXTENDS SmtpProxy, SequenceTheorems, TLAPS

\* The buffer is the mail so far, without its first i lines.
Holds(s, i) ==
    /\ Len(client[s].body) = i + Len(session[s].buffer)
    /\ \A k \in 1..Len(session[s].buffer) : session[s].buffer[k] = client[s].body[i + k]
    /\ Plain(client[s].body) => i = 0

Synced(s) ==
    /\ client[s].phase = "command" => session[s].at # "data" /\ client[s].body = <<>>
    /\ client[s].phase = "body" /\ Plain(client[s].body) => session[s].at = "data"
    /\ session[s].at \in {"command", "closed"} => session[s].buffer = <<>>
    /\ client[s].phase = "body" /\ session[s].at = "data" => \E i \in Nat : Holds(s, i)
    /\ client[s].phase = "command" /\ session[s].at = "posting" => client[s].meant # <<>>

\* A request is of a mail that its client has begun.
Known(r) ==
    /\ r.mail <= Len(client[r.from].meant) + 1
    /\ client[r.from].phase = "command" => r.mail <= Len(client[r.from].meant)

\* The request is the run of lines of its mail that begins behind line i.
Runs(r, i) ==
    /\ i + Len(r.body) <= Len(Mail(r.from, r.mail))
    /\ \A k \in 1..Len(r.body) : r.body[k] = Mail(r.from, r.mail)[i + k]

Whole(r) ==
    Plain(Mail(r.from, r.mail)) =>
        /\ r.body = Mail(r.from, r.mail)
        /\ r.mail <= Len(client[r.from].meant) \/ client[r.from].phase = "cut"

Good(r) == Known(r) /\ (\E i \in Nat : Runs(r, i)) /\ Whole(r)

\* f may be posted before g.
Ragged == {r \in Requests : ~Plain(Mail(r.from, r.mail))}

InOrder(f, g) ==
    f.from = g.from =>
        \/ f.mail < g.mail
        \/ f.mail = g.mail /\ f \in Ragged

Ordered ==
    /\ \A i, j \in DOMAIN served : i < j => InOrder(served[i].request, served[j].request)
    /\ \A i \in DOMAIN served, j \in DOMAIN backlog : InOrder(served[i].request, backlog[j])
    /\ \A i, j \in DOMAIN backlog : i < j => InOrder(backlog[i], backlog[j])

IInv ==
    /\ TypeOK
    /\ \A s \in Sessions : Synced(s)
    /\ \A r \in Posted : Good(r)
    /\ Ordered

-----------------------------------------------------------------------------
ClientStates == [phase : {"command", "body", "gone", "cut"},
                 body : Seq(Lines), meant : Seq(Seq(Lines)), left : Nat]

SessionStates == [at : {"command", "data", "posting", "closed"}, buffer : Seq(Lines)]

\* What each step that a client, a session and the daemon take does to them, one
\* field at a time.
LEMMA ClientFields ==
    ASSUME NEW c \in ClientStates
    PROVE  /\ \A p \in {"command", "body", "gone", "cut"} :
                 [c EXCEPT !.phase = p] \in ClientStates
           /\ \A line \in Lines :
                 c.left > 0 =>
                     [c EXCEPT !.body = Append(@, line), !.left = @ - 1] \in ClientStates
           /\ [c EXCEPT !.phase = "command", !.body = <<>>,
                        !.meant = Append(@, c.body)] \in ClientStates
<1>1. /\ c.body \in Seq(Lines)
      /\ c.meant \in Seq(Seq(Lines))
      /\ c.left \in Nat
  BY DEF ClientStates
<1>2. ASSUME NEW line \in Lines, c.left > 0
      PROVE  [c EXCEPT !.body = Append(@, line), !.left = @ - 1] \in ClientStates
  <2>1. Append(c.body, line) \in Seq(Lines) /\ c.left - 1 \in Nat
    BY <1>1, <1>2
  <2> QED
    BY <2>1 DEF ClientStates
<1>3. [c EXCEPT !.phase = "command", !.body = <<>>, !.meant = Append(@, c.body)]
         \in ClientStates
  <2>1. Append(c.meant, c.body) \in Seq(Seq(Lines)) /\ <<>> \in Seq(Lines)
    BY <1>1
  <2> QED
    BY <2>1 DEF ClientStates
<1>4. \A p \in {"command", "body", "gone", "cut"} : [c EXCEPT !.phase = p] \in ClientStates
  BY DEF ClientStates
<1> QED
  BY <1>2, <1>3, <1>4

LEMMA SessionFields ==
    ASSUME NEW q \in SessionStates
    PROVE  /\ \A a \in {"command", "data", "posting", "closed"} :
                 /\ [q EXCEPT !.at = a] \in SessionStates
                 /\ [at |-> a, buffer |-> <<>>] \in SessionStates
           /\ \A line \in Lines : [q EXCEPT !.buffer = Append(@, line)] \in SessionStates
<1>1. q.buffer \in Seq(Lines) /\ <<>> \in Seq(Lines)
  BY DEF SessionStates
<1>2. \A line \in Lines : Append(q.buffer, line) \in Seq(Lines)
  BY <1>1
<1> QED
  BY <1>1, <1>2 DEF SessionStates

LEMMA Typed ==
    TypeOK <=>
        /\ client \in [Sessions -> ClientStates]
        /\ session \in [Sessions -> SessionStates]
        /\ accepted \in [Sessions -> SUBSET (Nat \ {0})]
        /\ backlog \in Seq(Requests)
        /\ served \in Seq([request : Requests, reply : {"envelope", "error"}])
  BY DEF TypeOK, ClientStates, SessionStates

LEMMA SendTypeOK ==
    ASSUME TypeOK, NEW s \in Sessions, NEW line, Send(s, line)
    PROVE  client' \in [Sessions -> ClientStates]
<1>1. client \in [Sessions -> ClientStates] /\ client[s] \in ClientStates
  BY Typed
<1>2. LinesOf[s] \subseteq Lines
  BY DEF Lines
<1>3. ASSUME NEW p \in {"command", "body", "gone", "cut"},
             client' = [client EXCEPT ![s].phase = p]
      PROVE  client' \in [Sessions -> ClientStates]
  <2>1. [client[s] EXCEPT !.phase = p] \in ClientStates
    BY <1>1, ClientFields
  <2> QED
    BY <1>1, <1>3, <2>1
<1>4. CASE /\ line \in LinesOf[s]
           /\ client[s].left > 0
           /\ client' = [client EXCEPT ![s].body = Append(@, line), ![s].left = @ - 1]
  <2>1. [client[s] EXCEPT !.body = Append(@, line), !.left = @ - 1] \in ClientStates
    BY <1>1, <1>2, <1>4, ClientFields
  <2>2. client' = [client EXCEPT ![s] =
                     [client[s] EXCEPT !.body = Append(@, line), !.left = @ - 1]]
    BY <1>1, <1>4
  <2> QED
    BY <1>1, <2>1, <2>2
<1>5. CASE client' = [client EXCEPT ![s].phase = "command", ![s].body = <<>>,
                                    ![s].meant = Append(@, client[s].body)]
  <2>1. [client[s] EXCEPT !.phase = "command", !.body = <<>>,
                          !.meant = Append(@, client[s].body)] \in ClientStates
    BY <1>1, ClientFields
  <2>2. client' = [client EXCEPT ![s] =
                     [client[s] EXCEPT !.phase = "command", !.body = <<>>,
                                       !.meant = Append(@, client[s].body)]]
    BY <1>1, <1>5
  <2> QED
    BY <1>1, <2>1, <2>2
<1> QED
  BY <1>3, <1>4, <1>5 DEF Send

\* Whatever a turn does to the session, its type stays.
LEMMA SessionTypeOK ==
    ASSUME TypeOK, NEW s \in Sessions,
           \/ \E a \in {"command", "data", "posting", "closed"} :
                 \/ session' = [session EXCEPT ![s].at = a]
                 \/ session' = [session EXCEPT ![s] = [at |-> a, buffer |-> <<>>]]
           \/ \E line \in Lines : session' = [session EXCEPT ![s].buffer = Append(@, line)]
    PROVE  session' \in [Sessions -> SessionStates]
<1>1. session \in [Sessions -> SessionStates] /\ session[s] \in SessionStates
  BY Typed
<1>2. ASSUME NEW a \in {"command", "data", "posting", "closed"},
             \/ session' = [session EXCEPT ![s].at = a]
             \/ session' = [session EXCEPT ![s] = [at |-> a, buffer |-> <<>>]]
      PROVE  session' \in [Sessions -> SessionStates]
  <2>1. /\ [session[s] EXCEPT !.at = a] \in SessionStates
        /\ [at |-> a, buffer |-> <<>>] \in SessionStates
    BY <1>1, SessionFields
  <2> QED
    BY <1>1, <1>2, <2>1
<1>3. ASSUME NEW line \in Lines, session' = [session EXCEPT ![s].buffer = Append(@, line)]
      PROVE  session' \in [Sessions -> SessionStates]
  <2>1. [session[s] EXCEPT !.buffer = Append(@, line)] \in SessionStates
    BY <1>1, SessionFields
  <2> QED
    BY <1>1, <1>3, <2>1
<1> QED
  BY <1>2, <1>3

\* The request that the end of the data makes.
Request(s) == [from |-> s, mail |-> Len(client[s].meant) + 1, body |-> session[s].buffer]

LEMMA RequestTypeOK ==
    ASSUME TypeOK, NEW s \in Sessions
    PROVE  Request(s) \in Requests /\ Len(client[s].meant) \in Nat
<1>1. client[s].meant \in Seq(Seq(Lines)) /\ session[s].buffer \in Seq(Lines)
  BY Typed DEF ClientStates, SessionStates
<1>2. Len(client[s].meant) \in Nat
  BY <1>1
<1> QED
  BY <1>1, <1>2 DEF Request, Requests

LEMMA EndDataTypeOK ==
    ASSUME TypeOK, NEW s \in Sessions, NEW line, EndData(s, line)
    PROVE  /\ session' \in [Sessions -> SessionStates]
           /\ backlog' \in Seq(Requests)
           /\ accepted' = accepted
<1>1. session' \in [Sessions -> SessionStates]
  BY SessionTypeOK DEF EndData
<1>2. backlog' = backlog \/ backlog' = Append(backlog, Request(s))
  BY DEF EndData, Request
<1>3. Append(backlog, Request(s)) \in Seq(Requests) /\ backlog \in Seq(Requests)
  BY RequestTypeOK, Typed
<1> QED
  BY <1>1, <1>2, <1>3 DEF EndData

LEMMA NextTypeOK == IInv /\ [Next]_vars => TypeOK'
<1> SUFFICES ASSUME IInv, [Next]_vars PROVE TypeOK'
  OBVIOUS
<1> USE DEF IInv
<1>0. /\ client \in [Sessions -> ClientStates]
      /\ session \in [Sessions -> SessionStates]
      /\ accepted \in [Sessions -> SUBSET (Nat \ {0})]
      /\ backlog \in Seq(Requests)
      /\ served \in Seq([request : Requests, reply : {"envelope", "error"}])
  BY Typed
<1> DEFINE Types ==
        /\ client' \in [Sessions -> ClientStates]
        /\ session' \in [Sessions -> SessionStates]
        /\ accepted' \in [Sessions -> SUBSET (Nat \ {0})]
        /\ backlog' \in Seq(Requests)
        /\ served' \in Seq([request : Requests, reply : {"envelope", "error"}])
<1> SUFFICES Types
  BY DEF TypeOK, ClientStates, SessionStates
<1>1. ASSUME NEW s \in Sessions, Read(s) PROVE Types
  <2>1. PICK line \in Lines \cup {DataLine, QuitLine, Dot} : Step(s, line)
    BY <1>1 DEF Read
  <2>2. client' \in [Sessions -> ClientStates] /\ served' = served
    BY <2>1, SendTypeOK DEF Step
  <2>3. CASE ReadCommand(s, line)
    <3>0. Len(client[s].meant) + 1 \in Nat \ {0}
      BY RequestTypeOK
    <3>1. accepted' \in [Sessions -> SUBSET (Nat \ {0})]
      BY <1>0, <2>3, <3>0 DEF ReadCommand
    <3>2. session' \in [Sessions -> SessionStates]
      <4>1. \E a \in {"command", "data", "closed"} : session' = [session EXCEPT ![s].at = a]
        <5>1. CASE line = DataLine
          BY <2>3, <5>1, LineAssumption DEF ReadCommand
        <5>2. CASE line = QuitLine /\ line # DataLine
          BY <2>3, <5>2 DEF ReadCommand
        <5>3. CASE line # QuitLine /\ line # DataLine
          BY <2>3, <5>3 DEF ReadCommand
        <5> QED
          BY <5>1, <5>2, <5>3
      <4> QED
        BY <4>1, SessionTypeOK
    <3> QED
      BY <1>0, <2>2, <2>3, <3>1, <3>2 DEF ReadCommand
  <2>4. CASE ReadBody(s, line)
    <3>1. line \in Lines
      <4>1. client[s].phase # "command" /\ line # Dot
        BY <2>4 DEF ReadBody, EndsData, Synced
      <4> QED
        BY <2>1, <4>1 DEF Step, Send, Lines
    <3>2. session' \in [Sessions -> SessionStates]
      BY <2>4, <3>1, SessionTypeOK DEF ReadBody
    <3> QED
      BY <1>0, <2>2, <2>4, <3>2 DEF ReadBody
  <2>5. CASE EndData(s, line)
    BY <1>0, <2>2, <2>5, EndDataTypeOK
  <2>6. CASE TranslateRaises(s, line)
    <3>1. session' \in [Sessions -> SessionStates]
      BY <2>6, SessionTypeOK DEF TranslateRaises
    <3> QED
      BY <1>0, <2>2, <2>6, <3>1 DEF TranslateRaises
  <2> QED
    BY <2>1, <2>3, <2>4, <2>5, <2>6 DEF Step
<1>2. ASSUME NEW s \in Sessions, PostEnds(s) PROVE Types
  <2>1. session' \in [Sessions -> SessionStates]
    BY <1>2, SessionTypeOK DEF PostEnds
  <2>2. CASE client[s].phase = "command"
    <3>1. client[s].meant # <<>> /\ client[s].meant \in Seq(Seq(Lines))
      BY <1>0, <1>2, <2>2 DEF PostEnds, Synced, ClientStates
    <3>2. Len(client[s].meant) \in Nat \ {0}
      BY <3>1
    <3> QED
      BY <1>0, <1>2, <2>1, <2>2, <3>2 DEF PostEnds, Accept
  <2>3. CASE client[s].phase # "command"
    BY <1>0, <1>2, <2>1, <2>3 DEF PostEnds, Accept
  <2> QED
    BY <2>2, <2>3
<1>3. ASSUME NEW s \in Sessions, CutLine(s) PROVE Types
  <2>1. [client[s] EXCEPT !.phase = "cut"] \in ClientStates
    BY <1>0, ClientFields
  <2> QED
    BY <1>0, <1>3, <2>1, EndDataTypeOK DEF CutLine
<1>4. ASSUME NEW s \in Sessions, HangUp(s) PROVE Types
  <2>1. [client[s] EXCEPT !.phase = "gone"] \in ClientStates
    BY <1>0, ClientFields
  <2> QED
    BY <1>0, <1>4, <2>1 DEF HangUp
<1>5. ASSUME NEW s \in Sessions, EndOfFile(s) PROVE Types
  <2>1. session' \in [Sessions -> SessionStates]
    BY <1>5, SessionTypeOK DEF EndOfFile
  <2> QED
    BY <1>0, <1>5, <2>1 DEF EndOfFile
<1>6. CASE Serve
  <2>1. PICK reply \in {"envelope", "error"} :
           served' = Append(served, [request |-> Head(backlog), reply |-> reply])
    BY <1>6 DEF Serve
  <2>2. Head(backlog) \in Requests /\ Tail(backlog) \in Seq(Requests)
    BY <1>0, <1>6 DEF Serve
  <2>3. [request |-> Head(backlog), reply |-> reply]
           \in [request : Requests, reply : {"envelope", "error"}]
    BY <2>2
  <2>4. served' \in Seq([request : Requests, reply : {"envelope", "error"}])
    BY <1>0, <2>1, <2>3
  <2> QED
    BY <1>0, <1>6, <2>2, <2>4 DEF Serve
<1>7. CASE DaemonStops
  BY <1>0, <1>7 DEF DaemonStops
<1>8. CASE UNCHANGED vars
  BY <1>0, <1>8 DEF vars
<1> QED
  BY <1>1, <1>2, <1>3, <1>4, <1>5, <1>6, <1>7, <1>8 DEF Next

-----------------------------------------------------------------------------
\* What a sequence is after a line was added, and when it is plain.
LEMMA AppendIs ==
    ASSUME NEW S, NEW b \in Seq(S), NEW line \in S
    PROVE  /\ Append(b, line) \in Seq(S) /\ Append(b, line) # <<>>
           /\ Len(b) \in Nat /\ Len(Append(b, line)) = Len(b) + 1
           /\ \A k \in 1..Len(b) : Append(b, line)[k] = b[k]
           /\ Append(b, line)[Len(b) + 1] = line
  BY AppendProperties, LenProperties

LEMMA AppendPlain ==
    ASSUME NEW b \in Seq(Lines), NEW line \in Lines
    PROVE  Plain(Append(b, line)) <=> Plain(b) /\ line \notin SpacedDots
<1>1. DOMAIN b = 1..Len(b) /\ DOMAIN Append(b, line) = 1..(Len(b) + 1) /\ Len(b) \in Nat
  BY AppendIs
<1> QED
  BY <1>1, AppendIs DEF Plain

LEMMA SyncedElsewhere ==
    ASSUME NEW s, Synced(s), client'[s] = client[s], session'[s] = session[s]
    PROVE  Synced(s)'
  BY DEF Synced, Holds

\* A turn of the loop keeps a session in step with its client.
LEMMA ReadSynced ==
    ASSUME IInv, NEW s \in Sessions, NEW line, Step(s, line)
    PROVE  Synced(s)'
<1> DEFINE c == client[s]
           q == session[s]
<1>0. /\ client \in [Sessions -> ClientStates] /\ session \in [Sessions -> SessionStates]
      /\ c \in ClientStates /\ q \in SessionStates
      /\ Synced(s)
  BY Typed DEF IInv
<1>1. /\ c.body \in Seq(Lines) /\ q.buffer \in Seq(Lines) /\ c.meant \in Seq(Seq(Lines))
      /\ q.at # "posting"
  BY <1>0 DEF ClientStates, SessionStates, Step, LoopFree
<1>2. CASE /\ c.phase = "command"
           /\ line = DataLine
           /\ client' = [client EXCEPT ![s].phase = "body"]
  <2>1. q.at # "data" /\ c.body = <<>>
    BY <1>0, <1>2 DEF Synced
  <2>2. session' = [session EXCEPT ![s].at = "data"] /\ q.at = "command"
    BY <1>2, <2>1, LineAssumption DEF Step, ReadCommand, ReadBody, EndData, TranslateRaises
  <2>3. q.buffer = <<>>
    BY <1>0, <2>2 DEF Synced
  <2>4. /\ client'[s].phase = "body" /\ client'[s].body = <<>>
        /\ session'[s].at = "data" /\ session'[s].buffer = <<>>
    BY <1>0, <1>2, <2>1, <2>2, <2>3 DEF ClientStates, SessionStates
  <2>5. Holds(s, 0)'
    BY <2>4 DEF Holds
  <2> QED
    BY <2>4, <2>5 DEF Synced
<1>3. CASE /\ c.phase = "command"
           /\ line = QuitLine
           /\ client' = [client EXCEPT ![s].phase = "gone"]
  <2>1. q.at # "data"
    BY <1>0, <1>3 DEF Synced
  <2>2. session' = [session EXCEPT ![s].at = "closed"] /\ q.at = "command"
    BY <1>3, <2>1, LineAssumption DEF Step, ReadCommand, ReadBody, EndData, TranslateRaises
  <2>3. q.buffer = <<>>
    BY <1>0, <2>2 DEF Synced
  <2>4. /\ client'[s].phase = "gone"
        /\ session'[s].at = "closed" /\ session'[s].buffer = <<>>
    BY <1>0, <1>3, <2>2, <2>3 DEF ClientStates, SessionStates
  <2> QED
    BY <2>4 DEF Synced
<1>4. CASE /\ c.phase = "body"
           /\ line \in LinesOf[s]
           /\ c.left > 0
           /\ client' = [client EXCEPT ![s].body = Append(@, line), ![s].left = @ - 1]
  <2>1. client'[s].phase = "body" /\ client'[s].body = Append(c.body, line)
    BY <1>0, <1>4 DEF ClientStates
  <2>2. line \in Lines
    BY <1>4 DEF Lines
  <2>3. Plain(client'[s].body) => Plain(c.body) /\ line \notin SpacedDots
    BY <1>1, <2>1, <2>2, AppendPlain
  <2>4. CASE ReadCommand(s, line)
    <3>1. ~Plain(client'[s].body) /\ q.buffer = <<>>
      BY <1>0, <1>4, <2>3, <2>4 DEF ReadCommand, Synced
    <3>2. session'[s].buffer = <<>> /\ session'[s].at \in {"command", "data", "closed"}
      BY <1>0, <2>4, <3>1 DEF ReadCommand, SessionStates
    <3>3. Len(client'[s].body) \in Nat
      BY <1>1, <2>1, <2>2
    <3>4. Holds(s, Len(client[s].body))'
      BY <3>1, <3>2, <3>3 DEF Holds
    <3> QED
      BY <2>1, <3>1, <3>2, <3>3, <3>4 DEF Synced
  <2>5. CASE ReadBody(s, line)
    <3>1. session'[s].at = "data" /\ session'[s].buffer = Append(q.buffer, line)
      BY <1>0, <2>5 DEF ReadBody, SessionStates
    <3>2. PICK i \in Nat : Holds(s, i)
      BY <1>0, <1>4, <2>5 DEF ReadBody, Synced
    <3>3. Holds(s, i)'
      <4>1. /\ Len(client'[s].body) = Len(c.body) + 1 /\ Len(c.body) \in Nat
            /\ \A k \in 1..Len(c.body) : client'[s].body[k] = c.body[k]
            /\ client'[s].body[Len(c.body) + 1] = line
        BY <1>1, <2>1, <2>2, AppendIs
      <4>2. /\ Len(session'[s].buffer) = Len(q.buffer) + 1 /\ Len(q.buffer) \in Nat
            /\ \A k \in 1..Len(q.buffer) : session'[s].buffer[k] = q.buffer[k]
            /\ session'[s].buffer[Len(q.buffer) + 1] = line
        BY <1>1, <2>2, <3>1, AppendIs
      <4>3. ASSUME NEW k \in 1..(Len(q.buffer) + 1)
            PROVE  session'[s].buffer[k] = client'[s].body[i + k]
        <5>1. CASE k = Len(q.buffer) + 1
          BY <3>2, <4>1, <4>2, <5>1 DEF Holds
        <5>2. CASE k \in 1..Len(q.buffer)
          <6>1. i + k \in 1..Len(c.body) /\ q.buffer[k] = c.body[i + k]
            BY <3>2, <4>1, <4>2, <5>2 DEF Holds
          <6> QED
            BY <4>1, <4>2, <5>2, <6>1
        <5> QED
          BY <4>2, <5>1, <5>2
      <4>4. Len(client'[s].body) = i + Len(session'[s].buffer)
        BY <3>2, <4>1, <4>2 DEF Holds
      <4>5. Plain(client'[s].body) => i = 0
        BY <2>3, <3>2 DEF Holds
      <4> QED
        BY <4>2, <4>3, <4>4, <4>5 DEF Holds
    <3> QED
      BY <2>1, <3>1, <3>3 DEF Synced
  <2>6. CASE EndData(s, line)
    <3>1. line \in SpacedDots
      BY <2>2, <2>6, LineAssumption DEF EndData, EndsData
    <3>2. session'[s].at = "posting"
      BY <1>0, <2>6 DEF EndData, SessionStates
    <3> QED
      BY <2>1, <2>3, <3>1, <3>2 DEF Synced
  <2>7. CASE TranslateRaises(s, line)
    <3>1. line \in SpacedDots
      BY <2>2, <2>7, LineAssumption DEF TranslateRaises, EndsData
    <3>2. session'[s].at = "closed" /\ session'[s].buffer = <<>>
      BY <1>0, <2>7 DEF TranslateRaises
    <3> QED
      BY <2>1, <2>3, <3>1, <3>2 DEF Synced
  <2> QED
    BY <2>4, <2>5, <2>6, <2>7 DEF Step
<1>5. CASE /\ c.phase = "body"
           /\ line = Dot
           /\ client' = [client EXCEPT ![s].phase = "command", ![s].body = <<>>,
                                       ![s].meant = Append(@, c.body)]
  <2>1. /\ client'[s].phase = "command" /\ client'[s].body = <<>>
        /\ client'[s].meant = Append(c.meant, c.body)
    BY <1>0, <1>5 DEF ClientStates
  <2>2. client'[s].meant # <<>>
    BY <1>1, <2>1, AppendIs
  <2>3. CASE ReadCommand(s, line)
    <3>1. session'[s].at = "command" /\ q.buffer = <<>>
      BY <1>0, <1>5, <2>3, LineAssumption DEF ReadCommand, SessionStates, Synced
    <3>2. session'[s].buffer = <<>>
      BY <1>0, <2>3, <3>1 DEF ReadCommand, SessionStates
    <3> QED
      BY <2>1, <3>1, <3>2 DEF Synced
  <2>4. CASE EndData(s, line)
    <3>1. session'[s].at = "posting"
      BY <1>0, <2>4 DEF EndData, SessionStates
    <3> QED
      BY <2>1, <2>2, <3>1 DEF Synced
  <2>5. CASE TranslateRaises(s, line)
    <3>1. session'[s].at = "closed" /\ session'[s].buffer = <<>>
      BY <1>0, <2>5 DEF TranslateRaises
    <3> QED
      BY <2>1, <3>1 DEF Synced
  <2>6. ~ReadBody(s, line)
    BY <1>5 DEF ReadBody, EndsData
  <2> QED
    BY <2>3, <2>4, <2>5, <2>6 DEF Step
<1> QED
  BY <1>2, <1>3, <1>4, <1>5 DEF Step, Send

LEMMA NextSynced == IInv /\ [Next]_vars => (\A s \in Sessions : Synced(s))'
<1> SUFFICES ASSUME IInv, [Next]_vars, NEW t \in Sessions PROVE Synced(t)'
  OBVIOUS
<1>0. /\ client \in [Sessions -> ClientStates] /\ session \in [Sessions -> SessionStates]
      /\ Synced(t)
  BY Typed DEF IInv
<1>1. ASSUME NEW s \in Sessions, Read(s) PROVE Synced(t)'
  <2>1. PICK line : Step(s, line)
    BY <1>1 DEF Read
  <2>2. CASE t = s
    BY <2>1, <2>2, ReadSynced
  <2>3. CASE t # s
    <3>1. client'[t] = client[t]
      BY <1>0, <2>1, <2>3 DEF Step, Send
    <3>2. session'[t] = session[t]
      BY <1>0, <2>1, <2>3 DEF Step, ReadCommand, ReadBody, EndData, TranslateRaises
    <3> QED
      BY <1>0, <3>1, <3>2, SyncedElsewhere
  <2> QED
    BY <2>2, <2>3
<1>2. ASSUME NEW s \in Sessions, PostEnds(s) PROVE Synced(t)'
  <2>1. CASE t = s
    BY <1>0, <1>2, <2>1 DEF PostEnds, Synced
  <2>2. CASE t # s
    BY <1>0, <1>2, <2>2, SyncedElsewhere DEF PostEnds
  <2> QED
    BY <2>1, <2>2
<1>3. ASSUME NEW s \in Sessions, CutLine(s) PROVE Synced(t)'
  <2>1. CASE t = s
    <3>1. client'[s].phase = "cut" /\ session'[s].at = "posting"
      BY <1>0, <1>3 DEF CutLine, EndData, ClientStates, SessionStates
    <3> QED
      BY <2>1, <3>1 DEF Synced
  <2>2. CASE t # s
    <3>1. client'[t] = client[t] /\ session'[t] = session[t]
      BY <1>0, <1>3, <2>2 DEF CutLine, EndData
    <3> QED
      BY <1>0, <3>1, SyncedElsewhere
  <2> QED
    BY <2>1, <2>2
<1>4. ASSUME NEW s \in Sessions, HangUp(s) PROVE Synced(t)'
  <2>1. CASE t = s
    <3>1. client'[s].phase = "gone" /\ session'[s] = session[s]
      BY <1>0, <1>4 DEF HangUp, ClientStates
    <3> QED
      BY <1>0, <2>1, <3>1 DEF Synced
  <2>2. CASE t # s
    BY <1>0, <1>4, <2>2, SyncedElsewhere DEF HangUp
  <2> QED
    BY <2>1, <2>2
<1>5. ASSUME NEW s \in Sessions, EndOfFile(s) PROVE Synced(t)'
  <2>1. CASE t = s
    BY <1>0, <1>5, <2>1 DEF EndOfFile, Synced
  <2>2. CASE t # s
    BY <1>0, <1>5, <2>2, SyncedElsewhere DEF EndOfFile
  <2> QED
    BY <2>1, <2>2
<1>6. CASE client' = client /\ session' = session
  BY <1>0, <1>6, SyncedElsewhere
<1> QED
  BY <1>1, <1>2, <1>3, <1>4, <1>5, <1>6 DEF Next, Serve, DaemonStops, vars

-----------------------------------------------------------------------------
\* The four things that a step does to a client: nothing, a turn outside its
\* mail (it begins one, quits or is cut off), a line of its mail, the end of it.
Stays(s) == client'[s] = client[s]

Turns(s) ==
    /\ client'[s].meant = client[s].meant
    /\ client'[s].body = client[s].body
    /\ client[s].phase # "cut"
    /\ client'[s].phase # "command"

Writes(s) ==
    /\ client[s].phase = "body"
    /\ client'[s].phase = "body"
    /\ client'[s].meant = client[s].meant
    /\ \E line \in Lines : client'[s].body = Append(client[s].body, line)

Ends(s) ==
    /\ client[s].phase = "body"
    /\ client'[s].phase = "command"
    /\ client'[s].meant = Append(client[s].meant, client[s].body)

LEMMA ClientMoves ==
    ASSUME TypeOK, [Next]_vars, NEW t \in Sessions
    PROVE  Stays(t) \/ Turns(t) \/ Writes(t) \/ Ends(t)
<1>0. client \in [Sessions -> ClientStates] /\ client[t] \in ClientStates
  BY Typed
<1> USE <1>0 DEF ClientStates
<1>1. ASSUME NEW s \in Sessions, NEW line, Send(s, line)
      PROVE  Stays(t) \/ Turns(t) \/ Writes(t) \/ Ends(t)
  <2>1. CASE t # s
    BY <1>1, <2>1 DEF Send, Stays
  <2>2. CASE t = s
    <3>1. CASE /\ client[s].phase = "command"
               /\ client' = [client EXCEPT ![s].phase = "body"]
      BY <2>2, <3>1 DEF Turns
    <3>2. CASE /\ client[s].phase = "command"
               /\ client' = [client EXCEPT ![s].phase = "gone"]
      BY <2>2, <3>2 DEF Turns
    <3>3. CASE /\ client[s].phase = "body"
               /\ line \in LinesOf[s]
               /\ client' = [client EXCEPT ![s].body = Append(@, line), ![s].left = @ - 1]
      <4>1. line \in Lines
        BY <3>3 DEF Lines
      <4> QED
        BY <2>2, <3>3, <4>1 DEF Writes
    <3>4. CASE /\ client[s].phase = "body"
               /\ client' = [client EXCEPT ![s].phase = "command", ![s].body = <<>>,
                                           ![s].meant = Append(@, client[s].body)]
      BY <2>2, <3>4 DEF Ends
    <3> QED
      BY <1>1, <3>1, <3>2, <3>3, <3>4 DEF Send
  <2> QED
    BY <2>1, <2>2
<1>2. ASSUME NEW s \in Sessions, NEW p \in {"gone", "cut"},
             client[s].phase \in {"command", "body"},
             client' = [client EXCEPT ![s].phase = p]
      PROVE  Stays(t) \/ Turns(t)
  <2>1. CASE t = s
    BY <1>2, <2>1 DEF Turns
  <2>2. CASE t # s
    BY <1>2, <2>2 DEF Stays
  <2> QED
    BY <2>1, <2>2
<1>3. CASE client' = client
  BY <1>3 DEF Stays
<1>4. ASSUME NEW s \in Sessions,
             Read(s) \/ PostEnds(s) \/ CutLine(s) \/ HangUp(s) \/ EndOfFile(s)
      PROVE  Stays(t) \/ Turns(t) \/ Writes(t) \/ Ends(t)
  BY <1>1, <1>2, <1>3, <1>4 DEF Read, Step, PostEnds, CutLine, HangUp, EndOfFile
<1> QED
  BY <1>3, <1>4 DEF Next, Serve, DaemonStops, vars

LEMMA MailTyped ==
    ASSUME TypeOK, NEW r \in Requests, Known(r)
    PROVE  Mail(r.from, r.mail) \in Seq(Lines)
<1> DEFINE c == client[r.from]
<1>1. /\ r.mail \in Nat \ {0} /\ c.body \in Seq(Lines) /\ c.meant \in Seq(Seq(Lines))
  BY Typed DEF Requests, ClientStates
<1>2. r.mail <= Len(c.meant) => c.meant[r.mail] \in Seq(Lines)
  BY <1>1
<1> QED
  BY <1>1, <1>2 DEF Mail

\* A mail that is in the past of its client stays as it is, and the one that it
\* is sending becomes longer at its end.
LEMMA MailGrows ==
    ASSUME TypeOK, [Next]_vars, NEW r \in Requests, Known(r)
    PROVE  /\ Mail(r.from, r.mail) \in Seq(Lines)
           /\ Known(r)'
           /\ \/ Mail(r.from, r.mail)' = Mail(r.from, r.mail)
              \/ /\ r.mail > Len(client[r.from].meant)
                 /\ client[r.from].phase # "cut"
                 /\ \E line \in Lines :
                       Mail(r.from, r.mail)' = Append(Mail(r.from, r.mail), line)
<1> DEFINE s == r.from
           c == client[r.from]
           d == client'[r.from]
<1>0. /\ s \in Sessions /\ r.mail \in Nat \ {0}
      /\ c \in ClientStates /\ c.body \in Seq(Lines) /\ c.meant \in Seq(Seq(Lines))
      /\ Len(c.meant) \in Nat
  BY Typed DEF Requests, ClientStates
<1>1. Mail(s, r.mail) \in Seq(Lines)
  BY MailTyped
<1>2. CASE Stays(s)
  BY <1>1, <1>2 DEF Stays, Known, Mail
<1>3. CASE Turns(s)
  BY <1>1, <1>3 DEF Turns, Known, Mail
<1>4. CASE Writes(s)
  BY <1>0, <1>1, <1>4 DEF Writes, Known, Mail
<1>5. CASE Ends(s)
  <2>1. /\ Len(d.meant) = Len(c.meant) + 1
        /\ \A k \in 1..Len(c.meant) : d.meant[k] = c.meant[k]
        /\ d.meant[Len(c.meant) + 1] = c.body
    BY <1>0, <1>5, AppendIs DEF Ends
  <2>2. Known(r)'
    BY <1>0, <1>5, <2>1 DEF Ends, Known
  <2>3. Mail(s, r.mail)' = Mail(s, r.mail)
    <3>1. r.mail <= Len(c.meant) + 1
      BY DEF Known
    <3>2. CASE r.mail <= Len(c.meant)
      <4>1. r.mail \in 1..Len(c.meant) /\ r.mail <= Len(d.meant)
        BY <1>0, <2>1, <3>2
      <4>2. d.meant[r.mail] = c.meant[r.mail]
        BY <2>1, <4>1
      <4> QED
        BY <3>2, <4>1, <4>2 DEF Mail
    <3>3. CASE r.mail = Len(c.meant) + 1
      BY <1>0, <2>1, <3>3 DEF Mail
    <3> QED
      BY <1>0, <3>1, <3>2, <3>3
  <2> QED
    BY <1>1, <2>2, <2>3
<1> QED
  BY <1>0, <1>2, <1>3, <1>4, <1>5, ClientMoves

\* So a request stays what it was of its mail.
LEMMA GoodStays ==
    ASSUME TypeOK, [Next]_vars, NEW r \in Requests, Good(r)
    PROVE  /\ Good(r)'
           /\ ~Plain(Mail(r.from, r.mail)) => ~Plain(Mail(r.from, r.mail))'
<1> DEFINE s == r.from
           m == Mail(r.from, r.mail)
<1>0. /\ r.from \in Sessions /\ r.mail \in Nat \ {0} /\ r.body \in Seq(Lines)
      /\ client[s] \in ClientStates
      /\ Known(r) /\ Whole(r)
  BY Typed DEF Requests, Good
<1>1. m \in Seq(Lines) /\ Known(r)' /\ Len(r.body) \in Nat
  BY <1>0, MailGrows
<1>2. PICK i \in Nat : Runs(r, i)
  BY DEF Good
<1>3. CASE Mail(r.from, r.mail)' = m
  <2>1. Runs(r, i)'
    BY <1>2, <1>3 DEF Runs
  <2>2. Whole(r)'
    <3>1. client'[s].phase = client[s].phase \/ client[s].phase # "cut"
      BY <1>0, ClientMoves DEF Stays, Turns, Writes, Ends
    <3>2. Len(client[s].meant) <= Len(client'[s].meant)
      <4>1. client[s].meant \in Seq(Seq(Lines)) /\ client[s].body \in Seq(Lines)
        BY <1>0 DEF ClientStates
      <4>2. Len(Append(client[s].meant, client[s].body)) = Len(client[s].meant) + 1
            /\ Len(client[s].meant) \in Nat
        BY <4>1, AppendIs
      <4> QED
        BY <1>0, <4>2, ClientMoves DEF Stays, Turns, Writes, Ends
    <3>3. Len(client[s].meant) \in Nat /\ Len(client'[s].meant) \in Nat
      BY <1>0, ClientMoves, AppendIs DEF ClientStates, Stays, Turns, Writes, Ends
    <3> QED
      BY <1>0, <1>3, <3>1, <3>2, <3>3 DEF Whole
  <2> QED
    BY <1>1, <1>3, <2>1, <2>2 DEF Good
<1>4. CASE /\ r.mail > Len(client[s].meant)
           /\ client[s].phase # "cut"
           /\ \E line \in Lines : Mail(r.from, r.mail)' = Append(m, line)
  <2>1. PICK line \in Lines : Mail(r.from, r.mail)' = Append(m, line)
    BY <1>4
  <2>2. ~Plain(m)
    <3>1. Len(client[s].meant) \in Nat
      BY <1>0 DEF ClientStates
    <3> QED
      BY <1>0, <1>4, <3>1 DEF Whole
  <2>3. ~Plain(Append(m, line))
    BY <1>1, <2>2, AppendPlain
  <2>4. ~Plain(Mail(r.from, r.mail))'
    BY <2>1, <2>3 DEF Plain
  <2>5. Whole(r)'
    BY <2>4 DEF Whole
  <2>6. Runs(r, i)'
    <3>1. /\ Len(Append(m, line)) = Len(m) + 1 /\ Len(m) \in Nat
          /\ \A k \in 1..Len(m) : Append(m, line)[k] = m[k]
      BY <1>1, AppendIs
    <3>2. /\ i + Len(r.body) <= Len(m)
          /\ \A k \in 1..Len(r.body) : r.body[k] = m[i + k] /\ i + k \in 1..Len(m)
      BY <1>1, <1>2, <3>1 DEF Runs
    <3> QED
      BY <1>1, <2>1, <3>1, <3>2 DEF Runs
  <2> QED
    BY <1>1, <2>4, <2>5, <2>6 DEF Good
<1> QED
  BY <1>0, <1>3, <1>4, MailGrows

-----------------------------------------------------------------------------
\* What a client does while its session ends the data.
Cuts(s) ==
    /\ client'[s].phase = "cut"
    /\ client'[s].meant = client[s].meant
    /\ client'[s].body = client[s].body

Spaces(s) ==
    /\ client'[s].phase = "body"
    /\ client'[s].meant = client[s].meant
    /\ \E line \in Lines \cap SpacedDots : client'[s].body = Append(client[s].body, line)

Posts(s) ==
    /\ client[s].phase = "body" /\ session[s].at = "data"
    /\ Ends(s) \/ Cuts(s) \/ Spaces(s)

LEMMA EndDataPosts ==
    ASSUME TypeOK, NEW s \in Sessions, NEW line, Step(s, line) \/ CutLine(s),
           client[s].phase = "command" => session[s].at # "data"
    PROVE  /\ served' = served
           /\ \/ backlog' = backlog
              \/ Posts(s) /\ backlog' = Append(backlog, Request(s))
<1>0. client \in [Sessions -> ClientStates] /\ client[s] \in ClientStates
  BY Typed
<1>1. CASE CutLine(s)
  BY <1>0, <1>1 DEF CutLine, EndData, Posts, Cuts, Request, ClientStates
<1>2. CASE Step(s, line) /\ ~EndData(s, line)
  BY <1>2 DEF Step, ReadCommand, ReadBody, TranslateRaises
<1>3. CASE Step(s, line) /\ EndData(s, line)
  <2>1. /\ served' = served /\ session[s].at = "data"
        /\ backlog' = backlog \/ backlog' = Append(backlog, Request(s))
        /\ line \in SpacedDots \cup {Dot}
        /\ client[s].phase # "command"
    BY <1>3 DEF Step, EndData, Request, EndsData
  <2>2. CASE /\ client[s].phase = "body"
             /\ line \in LinesOf[s]
             /\ client' = [client EXCEPT ![s].body = Append(@, line), ![s].left = @ - 1]
    <3>1. line \in Lines \cap SpacedDots
      BY <2>1, <2>2, LineAssumption DEF Lines
    <3>2. Spaces(s)
      BY <1>0, <2>2, <3>1 DEF Spaces, ClientStates
    <3> QED
      BY <2>1, <2>2, <3>2 DEF Posts
  <2>3. CASE /\ client[s].phase = "body"
             /\ client' = [client EXCEPT ![s].phase = "command", ![s].body = <<>>,
                                         ![s].meant = Append(@, client[s].body)]
    <3>1. Ends(s)
      BY <1>0, <2>3 DEF Ends, ClientStates
    <3> QED
      BY <2>1, <2>3, <3>1 DEF Posts
  <2> QED
    BY <1>3, <2>1, <2>2, <2>3 DEF Step, Send
<1> QED
  BY <1>1, <1>2, <1>3

\* What a session posts is a run of its client's mail, whole if that is plain,
\* and comes after all that it posted before.
LEMMA RequestGood ==
    ASSUME IInv, NEW s \in Sessions, Posts(s), NEW r, r = Request(s)
    PROVE  r \in Requests /\ Good(r)'
<1> DEFINE c == client[s]
           d == client'[s]
           n == Len(client[s].meant) + 1
<1>0. /\ c \in ClientStates /\ c.body \in Seq(Lines) /\ c.meant \in Seq(Seq(Lines))
      /\ session[s].buffer \in Seq(Lines)
      /\ r \in Requests /\ Len(c.meant) \in Nat
  BY Typed, RequestTypeOK DEF IInv, ClientStates, SessionStates
<1>1. r.from = s /\ r.mail = n /\ r.body = session[s].buffer
  BY DEF Request
<1>2. PICK i \in Nat : Holds(s, i)
  BY DEF IInv, Posts, Synced
<1>3. /\ Len(c.body) = i + Len(r.body) /\ Len(r.body) \in Nat
      /\ \A k \in 1..Len(r.body) : r.body[k] = c.body[i + k]
      /\ Plain(c.body) => r.body = c.body
  <2>1. /\ Len(c.body) = i + Len(r.body)
        /\ \A k \in 1..Len(r.body) : r.body[k] = c.body[i + k]
        /\ Plain(c.body) => i = 0
    BY <1>1, <1>2 DEF Holds
  <2>2. Len(r.body) \in Nat
    BY <1>0, <1>1
  <2>3. ASSUME i = 0 PROVE r.body = c.body
    <3>1. Len(c.body) = Len(r.body) /\ \A k \in 1..Len(r.body) : r.body[k] = c.body[k]
      BY <2>1, <2>2, <2>3
    <3>2. r.body \in Seq(Lines) /\ c.body \in Seq(Lines)
      BY <1>0, <1>1
    <3> QED
      BY <3>1, <3>2, SeqEqual
  <2> QED
    BY <2>1, <2>2, <2>3
<1>4. CASE Cuts(s)
  <2>1. Mail(r.from, r.mail)' = c.body
    BY <1>0, <1>1, <1>4 DEF Cuts, Mail
  <2>2. Known(r)' /\ Whole(r)' /\ Runs(r, i)'
    BY <1>0, <1>1, <1>2, <1>3, <1>4, <2>1 DEF Cuts, Known, Whole, Runs
  <2> QED
    BY <1>0, <2>2 DEF Good
<1>5. CASE Ends(s)
  <2>1. Len(d.meant) = n /\ d.meant[n] = c.body /\ d.phase = "command"
    BY <1>0, <1>5, AppendIs DEF Ends
  <2>2. Mail(r.from, r.mail)' = c.body
    BY <1>0, <1>1, <2>1 DEF Mail
  <2>3. Known(r)' /\ Runs(r, i)'
    BY <1>0, <1>1, <1>2, <1>3, <2>1, <2>2 DEF Known, Runs
  <2>4. Whole(r)'
    <3>1. r.mail <= Len(client[r.from].meant)'
      BY <1>0, <1>1, <2>1
    <3> QED
      BY <1>3, <2>2, <3>1 DEF Whole
  <2> QED
    BY <1>0, <2>3, <2>4 DEF Good
<1>6. CASE Spaces(s)
  <2>1. PICK line \in Lines \cap SpacedDots : d.body = Append(c.body, line)
    BY <1>6 DEF Spaces
  <2>2. Mail(r.from, r.mail)' = d.body
    BY <1>0, <1>1, <1>6 DEF Spaces, Mail
  <2>3. ~Plain(Append(c.body, line))
    BY <1>0, AppendPlain
  <2>4. /\ Len(Append(c.body, line)) = Len(c.body) + 1 /\ Len(c.body) \in Nat
        /\ \A k \in 1..Len(c.body) : Append(c.body, line)[k] = c.body[k]
    BY <1>0, AppendIs
  <2>5. Whole(r)'
    BY <2>1, <2>2, <2>3 DEF Whole, Plain
  <2>6. Known(r)'
    BY <1>0, <1>1, <1>6 DEF Spaces, Known
  <2>7. Runs(r, i)'
    <3>1. ASSUME NEW k \in 1..Len(r.body) PROVE r.body[k] = d.body[i + k]
      <4>1. i + k \in 1..Len(c.body) /\ r.body[k] = c.body[i + k]
        BY <1>2, <1>3
      <4> QED
        BY <2>1, <2>4, <4>1
    <3>2. i + Len(r.body) <= Len(d.body)
      BY <1>2, <1>3, <2>1, <2>4
    <3> QED
      BY <2>2, <3>1, <3>2 DEF Runs
  <2> QED
    BY <1>0, <2>5, <2>6, <2>7 DEF Good
<1> QED
  BY <1>4, <1>5, <1>6 DEF Posts

LEMMA RequestInOrder ==
    ASSUME TypeOK, [Next]_vars, NEW s \in Sessions, Posts(s), NEW r, r = Request(s),
           NEW f \in Requests, Good(f)
    PROVE  InOrder(f, r)'
<1>1. r.from = s /\ r.mail = Len(client[s].meant) + 1 /\ Len(client[s].meant) \in Nat
  BY RequestTypeOK DEF Request
<1>2. f.mail \in Nat /\ Known(f) /\ Whole(f)
  BY DEF Requests, Good
<1>3. CASE f.from = s /\ f.mail = r.mail
  <2>1. ~Plain(Mail(f.from, f.mail))
    BY <1>1, <1>2, <1>3 DEF Whole, Posts
  <2>2. ~Plain(Mail(f.from, f.mail))'
    BY <2>1, GoodStays
  <2> QED
    BY <1>3, <2>2 DEF InOrder, Ragged
<1> QED
  BY <1>1, <1>2, <1>3 DEF Known, InOrder

LEMMA PostedTyped ==
    ASSUME TypeOK
    PROVE  /\ \A i \in DOMAIN backlog : backlog[i] \in Requests /\ backlog[i] \in Posted
           /\ \A i \in DOMAIN served :
                 served[i].request \in Requests /\ served[i].request \in Posted
           /\ DOMAIN backlog = 1..Len(backlog) /\ Len(backlog) \in Nat
           /\ DOMAIN served = 1..Len(served) /\ Len(served) \in Nat
<1>1. /\ backlog \in Seq(Requests)
      /\ served \in Seq([request : Requests, reply : {"envelope", "error"}])
  BY Typed
<1>2. DOMAIN backlog = 1..Len(backlog) /\ DOMAIN served = 1..Len(served)
  BY <1>1
<1>3. \A i \in DOMAIN backlog : backlog[i] \in Requests
  BY <1>1, <1>2
<1>4. ASSUME NEW i \in DOMAIN served PROVE served[i].request \in Requests
  <2>1. served[i] \in [request : Requests, reply : {"envelope", "error"}]
    BY <1>1, <1>2, ElementOfSeq
  <2> QED
    BY <2>1
<1>5. /\ \A i \in DOMAIN backlog : backlog[i] \in Posted
      /\ \A i \in DOMAIN served : served[i].request \in Posted
  BY Zenon DEF Posted
<1>6. Len(backlog) \in Nat /\ Len(served) \in Nat
  BY <1>1
<1> QED
  BY <1>2, <1>3, <1>4, <1>5, <1>6, Zenon

\* The three queues of a step that posts nothing: as they were, their first
\* request served, or lost.
Serves ==
    /\ backlog # <<>>
    /\ \E reply : served' = Append(served, [request |-> Head(backlog), reply |-> reply])
    /\ backlog' = Tail(backlog)

Loses == backlog' = <<>> /\ served' = served

LEMMA QueueMoves ==
    ASSUME IInv, [Next]_vars
    PROVE  \/ UNCHANGED <<backlog, served>>
           \/ Serves
           \/ Loses
           \/ \E s \in Sessions :
                 Posts(s) /\ backlog' = Append(backlog, Request(s)) /\ served' = served
<1>1. ASSUME NEW s \in Sessions, NEW line, Step(s, line) \/ CutLine(s)
      PROVE  \/ UNCHANGED <<backlog, served>>
             \/ Posts(s) /\ backlog' = Append(backlog, Request(s)) /\ served' = served
  <2>1. TypeOK /\ (client[s].phase = "command" => session[s].at # "data")
    BY DEF IInv, Synced
  <2> QED
    BY <1>1, <2>1, EndDataPosts
<1>2. CASE Serve
  BY <1>2 DEF Serve, Serves
<1>3. CASE DaemonStops
  BY <1>3 DEF DaemonStops, Loses
<1> QED
  BY <1>1, <1>2, <1>3 DEF Next, Read, PostEnds, HangUp, EndOfFile, vars

LEMMA NextGood ==
    IInv /\ [Next]_vars => (\A r \in Posted : Good(r))' /\ Ordered'
<1> SUFFICES ASSUME IInv, [Next]_vars
             PROVE  (\A r \in Posted : Good(r))' /\ Ordered'
  OBVIOUS
<1>0. TypeOK /\ TypeOK' /\ Ordered
  BY NextTypeOK DEF IInv
<1>1. ASSUME NEW r \in Posted
      PROVE  Good(r)' /\ Good(r) /\ r \in Requests /\ (r \in Ragged => r \in Ragged')
  <2>1. Good(r) /\ r \in Requests
    BY <1>0, PostedTyped DEF IInv, Posted
  <2> QED
    BY <1>0, <2>1, GoodStays DEF Ragged
<1>2. /\ \A i \in DOMAIN backlog : backlog[i] \in Posted
      /\ \A i \in DOMAIN served : served[i].request \in Posted
      /\ DOMAIN backlog = 1..Len(backlog) /\ Len(backlog) \in Nat
      /\ DOMAIN served = 1..Len(served) /\ Len(served) \in Nat
      /\ backlog \in Seq(Requests)
      /\ served \in Seq([request : Requests, reply : {"envelope", "error"}])
  BY <1>0, PostedTyped, Typed
<1>3. ASSUME NEW f \in Posted, NEW g, InOrder(f, g) PROVE InOrder(f, g)'
  BY <1>1, <1>3 DEF InOrder
<1>4. CASE UNCHANGED <<backlog, served>>
  <2>1. Posted' = Posted
    BY <1>4 DEF Posted
  <2>2. (\A r \in Posted : Good(r))'
    BY <1>1, <2>1
  <2>3. Ordered'
    BY <1>0, <1>2, <1>1, <1>4 DEF Ordered, InOrder
  <2> QED
    BY <2>2, <2>3
<1>5. CASE Loses
  <2>1. Posted' \subseteq Posted /\ DOMAIN backlog' = {}
    BY <1>5 DEF Loses, Posted
  <2>2. (\A r \in Posted : Good(r))'
    BY <1>1, <2>1
  <2>3. Ordered'
    BY <1>0, <1>2, <1>1, <1>5, <2>1 DEF Loses, Ordered, InOrder
  <2> QED
    BY <2>2, <2>3
<1>6. CASE Serves
  <2>1. PICK reply : served' = Append(served, [request |-> Head(backlog), reply |-> reply])
    BY <1>6 DEF Serves
  <2>2. /\ backlog # <<>> /\ Len(backlog) > 0
        /\ Head(backlog) = backlog[1]
        /\ backlog' = Tail(backlog)
        /\ DOMAIN backlog' = 1..(Len(backlog) - 1)
        /\ \A i \in 1..(Len(backlog) - 1) : backlog'[i] = backlog[i + 1]
    BY <1>2, <1>6, HeadTailProperties DEF Serves
  <2>3. /\ DOMAIN served' = 1..(Len(served) + 1)
        /\ \A i \in 1..Len(served) : served'[i] = served[i]
        /\ served'[Len(served) + 1].request = backlog[1]
    BY <1>2, <2>1, <2>2, AppendProperties
  <2>4. \A i \in DOMAIN served' : served'[i].request \in Posted
    BY <1>2, <2>2, <2>3
  <2>5. \A i \in DOMAIN backlog' : backlog'[i] \in Posted
    BY <1>2, <2>2
  <2>6. Posted' \subseteq Posted
    BY <2>4, <2>5 DEF Posted
  <2>7. (\A r \in Posted : Good(r))'
    BY <1>1, <2>6
  <2>8. ASSUME NEW i \in DOMAIN served', NEW j \in DOMAIN served', i < j
        PROVE  InOrder(served'[i].request, served'[j].request)
    <3>1. i \in 1..Len(served) /\ served'[i] = served[i]
      BY <1>2, <2>3, <2>8
    <3>2. CASE j \in 1..Len(served)
      BY <1>0, <1>2, <2>3, <2>8, <3>1, <3>2 DEF Ordered
    <3>3. CASE j = Len(served) + 1
      <4>1. 1 \in DOMAIN backlog
        BY <1>2, <2>2
      <4> QED
        BY <1>0, <1>2, <2>3, <3>1, <3>3, <4>1 DEF Ordered
    <3> QED
      BY <1>2, <2>3, <3>2, <3>3
  <2>9. ASSUME NEW i \in DOMAIN served', NEW j \in DOMAIN backlog'
        PROVE  InOrder(served'[i].request, backlog'[j])
    BY <1>0, <1>2, <2>2, <2>3, <2>9 DEF Ordered
  <2>10. ASSUME NEW i \in DOMAIN backlog', NEW j \in DOMAIN backlog', i < j
         PROVE  InOrder(backlog'[i], backlog'[j])
    BY <1>0, <1>2, <2>2, <2>10 DEF Ordered
  <2>11. Ordered'
    BY <1>1, <2>4, <2>5, <2>8, <2>9, <2>10 DEF Ordered, InOrder
  <2> QED
    BY <2>7, <2>11
<1>7. ASSUME NEW s \in Sessions, Posts(s), backlog' = Append(backlog, Request(s)),
             served' = served
      PROVE  (\A r \in Posted : Good(r))' /\ Ordered'
  <2>1. PICK r : r = Request(s)
    OBVIOUS
  <2>2. r \in Requests /\ Good(r)'
    BY <1>7, <2>1, RequestGood
  <2>3. \A f \in Posted : InOrder(f, r)'
    BY <1>0, <1>1, <1>7, <2>1, RequestInOrder
  <2>4. /\ DOMAIN backlog' = 1..(Len(backlog) + 1)
        /\ \A i \in 1..Len(backlog) : backlog'[i] = backlog[i]
        /\ backlog'[Len(backlog) + 1] = r
    BY <1>2, <1>7, <2>1, <2>2, AppendProperties
  <2>5. \A i \in DOMAIN backlog' : backlog'[i] \in Posted \cup {r}
    BY <1>2, <2>4
  <2>6. Posted' \subseteq Posted \cup {r}
    BY <1>2, <1>7, <2>5 DEF Posted
  <2>7. (\A q \in Posted : Good(q))'
    BY <1>1, <2>2, <2>6
  <2>8. \A f \in Posted :
           f.from = r.from => (f.mail < r.mail \/ (f.mail = r.mail /\ f \in Ragged'))
    BY <2>3 DEF InOrder
  <2>9. \A i, j \in DOMAIN backlog' :
           i < j => backlog'[i] \in Posted
                    /\ (backlog'[j] = r \/ InOrder(backlog'[i], backlog'[j]))
    BY <1>0, <1>2, <2>4 DEF Ordered
  <2>10. \A i \in DOMAIN served, j \in DOMAIN backlog' :
            backlog'[j] = r \/ InOrder(served[i].request, backlog'[j])
    BY <1>0, <1>2, <2>4 DEF Ordered
  <2>11. /\ \A i, j \in DOMAIN served' :
               i < j => InOrder(served[i].request, served[j].request)'
         /\ \A i \in DOMAIN served', j \in DOMAIN backlog' :
               InOrder(served[i].request, backlog[j])'
         /\ \A i, j \in DOMAIN backlog' : i < j => InOrder(backlog[i], backlog[j])'
    <3>1. \A i, j \in DOMAIN served' :
             i < j => InOrder(served[i].request, served[j].request)'
      <4>1. \A i, j \in DOMAIN served :
               i < j => served[i].request \in Posted
                        /\ InOrder(served[i].request, served[j].request)
        BY <1>0, <1>2 DEF Ordered
      <4> QED
        BY <1>1, <1>7, <4>1 DEF InOrder
    <3>2. \A i \in DOMAIN served', j \in DOMAIN backlog' :
             InOrder(served[i].request, backlog[j])'
      BY <1>1, <1>2, <1>7, <2>8, <2>10 DEF InOrder
    <3>3. \A i, j \in DOMAIN backlog' : i < j => InOrder(backlog[i], backlog[j])'
      BY <1>1, <2>8, <2>9 DEF InOrder
    <3> QED
      BY <3>1, <3>2, <3>3
  <2> QED
    BY <2>7, <2>11 DEF Ordered
<1> QED
  BY <1>4, <1>5, <1>6, <1>7, QueueMoves

LEMMA InitIInv == Init => IInv
<1> SUFFICES ASSUME Init PROVE IInv
  OBVIOUS
<1> USE DEF Init
<1>1. TypeOK
  <2>1. /\ <<>> \in Seq(Lines) /\ <<>> \in Seq(Seq(Lines)) /\ <<>> \in Seq(Requests)
        /\ <<>> \in Seq([request : Requests, reply : {"envelope", "error"}])
    OBVIOUS
  <2> QED
    BY <2>1, BoundAssumption DEF TypeOK
<1>2. \A s \in Sessions : Synced(s)
  BY DEF Synced
<1>3. DOMAIN backlog = {} /\ DOMAIN served = {}
  OBVIOUS
<1>4. Posted = {}
  BY <1>3 DEF Posted
<1>5. Ordered
  BY <1>3 DEF Ordered
<1> QED
  BY <1>1, <1>2, <1>4, <1>5 DEF IInv

\* The invariant of the proxy: types, what a session that buffers holds of its
\* client's mail, what each request is of a mail, and the order of the queue.
THEOREM Invariant == Spec => []IInv
<1>1. IInv /\ [Next]_vars => IInv'
  <2> SUFFICES ASSUME IInv, [Next]_vars PROVE IInv'
    OBVIOUS
  <2>1. TypeOK' /\ (\A s \in Sessions : Synced(s))' /\ (\A r \in Posted : Good(r))' /\ Ordered'
    BY NextTypeOK, NextSynced, NextGood
  <2> QED
    BY <2>1 DEF IInv
<1> QED
  BY InitIInv, <1>1, PTL DEF Spec

\* Clients, sessions, requests and replies keep their shape.
THEOREM TypeCorrect == Spec => []TypeOK
<1>1. IInv => TypeOK
  BY DEF IInv
<1> QED
  BY Invariant, <1>1, PTL

\* A request, seen as a run of lines, is a subsequence of its mail.
LEMMA RunIsSubSeq ==
    ASSUME NEW b \in Seq(Lines), NEW m \in Seq(Lines), NEW i \in Nat,
           i + Len(b) <= Len(m), \A k \in 1..Len(b) : b[k] = m[i + k]
    PROVE  b = SubSeq(m, i + 1, i + Len(b))
<1>1. Len(b) \in Nat /\ Len(m) \in Nat
  OBVIOUS
<1>2. /\ SubSeq(m, i + 1, i + Len(b)) \in Seq(Lines)
      /\ Len(SubSeq(m, i + 1, i + Len(b))) = Len(b)
      /\ \A k \in 1..Len(b) : SubSeq(m, i + 1, i + Len(b))[k] = m[i + k]
  <2>1. \A k \in (i + 1)..(i + Len(b)) : m[k] \in Lines
    BY <1>1
  <2>2. /\ SubSeq(m, i + 1, i + Len(b)) \in Seq(Lines)
        /\ Len(SubSeq(m, i + 1, i + Len(b)))
              = IF i + 1 <= i + Len(b) THEN (i + Len(b)) - (i + 1) + 1 ELSE 0
        /\ \A k \in 1..((i + Len(b)) - (i + 1) + 1) :
              SubSeq(m, i + 1, i + Len(b))[k] = m[(i + 1) + k - 1]
    BY <1>1, <2>1, SubSeqProperties
  <2>3. /\ (IF i + 1 <= i + Len(b) THEN (i + Len(b)) - (i + 1) + 1 ELSE 0) = Len(b)
        /\ (i + Len(b)) - (i + 1) + 1 = Len(b)
        /\ \A k \in 1..Len(b) : (i + 1) + k - 1 = i + k
    BY <1>1
  <2> QED
    BY <2>2, <2>3
<1> QED
  BY <1>2, SeqEqual

\* No request that ever leaves the proxy holds a line of another mail or of
\* another client, or lines of its own in another order: translate_smtp_to_mx2
\* is given a run of what the client sent between DATA and its dot.
THEOREM PostsFragments == Spec => []PostedIsFragment
<1>1. IInv => PostedIsFragment
  <2> SUFFICES ASSUME IInv, NEW r \in Posted
               PROVE  LET mail == Mail(r.from, r.mail) IN
                      \E i \in 0 .. Len(mail) - Len(r.body) :
                          r.body = SubSeq(mail, i + 1, i + Len(r.body))
    BY DEF PostedIsFragment
  <2>1. TypeOK /\ r \in Requests /\ Good(r)
    BY PostedTyped DEF IInv, Posted
  <2>2. Mail(r.from, r.mail) \in Seq(Lines) /\ r.body \in Seq(Lines)
    BY <2>1, MailTyped DEF Good, Requests
  <2>3. PICK i \in Nat : Runs(r, i)
    BY <2>1 DEF Good
  <2>4. r.body = SubSeq(Mail(r.from, r.mail), i + 1, i + Len(r.body))
    BY <2>2, <2>3, RunIsSubSeq DEF Runs
  <2>5. i \in 0 .. Len(Mail(r.from, r.mail)) - Len(r.body)
    <3>1. Len(Mail(r.from, r.mail)) \in Nat /\ Len(r.body) \in Nat
      BY <2>2
    <3> QED
      BY <2>3, <3>1 DEF Runs
  <2> QED
    BY <2>4, <2>5
<1> QED
  BY Invariant, <1>1, PTL

\* A mail none of whose lines strips to a dot is posted whole or not at all, and
\* not before its client has ended it (or was cut off in its last line).
THEOREM PostsWhole == Spec => []PlainIsWhole
<1>1. IInv => PlainIsWhole
  BY DEF IInv, PlainIsWhole, Good, Whole
<1> QED
  BY Invariant, <1>1, PTL

\* The daemon serves the mails of a client in their order and a plain one once,
\* however late, and whatever the proxy has given up on.
THEOREM ServesInOrder == Spec => []ServedInOrder
<1>1. IInv => ServedInOrder
  BY DEF IInv, ServedInOrder, Ordered, InOrder, Ragged
<1> QED
  BY Invariant, <1>1, PTL-----------------------------------------------------------------------------
\* The request of a mail is waiting in the daemon's queue, or has its envelope.
Translated(s, n) ==
    \/ \E i \in DOMAIN backlog : backlog[i].from = s /\ backlog[i].mail = n
    \/ \E i \in DOMAIN served :
          /\ served[i].request.from = s
          /\ served[i].request.mail = n
          /\ served[i].reply = "envelope"

\* What _post_to_gateway swallows: a post that does not reach the daemon, a
\* request that is lost with it, an answer that is an error.
Swallowed ==
    \/ \E s \in Sessions :
          session[s].at = "data" /\ session'[s].at = "posting" /\ backlog' = backlog
    \/ DaemonStops
    \/ \E i \in DOMAIN served' : i \notin DOMAIN served /\ served'[i].reply = "error"

\* A mail whose data a session has ended is translated before the client is
\* told so, also if it was ended early.
EndedIsTranslated(s) ==
    /\ client[s].phase = "command" /\ session[s].at = "posting" =>
          \A n \in Nat : n = Len(client[s].meant) => Translated(s, n)
    /\ client[s].phase = "body" /\ session[s].at \in {"command", "posting"} =>
          \A n \in Nat : n = Len(client[s].meant) + 1 => Translated(s, n)

ToldIsTranslated(s) == \A n \in accepted[s] : Translated(s, n)

\* A request is not forgotten in a step that swallows nothing.
LEMMA TranslatedStays ==
    ASSUME IInv, [Next]_vars, ~Swallowed, NEW s, NEW n, Translated(s, n)
    PROVE  Translated(s, n)'
<1>0. /\ backlog \in Seq(Requests)
      /\ served \in Seq([request : Requests, reply : {"envelope", "error"}])
      /\ DOMAIN backlog = 1..Len(backlog) /\ Len(backlog) \in Nat
      /\ DOMAIN served = 1..Len(served) /\ Len(served) \in Nat
  BY Typed, PostedTyped DEF IInv
<1>1. CASE UNCHANGED <<backlog, served>>
  BY <1>1 DEF Translated
<1>2. CASE Serve
  <2>1. PICK reply \in {"envelope", "error"} :
           served' = Append(served, [request |-> Head(backlog), reply |-> reply])
    BY <1>2 DEF Serve
  <2>2. backlog # <<>> /\ backlog' = Tail(backlog)
    BY <1>2 DEF Serve
  <2>3. /\ Len(backlog) > 0 /\ Head(backlog) = backlog[1] /\ Head(backlog) \in Requests
        /\ DOMAIN backlog' = 1..(Len(backlog) - 1)
        /\ \A i \in 1..(Len(backlog) - 1) : backlog'[i] = backlog[i + 1]
    BY <1>0, <2>2, HeadTailProperties
  <2>4. /\ DOMAIN served' = 1..(Len(served) + 1)
        /\ \A i \in 1..Len(served) : served'[i] = served[i]
        /\ served'[Len(served) + 1] = [request |-> backlog[1], reply |-> reply]
    BY <1>0, <2>1, <2>3, AppendProperties
  <2>5. reply = "envelope"
    <3>1. Len(served) + 1 \in DOMAIN served' /\ Len(served) + 1 \notin DOMAIN served
      BY <1>0, <2>4
    <3>2. served'[Len(served) + 1].reply = reply
      BY <2>4
    <3> QED
      BY <2>1, <3>1, <3>2 DEF Swallowed
  <2>6. CASE \E i \in DOMAIN served : /\ served[i].request.from = s
                                     /\ served[i].request.mail = n
                                     /\ served[i].reply = "envelope"
    BY <1>0, <2>4, <2>6 DEF Translated
  <2>7. ASSUME NEW i \in DOMAIN backlog, backlog[i].from = s, backlog[i].mail = n
        PROVE  Translated(s, n)'
    <3>1. CASE i = 1
      <4> DEFINE k == Len(served) + 1
      <4>1. /\ k \in DOMAIN served' /\ served'[k].request.from = s
            /\ served'[k].request.mail = n /\ served'[k].reply = "envelope"
        BY <1>0, <2>4, <2>5, <2>7, <3>1
      <4> QED
        BY <4>1 DEF Translated
    <3>2. CASE i # 1
      <4>1. i - 1 \in DOMAIN backlog' /\ backlog'[i - 1] = backlog[i]
        BY <1>0, <2>3, <3>2
      <4> QED
        BY <2>7, <4>1 DEF Translated
    <3> QED
      BY <3>1, <3>2
  <2> QED
    BY <2>6, <2>7 DEF Translated
<1>3. ASSUME NEW t \in Sessions, backlog' = Append(backlog, Request(t)), served' = served
      PROVE  Translated(s, n)'
  <2>1. /\ DOMAIN backlog' = 1..(Len(backlog) + 1)
        /\ \A i \in 1..Len(backlog) : backlog'[i] = backlog[i]
    BY <1>0, <1>3, RequestTypeOK, AppendProperties DEF IInv
  <2> QED
    BY <1>0, <1>3, <2>1 DEF Translated
<1>4. CASE DaemonStops
  BY <1>4 DEF Swallowed
<1>5. ASSUME NEW t \in Sessions, NEW line, Step(t, line) \/ CutLine(t)
      PROVE  Translated(s, n)'
  <2>1. TypeOK /\ (client[t].phase = "command" => session[t].at # "data")
    BY DEF IInv, Synced
  <2>2. /\ served' = served
        /\ backlog' = backlog \/ backlog' = Append(backlog, Request(t))
    BY <1>5, <2>1, EndDataPosts
  <2> QED
    BY <1>1, <1>3, <2>2
<1> QED
  BY <1>1, <1>2, <1>4, <1>5 DEF Next, Read, PostEnds, HangUp, EndOfFile, vars

\* The step that ends the data posts the mail, if it swallows nothing.
LEMMA PostIsTranslated ==
    ASSUME IInv, [Next]_vars, ~Swallowed, NEW s \in Sessions, NEW line,
           EndData(s, line), NEW n, n = Len(client[s].meant) + 1
    PROVE  Translated(s, n)'
<1>0. session \in [Sessions -> SessionStates] /\ backlog \in Seq(Requests)
  BY Typed DEF IInv
<1>1. session[s].at = "data" /\ session'[s].at = "posting"
  BY <1>0 DEF EndData, SessionStates
<1>2. backlog' = Append(backlog, Request(s))
  BY <1>1 DEF EndData, Request, Swallowed
<1>3. Len(backlog) + 1 \in DOMAIN backlog' /\ backlog'[Len(backlog) + 1] = Request(s)
  BY <1>0, <1>2, RequestTypeOK, AppendProperties, LenProperties DEF IInv
<1> QED
  BY <1>3 DEF Translated, Request

\* A turn of the loop.
LEMMA ReadTranslated ==
    ASSUME IInv, [Next]_vars, ~Swallowed, NEW s \in Sessions, NEW line, Step(s, line),
           EndedIsTranslated(s), ToldIsTranslated(s)
    PROVE  EndedIsTranslated(s)' /\ ToldIsTranslated(s)'
<1> DEFINE c == client[s]
           q == session[s]
<1>0. /\ client \in [Sessions -> ClientStates] /\ session \in [Sessions -> SessionStates]
      /\ accepted \in [Sessions -> SUBSET (Nat \ {0})]
      /\ c \in ClientStates /\ q \in SessionStates
      /\ Synced(s)
  BY Typed DEF IInv
<1>1. /\ c.body \in Seq(Lines) /\ c.meant \in Seq(Seq(Lines)) /\ Len(c.meant) \in Nat
      /\ q.at # "posting"
  BY <1>0 DEF ClientStates, SessionStates, Step, LoopFree
<1>2. \A n : Translated(s, n) => Translated(s, n)'
  BY TranslatedStays
<1>3. ASSUME EndData(s, line), NEW n, n = Len(c.meant) + 1 PROVE Translated(s, n)'
  BY <1>3, PostIsTranslated
<1>4. CASE /\ c.phase = "command" /\ line \in {DataLine, QuitLine}
           /\ \E p \in {"body", "gone"} : client' = [client EXCEPT ![s].phase = p]
           /\ line = QuitLine => client'[s].phase = "gone"
  <2>1. ReadCommand(s, line)
    BY <1>0, <1>4, LineAssumption DEF Synced, Step, ReadBody, EndData, TranslateRaises
  <2>2. accepted' = accepted /\ session'[s].at \in {"data", "closed"}
    BY <1>0, <1>4, <2>1, LineAssumption DEF ReadCommand, SessionStates
  <2> QED
    BY <1>2, <2>2 DEF EndedIsTranslated, ToldIsTranslated
<1>5. CASE /\ c.phase = "body" /\ line \in LinesOf[s]
           /\ client' = [client EXCEPT ![s].body = Append(@, line), ![s].left = @ - 1]
  <2>1. client'[s].phase = "body" /\ client'[s].meant = c.meant
    BY <1>0, <1>5 DEF ClientStates
  <2>2. line # Dot
    BY <1>5, LineAssumption DEF Lines
  <2>3. accepted' = accepted
    BY <2>2 DEF Step, ReadCommand, ReadBody, EndData, TranslateRaises
  <2>4. ToldIsTranslated(s)'
    BY <1>2, <2>3 DEF ToldIsTranslated
  <2>5. CASE ReadCommand(s, line)
    BY <1>1, <1>2, <1>5, <2>1, <2>4, <2>5 DEF ReadCommand, EndedIsTranslated
  <2>6. CASE ReadBody(s, line)
    <3>1. session'[s].at = "data"
      BY <1>0, <2>6 DEF ReadBody, SessionStates
    <3> QED
      BY <2>4, <3>1 DEF EndedIsTranslated
  <2>7. CASE EndData(s, line)
    BY <1>3, <2>1, <2>4, <2>7 DEF EndedIsTranslated
  <2>8. CASE TranslateRaises(s, line)
    <3>1. session'[s].at = "closed"
      BY <1>0, <2>8 DEF TranslateRaises
    <3> QED
      BY <2>4, <3>1 DEF EndedIsTranslated
  <2> QED
    BY <2>5, <2>6, <2>7, <2>8 DEF Step
<1>6. CASE /\ c.phase = "body" /\ line = Dot
           /\ client' = [client EXCEPT ![s].phase = "command", ![s].body = <<>>,
                                       ![s].meant = Append(@, client[s].body)]
  <2>1. client'[s].phase = "command" /\ client'[s].meant = Append(c.meant, c.body)
    BY <1>0, <1>6 DEF ClientStates
  <2>2. Len(client'[s].meant) = Len(c.meant) + 1
    BY <1>1, <2>1
  <2>3. CASE ReadCommand(s, line)
    <3>1. /\ accepted' = [accepted EXCEPT ![s] = @ \cup {Len(c.meant) + 1}]
          /\ q.at = "command"
      BY <1>6, <2>3 DEF ReadCommand
    <3>2. session'[s].at # "posting"
      BY <1>0, <2>3 DEF ReadCommand, SessionStates
    <3>3. \A n : n = Len(c.meant) + 1 => Translated(s, n)'
      BY <1>1, <1>2, <1>6, <3>1 DEF EndedIsTranslated
    <3>4. \A n \in accepted'[s] : n \in accepted[s] \/ n = Len(c.meant) + 1
      BY <1>0, <3>1
    <3> QED
      BY <1>2, <2>1, <3>2, <3>3, <3>4 DEF EndedIsTranslated, ToldIsTranslated
  <2>4. CASE EndData(s, line)
    BY <1>2, <1>3, <2>1, <2>2, <2>4 DEF EndData, EndedIsTranslated, ToldIsTranslated
  <2>5. CASE TranslateRaises(s, line)
    <3>1. session'[s].at = "closed" /\ accepted' = accepted
      BY <1>0, <2>5 DEF TranslateRaises
    <3> QED
      BY <1>2, <3>1 DEF EndedIsTranslated, ToldIsTranslated
  <2>6. ~ReadBody(s, line)
    BY <1>6 DEF ReadBody, EndsData
  <2> QED
    BY <2>3, <2>4, <2>5, <2>6 DEF Step
<1>7. CASE c.phase = "command" /\ line = DataLine /\ client' = [client EXCEPT ![s].phase = "body"]
  BY <1>4, <1>7, LineAssumption
<1>8. CASE c.phase = "command" /\ line = QuitLine /\ client' = [client EXCEPT ![s].phase = "gone"]
  <2>1. client'[s].phase = "gone"
    BY <1>0, <1>8 DEF ClientStates
  <2> QED
    BY <1>4, <1>8, <2>1
<1> QED
  BY <1>5, <1>6, <1>7, <1>8 DEF Step, Send

\* Every step keeps it, for every session.
LEMMA NextTranslated ==
    ASSUME IInv, [Next]_vars, ~Swallowed, NEW t \in Sessions,
           EndedIsTranslated(t), ToldIsTranslated(t)
    PROVE  EndedIsTranslated(t)' /\ ToldIsTranslated(t)'
<1>0. /\ client \in [Sessions -> ClientStates] /\ session \in [Sessions -> SessionStates]
      /\ accepted \in [Sessions -> SUBSET (Nat \ {0})]
      /\ client[t] \in ClientStates /\ Len(client[t].meant) \in Nat
  BY Typed DEF IInv, ClientStates
<1>1. \A n : Translated(t, n) => Translated(t, n)'
  BY TranslatedStays
<1>2. CASE client'[t] = client[t] /\ session'[t] = session[t] /\ accepted'[t] = accepted[t]
  BY <1>1, <1>2 DEF EndedIsTranslated, ToldIsTranslated
<1>3. ASSUME NEW s \in Sessions, NEW line, Step(s, line)
      PROVE  EndedIsTranslated(t)' /\ ToldIsTranslated(t)'
  <2>1. CASE t = s
    BY <1>3, <2>1, ReadTranslated
  <2>2. CASE t # s
    <3>1. client'[t] = client[t]
      BY <1>0, <1>3, <2>2 DEF Step, Send
    <3>2. session'[t] = session[t] /\ accepted'[t] = accepted[t]
      BY <1>0, <1>3, <2>2 DEF Step, ReadCommand, ReadBody, EndData, TranslateRaises
    <3> QED
      BY <1>2, <3>1, <3>2
  <2> QED
    BY <2>1, <2>2
<1>4. ASSUME NEW s \in Sessions, PostEnds(s)
      PROVE  EndedIsTranslated(t)' /\ ToldIsTranslated(t)'
  <2>1. CASE t # s
    BY <1>0, <1>2, <1>4, <2>1 DEF PostEnds, Accept
  <2>2. CASE t = s
    <3>1. /\ client' = client /\ session[t].at = "posting" /\ session'[t].at = "command"
      BY <1>0, <1>4, <2>2 DEF PostEnds
    <3>2. \A n \in accepted'[t] :
             \/ n \in accepted[t]
             \/ client[t].phase = "command" /\ n = Len(client[t].meant)
      BY <1>0, <1>4, <2>2 DEF PostEnds, Accept
    <3>3. ToldIsTranslated(t)'
      <4> SUFFICES ASSUME NEW n \in accepted'[t] PROVE Translated(t, n)'
        BY DEF ToldIsTranslated
      <4> QED
        BY <1>0, <1>1, <3>1, <3>2 DEF EndedIsTranslated, ToldIsTranslated
    <3>4. EndedIsTranslated(t)'
      BY <1>1, <3>1 DEF EndedIsTranslated
    <3> QED
      BY <3>3, <3>4
  <2> QED
    BY <2>1, <2>2
<1>5. ASSUME NEW s \in Sessions, CutLine(s) \/ HangUp(s) \/ EndOfFile(s)
      PROVE  EndedIsTranslated(t)' /\ ToldIsTranslated(t)'
  <2>1. accepted' = accepted
    BY <1>5 DEF CutLine, EndData, HangUp, EndOfFile
  <2>2. CASE t # s
    BY <1>0, <1>2, <1>5, <2>1, <2>2 DEF CutLine, EndData, HangUp, EndOfFile
  <2>3. CASE t = s
    <3>1. client'[t].phase \in {"cut", "gone"} \/ session'[t].at = "closed"
      BY <1>0, <1>5, <2>3 DEF CutLine, HangUp, EndOfFile, ClientStates
    <3> QED
      BY <1>1, <2>1, <3>1 DEF EndedIsTranslated, ToldIsTranslated
  <2> QED
    BY <2>2, <2>3
<1>6. CASE Serve \/ DaemonStops \/ UNCHANGED vars
  BY <1>2, <1>6 DEF Serve, DaemonStops, vars
<1>7. ASSUME NEW s \in Sessions, Read(s)
      PROVE  EndedIsTranslated(t)' /\ ToldIsTranslated(t)'
  BY <1>3, <1>7 DEF Read
<1> QED
  BY <1>4, <1>5, <1>6, <1>7 DEF Next

\* README.md's promise holds, for mails that are cut at a spaced dot too, in as
\* far as _post_to_gateway has nothing to swallow: then 250 means that a request
\* of the mail has an envelope or waits for one.
THEOREM AcceptedIsTranslatedUnlessSwallowed ==
    Spec /\ [][~Swallowed]_vars => []AcceptedIsTranslated
<1> DEFINE TInv == \A s \in Sessions : EndedIsTranslated(s) /\ ToldIsTranslated(s)
<1>1. Init => TInv
  <2> SUFFICES ASSUME Init, NEW s \in Sessions
               PROVE  EndedIsTranslated(s) /\ ToldIsTranslated(s)
    OBVIOUS
  <2>1. client[s].phase = "command" /\ session[s].at = "command" /\ accepted[s] = {}
    BY DEF Init
  <2> QED
    BY <2>1 DEF EndedIsTranslated, ToldIsTranslated
<1>2. IInv /\ TInv /\ [Next]_vars /\ [~Swallowed]_vars => TInv'
  <2> SUFFICES ASSUME IInv, TInv, [Next]_vars, [~Swallowed]_vars, NEW t \in Sessions
               PROVE  EndedIsTranslated(t)' /\ ToldIsTranslated(t)'
    OBVIOUS
  <2>1. CASE ~Swallowed
    BY <2>1, NextTranslated
  <2>2. CASE UNCHANGED vars
    BY <2>2 DEF vars, EndedIsTranslated, ToldIsTranslated, Translated
  <2> QED
    BY <2>1, <2>2
<1>3. TInv => AcceptedIsTranslated
  BY DEF ToldIsTranslated, Translated, AcceptedIsTranslated
<1> QED
  BY <1>1, <1>2, <1>3, Invariant, PTL DEF Spec
=============================================================================
