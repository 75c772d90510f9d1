----------------------------- MODULE SmtpProxy -----------------------------
(***************************************************************************)
(* The SMTP side of the loopback proxy (src/legacy_proxy.py): one session  *)
(* per connection, all of them coroutines of one event loop, in front of   *)
(* the gateway daemon.                                                     *)
(*                                                                         *)
(* A session buffers the lines between DATA and the first line that strips *)
(* to a dot, translates the mail and posts it to the daemon with urlopen,  *)
(* which blocks the loop and with it every other session.  Whatever        *)
(* becomes of the post (answered, refused, timed out after three seconds), *)
(* its error is swallowed and the client is told 250.  The daemon serves   *)
(* the requests in its listen queue one at a time in the order of arrival, *)
(* those that the proxy gave up on included.                               *)
(*                                                                         *)
(* A client here is a conforming one: it sends DATA, the lines of a mail,  *)
(* and ".", and stuffs the lines that begin with a dot.  The lines are     *)
(* those on the wire.                                                      *)
(***************************************************************************)
EXTENDS Naturals, Sequences

CONSTANTS
    Sessions,
    LinesOf,          \* [Sessions -> sets of lines that its mails are made of]
    DataLine,         \* "DATA"
    QuitLine,         \* "QUIT"
    Dot,              \* ".", the client's end of data
    SpacedDots,       \* lines such as " .", which a client does not stuff
    Stuffed,          \* lines such as "..", which begin with a dot
    MailLimit,        \* [Sessions -> Nat]: bound on the mails its client sends
    LineLimit         \* [Sessions -> Nat]: bound on their lines, all together

Lines == UNION {LinesOf[s] : s \in Sessions}

ASSUME LineAssumption ==
    /\ Dot \notin Lines \cup SpacedDots \cup Stuffed \cup {DataLine, QuitLine}
    /\ {DataLine, QuitLine} \cap (SpacedDots \cup Stuffed) = {}
    /\ DataLine # QuitLine

ASSUME BoundAssumption ==
    /\ MailLimit \in [Sessions -> Nat]
    /\ LineLimit \in [Sessions -> Nat]

VARIABLES
    client,     \* what each client is doing, and the mails it has sent
    session,    \* in_data_mode and data_buffer of each handle_client
    accepted,   \* the mails of each client that it was told 250 for
    backlog,    \* the requests in the daemon's listen queue
    served      \* the requests the daemon has served, in order

vars == <<client, session, accepted, backlog, served>>

\* A request carries the number that its client gives the mail.
Requests == [from : Sessions, mail : Nat \ {0}, body : Seq(Lines)]

Init ==
    /\ client = [s \in Sessions |-> [phase |-> "command", body |-> <<>>, meant |-> <<>>,
                                 left |-> LineLimit[s]]]
    /\ session = [s \in Sessions |-> [at |-> "command", buffer |-> <<>>]]
    /\ accepted = [s \in Sessions |-> {}]
    /\ backlog = <<>>
    /\ served = <<>>

-----------------------------------------------------------------------------
\* urlopen blocks the event loop.
LoopFree == \A s \in Sessions : session[s].at # "posting"

\* Variant: any line that begins with a dot.
BeginsWithDot(line) == line \in SpacedDots \cup Stuffed \cup {Dot}

\* line.strip() == "."
EndsData(line) == line \in SpacedDots \cup {Dot}

\* The client sends its next line.
Send(s, line) ==
    \/ /\ client[s].phase = "command"
       /\ line = DataLine
       /\ Len(client[s].meant) < MailLimit[s]
       /\ client' = [client EXCEPT ![s].phase = "body"]
    \/ /\ client[s].phase = "command"
       /\ line = QuitLine
       /\ client' = [client EXCEPT ![s].phase = "gone"]
    \/ /\ client[s].phase = "body"
       /\ line \in LinesOf[s]
       /\ client[s].left > 0
       /\ client' = [client EXCEPT ![s].body = Append(@, line), ![s].left = @ - 1]
    \/ /\ client[s].phase = "body"
       /\ line = Dot
       /\ client' = [client EXCEPT ![s].phase = "command", ![s].body = <<>>,
                                   ![s].meant = Append(@, client[s].body)]

\* handle_client reads a line outside the data mode: MAIL FROM:, RCPT TO: and
\* every other line is answered 250.  A client whose mail was ended early takes
\* the replies for that of its mail.
ReadCommand(s, line) ==
    /\ session[s].at = "command"
    /\ session' = [session EXCEPT ![s].at =
          CASE line = DataLine -> "data"
            [] line = QuitLine -> "closed"
            [] OTHER -> "command"]
    /\ accepted' = IF line = Dot
                   THEN [accepted EXCEPT ![s] = @ \cup {Len(client[s].meant) + 1}]
                   ELSE accepted
    /\ UNCHANGED backlog

\* A line of the mail.
ReadBody(s, line) ==
    /\ session[s].at = "data"
    /\ ~EndsData(line)
    /\ session' = [session EXCEPT ![s].buffer = Append(@, line)]
    /\ UNCHANGED <<accepted, backlog>>

\* Variant: the last line is buffered too.
EndDataWithDot(s, line) ==
    /\ session[s].at = "data"
    /\ EndsData(line)
    /\ session' = [session EXCEPT ![s].at = "posting"]
    /\ backlog' \in {backlog,
                     Append(backlog, [from |-> s, mail |-> Len(client[s].meant) + 1,
                                      body |-> Append(session[s].buffer, line)])}
    /\ UNCHANGED accepted

\* The end of the data: the mail is translated and posted.  The connection may
\* be refused, or time out in a full listen queue.
EndData(s, line) ==
    /\ session[s].at = "data"
    /\ EndsData(line)
    /\ session' = [session EXCEPT ![s].at = "posting"]
    /\ backlog' \in {backlog,
                     Append(backlog, [from |-> s, mail |-> Len(client[s].meant) + 1,
                                      body |-> session[s].buffer])}
    /\ UNCHANGED accepted

\* translate_smtp_to_mx2 raises: the session ends without a reply.
TranslateRaises(s, line) ==
    /\ session[s].at = "data"
    /\ EndsData(line)
    /\ session' = [session EXCEPT ![s] = [at |-> "closed", buffer |-> <<>>]]
    /\ UNCHANGED <<accepted, backlog>>

\* One turn of the loop in handle_client.
Step(s, line) ==
    /\ LoopFree
    /\ Send(s, line)
    /\ \/ ReadCommand(s, line)
       \/ ReadBody(s, line)
       \/ EndData(s, line)
       \/ TranslateRaises(s, line)
    /\ UNCHANGED served

\* The client was told 250 for the mail it has sent (not for one it is sending).
Accept(s) ==
    accepted' = IF client[s].phase = "command"
                THEN [accepted EXCEPT ![s] = @ \cup {Len(client[s].meant)}]
                ELSE accepted

\* Variant: data_buffer.clear() is missing.
PostEndsUncleared(s) ==
    /\ session[s].at = "posting"
    /\ session' = [session EXCEPT ![s].at = "command"]
    /\ Accept(s)
    /\ UNCHANGED <<client, backlog, served>>

\* Variant: urlopen without timeout.
PostEndsWhenServed(s) ==
    /\ session[s].at = "posting"
    /\ \A i \in DOMAIN backlog : backlog[i].from # s
    /\ session' = [session EXCEPT ![s] = [at |-> "command", buffer |-> <<>>]]
    /\ Accept(s)
    /\ UNCHANGED <<client, backlog, served>>

\* _post_to_gateway returns: answered, refused, or after three seconds.  The
\* request stays where it is.
PostEnds(s) ==
    /\ session[s].at = "posting"
    /\ session' = [session EXCEPT ![s] = [at |-> "command", buffer |-> <<>>]]
    /\ Accept(s)
    /\ UNCHANGED <<client, backlog, served>>

\* The connection is lost when a dot of the client's line has arrived: of its
\* end of data, or of a line that begins with one.  readline returns what there
\* is of the line, and a dot ends the data.
CutLine(s) ==
    /\ LoopFree
    /\ client[s].phase = "body"
    /\ client' = [client EXCEPT ![s].phase = "cut"]
    /\ EndData(s, Dot)
    /\ UNCHANGED served

\* The client closes the connection, or loses it elsewhere.
HangUp(s) ==
    /\ client[s].phase \in {"command", "body"}
    /\ client' = [client EXCEPT ![s].phase = "gone"]
    /\ UNCHANGED <<session, accepted, backlog, served>>

\* readline returns b"", or a write to the lost connection raises.
EndOfFile(s) ==
    /\ LoopFree
    /\ client[s].phase \in {"gone", "cut"}
    /\ session[s].at # "closed"
    /\ session' = [session EXCEPT ![s] = [at |-> "closed", buffer |-> <<>>]]
    /\ UNCHANGED <<client, accepted, backlog, served>>

\* Variant: a threaded server takes any request.
ServeAny ==
    \E i \in DOMAIN backlog, reply \in {"envelope", "error"} :
       /\ served' = Append(served, [request |-> backlog[i], reply |-> reply])
       /\ backlog' = SubSeq(backlog, 1, i - 1) \o SubSeq(backlog, i + 1, Len(backlog))
       /\ UNCHANGED <<client, session, accepted>>

\* The daemon serves the first request: a 200 with an envelope, or one of 400,
\* 429 and 500.
Serve ==
    /\ backlog # <<>>
    /\ \E reply \in {"envelope", "error"} :
          served' = Append(served, [request |-> Head(backlog), reply |-> reply])
    /\ backlog' = Tail(backlog)
    /\ UNCHANGED <<client, session, accepted>>

\* The daemon stops: its listen queue is lost.
DaemonStops ==
    /\ backlog # <<>>
    /\ backlog' = <<>>
    /\ UNCHANGED <<client, session, accepted, served>>

Read(s) == \E line \in Lines \cup {DataLine, QuitLine, Dot} : Step(s, line)

Next ==
    \/ \E s \in Sessions : Read(s) \/ PostEnds(s) \/ CutLine(s) \/ HangUp(s) \/ EndOfFile(s)
    \/ Serve
    \/ DaemonStops

Spec == Init /\ [][Next]_vars

\* The loop runs its ready coroutines in the order in which they became ready,
\* so a session whose client goes on is read again after every post of another;
\* the timeout ends every post.  Nothing is asked of the daemon.
FairSpec ==
    /\ Spec
    /\ \A s \in Sessions : SF_vars(Read(s)) /\ WF_vars(PostEnds(s))

-----------------------------------------------------------------------------
TypeOK ==
    /\ client \in [Sessions -> [phase : {"command", "body", "gone", "cut"},
                                body : Seq(Lines), meant : Seq(Seq(Lines)), left : Nat]]
    /\ session \in [Sessions -> [at : {"command", "data", "posting", "closed"},
                                 buffer : Seq(Lines)]]
    /\ accepted \in [Sessions -> SUBSET (Nat \ {0})]
    /\ backlog \in Seq(Requests)
    /\ served \in Seq([request : Requests, reply : {"envelope", "error"}])

\* Everything the daemon was ever sent and has not lost.
Posted == {backlog[i] : i \in DOMAIN backlog} \cup {served[i].request : i \in DOMAIN served}

\* The n-th mail of a client, as far as it was sent.
Mail(s, n) == IF n <= Len(client[s].meant) THEN client[s].meant[n] ELSE client[s].body

\* No line of the mail strips to a dot.
Plain(mail) == \A i \in DOMAIN mail : mail[i] \notin SpacedDots

\* What is posted is a run of consecutive lines of one mail of the session that
\* posted it: lines of another mail or of another client never get into it,
\* though a mail with a line " ." is cut there and its rest read as commands.
PostedIsFragment ==
    \A r \in Posted :
        LET mail == Mail(r.from, r.mail) IN
        \E i \in 0 .. Len(mail) - Len(r.body) :
            r.body = SubSeq(mail, i + 1, i + Len(r.body))

\* A mail without such a line is posted whole, with every line that its client
\* has ended and only after the last: a connection lost within DATA posts
\* nothing, unless the line that it cuts begins with a dot.
PlainIsWhole ==
    \A r \in Posted :
        Plain(Mail(r.from, r.mail)) =>
            /\ r.body = Mail(r.from, r.mail)
            /\ r.mail <= Len(client[r.from].meant) \/ client[r.from].phase = "cut"

\* The daemon gets the mails of a session in their order and a plain one once,
\* although the proxy gives up on a request that is served later.
ServedInOrder ==
    \A i, j \in DOMAIN served :
        LET first == served[i].request
            second == served[j].request
        IN i < j /\ first.from = second.from =>
              \/ first.mail < second.mail
              \/ first.mail = second.mail /\ ~Plain(Mail(first.from, first.mail))

\* A client that goes on sending its mail gets an answer or is cut off: neither
\* a daemon that hangs nor the posts of the other sessions keep it waiting.
MailIsAnswered ==
    \A s \in Sessions :
        client[s].phase = "body" ~>
            \/ session[s].at = "closed"
            \/ client[s].phase # "body" /\ session[s].at # "posting"

\* README.md:101 promises that the mails sent through the proxy are translated:
\* a mail whose client was told 250 has an envelope or its turn will come.
AcceptedIsTranslated ==
    \A s \in Sessions : \A n \in accepted[s] :
        \/ \E i \in DOMAIN backlog : backlog[i].from = s /\ backlog[i].mail = n
        \/ \E i \in DOMAIN served :
              /\ served[i].request.from = s
              /\ served[i].request.mail = n
              /\ served[i].reply = "envelope"
=============================================================================
