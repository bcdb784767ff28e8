------------------------------ MODULE Clients ------------------------------
(***************************************************************************)
(* The clients of services/: HTTP requests on a connection that is kept,   *)
(* and mails over SMTP.  Their servers are external.                       *)
(***************************************************************************)
EXTENDS Integers, Sequences, SequencesExt

-----------------------------------------------------------------------------
(***************************************************************************)
(* The HTTP client (services/http_client.hpp): send connects again when it *)
(* takes its connection to be closed or past its keep-alive, receive reads *)
(* how long the server will keep it.  The server closes after as many      *)
(* answers as it announced, after the time it announced, or having said    *)
(* so; connected() does not see that until something is read.              *)
(***************************************************************************)
CONSTANTS AliveTime,    \* the timeout= a server announces, in seconds
          AliveMax,     \* the max= it announces
          MaxRequests,  \* bound: requests
          MaxAge        \* bound: seconds told apart since an answer

ASSUME AliveAssumption == AliveTime \in Nat \ {0} /\ AliveMax \in Nat \ {0} /\ MaxAge \in Nat /\ MaxAge > AliveTime

VARIABLES stream,      \* [up, failed, area]: connected(), failbit, and what the get area holds
          keeps,       \* [timeout, max]: _keepTimeout, _keepMax
          age,         \* seconds since _timestamp, MaxAge and more being the same
          far,         \* the server's end: [up, queue, told, answers, idle, late, wire]; queue: requests it has
                       \* not answered, idle: seconds since its last answer, late: idle when that was received
          requests,    \* requests sent, the last one's number
          waiting,     \* the numbers of the requests sent on this connection and not answered
          outcome      \* history: [dead, mixed, left]: the last send on a connection the server had closed; an answer that was
                       \* not the oldest request's; an answer left in the area by an earlier connection
clientVars == <<stream, keeps, age, far, requests, waiting, outcome>>

FarDown == [up |-> FALSE, queue |-> <<>>, told |-> FALSE, answers |-> 0, idle |-> 0, late |-> 0, wire |-> <<>>]
NotKept == [timeout |-> 0, max |-> -1]
Expired == keeps.timeout < age \/ keeps.max = 0
NeedReconnection == ~stream.up \/ Expired

\* send with a connection it has; it may have lost its other end.
SendOn ==
    /\ requests < MaxRequests /\ ~NeedReconnection
    /\ requests' = requests + 1
    /\ IF stream.failed
       THEN UNCHANGED <<far, waiting, outcome>>      \* nothing is written
       ELSE /\ waiting' = waiting \cup {requests + 1}
            /\ far' = [far EXCEPT !.queue = Append(@, requests + 1)]
            /\ outcome' = [outcome EXCEPT !.dead = IF far.up THEN @ ELSE
                    <<[answers |-> far.answers, told |-> far.told, age |-> age, late |-> far.late,
                       ahead |-> waiting # {} \/ stream.area # <<>> \/ outcome.left]>>]
    /\ UNCHANGED <<stream, keeps, age>>

\* reconnect: disconnect, close, connect; neither the state of the stream nor its areas are cleared.
Reconnect(works) ==
    /\ stream' = [stream EXCEPT !.up = works, !.failed = @ \/ ~works]
    /\ keeps' = NotKept
SendAnew ==
    /\ requests < MaxRequests /\ NeedReconnection
    /\ \E works \in BOOLEAN :
        /\ Reconnect(works)
        /\ requests' = requests + 1
        /\ LET sent == IF works /\ ~stream.failed THEN <<requests + 1>> ELSE <<>>
           IN  waiting' = Range(sent) /\ far' = [FarDown EXCEPT !.up = works, !.queue = sent]
        /\ outcome' = [outcome EXCEPT !.left = @ \/ stream.area # <<>>]
    /\ UNCHANGED age

\* The server answers the first request that waits: headers, and perhaps a body.
ServerAnswers ==
    /\ far.up /\ far.queue # <<>> /\ far.wire = <<>> /\ ~far.told /\ far.answers < AliveMax
    /\ \E says \in {"keep-alive", "close", "none"}, body \in BOOLEAN :
        LET head == [n |-> Head(far.queue), part |-> "head", says |-> says]
            rest == [n |-> Head(far.queue), part |-> "body", says |-> "none"]
        IN  far' = [far EXCEPT !.told = says = "close", !.answers = @ + 1, !.idle = 0, !.queue = Tail(@),
                               !.wire = IF body THEN <<head, rest>> ELSE <<head>>]
    /\ UNCHANGED <<stream, keeps, age, requests, waiting, outcome>>
ServerCloses ==
    /\ far.up /\ (far.told \/ far.answers = AliveMax \/ (far.answers > 0 /\ far.idle >= AliveTime))
    /\ far' = [far EXCEPT !.up = FALSE]
    /\ UNCHANGED <<stream, keeps, age, requests, waiting, outcome>>
SecondPasses ==
    /\ age < MaxAge \/ far.idle < MaxAge
    /\ age' = IF age < MaxAge THEN age + 1 ELSE age
    /\ far' = [far EXCEPT !.idle = IF @ < MaxAge THEN @ + 1 ELSE @]
    /\ UNCHANGED <<stream, keeps, requests, waiting, outcome>>

Incoming == stream.area \o far.wire
\* The header tells how long the connection is kept.
ReceivedKeep(says) ==
    CASE says = "keep-alive" -> [timeout |-> AliveTime, max |-> AliveMax]
      [] says = "close" -> [timeout |-> 0, max |-> 0]
      [] OTHER -> keeps
OldestIs(n) == n \in waiting /\ \A m \in waiting : n <= m
\* receive: what has arrived is read into the area, its first line is taken for headers.
Receive ==
    /\ stream.up /\ ~stream.failed /\ Incoming # <<>>
    /\ IF Head(Incoming).part = "head"
       THEN /\ keeps' = ReceivedKeep(Head(Incoming).says) /\ age' = 0
            /\ stream' = [stream EXCEPT !.area = Tail(Incoming)]
            /\ waiting' = waiting \ {Head(Incoming).n}
            /\ outcome' = [outcome EXCEPT !.mixed = @ \/ ~OldestIs(Head(Incoming).n)]
       ELSE stream' = [stream EXCEPT !.area = Tail(Incoming)] /\ UNCHANGED <<keeps, age, waiting, outcome>>    \* BadRequest
    /\ far' = [far EXCEPT !.wire = <<>>, !.late = far.idle]
    /\ UNCHANGED requests
\* receive at the end of the connection, or past the timeout: the socket is closed and the stream fails.
ReceiveNothing ==
    /\ stream.up /\ ~stream.failed /\ Incoming = <<>> /\ waiting # {}
    /\ stream' = [stream EXCEPT !.up = FALSE, !.failed = TRUE]
    /\ waiting' = {} /\ far' = FarDown
    /\ UNCHANGED <<keeps, age, requests, outcome>>
ReadBody ==
    /\ stream.area # <<>> /\ Head(stream.area).part = "body" /\ stream' = [stream EXCEPT !.area = Tail(@)]
    /\ UNCHANGED <<keeps, age, far, requests, waiting, outcome>>
\* The program calls clear(), or close().
ClearState ==
    /\ stream.failed /\ stream' = [stream EXCEPT !.failed = FALSE]
    /\ UNCHANGED <<keeps, age, far, requests, waiting, outcome>>
ClientCloses ==
    /\ stream.up /\ stream' = [stream EXCEPT !.up = FALSE] /\ keeps' = NotKept
    /\ waiting' = {} /\ far' = FarDown
    /\ UNCHANGED <<age, requests, outcome>>

ClientInit ==
    /\ stream = [up |-> FALSE, failed |-> FALSE, area |-> <<>>] /\ keeps = NotKept /\ age = MaxAge
    /\ far = FarDown
    /\ requests = 0 /\ waiting = {} /\ outcome = [dead |-> <<>>, mixed |-> FALSE, left |-> FALSE]
ClientNext ==
    SendOn \/ SendAnew \/ ServerAnswers \/ ServerCloses \/ SecondPasses \/ Receive \/ ReceiveNothing
    \/ ReadBody \/ ClearState \/ ClientCloses
ClientSpec == ClientInit /\ [][ClientNext]_clientVars

----------------------------------------------------------------------------
(***************************************************************************)
(* A request goes to a connection the server has closed only when it has   *)
(* had the announced number of answers, which nobody counts down, or in    *)
(* the very second in which the announced time ends, the time counted from *)
(* when the program read the answer; never once the server said close.     *)
(* (A request sent before the last answer was read cannot know.)           *)
(***************************************************************************)
ReusedWhileKept ==
    \A i \in DOMAIN outcome.dead : LET d == outcome.dead[i] IN d.ahead \/ (~d.told /\ (d.answers = AliveMax \/ (d.age <= AliveTime /\ d.age + d.late >= AliveTime)))

(***************************************************************************)
(* receive returns the answer to the oldest request that waits on this     *)
(* connection, unless an earlier connection was given up with an answer in *)
(* the get area: that is read first, for an answer of the new one.         *)
(***************************************************************************)
AnswersInOrder == outcome.mixed => outcome.left

-----------------------------------------------------------------------------
(***************************************************************************)
(* The SMTP client (services/smtp_client.hpp, smtp_message.cpp): send      *)
(* takes a connection through greeting, EHLO, STARTTLS, authentication and *)
(* the transfer, one command and one reply at a time, and closes it        *)
(* whenever a reply is not the one it wants.  The server is external: it   *)
(* refuses, hangs up, and takes lines for text from its 354 on to a line   *)
(* that is a dot.                                                          *)
(***************************************************************************)

CONSTANTS Contents,      \* the mails sent, each a sequence of "text" and "." lines
          Recipients,    \* number of recipients
          MaxMails,      \* bound: calls of send
          MaxEhlos       \* bound: times a server offers STARTTLS

ASSUME ContentsAssumption == \A c \in Contents : c \in Seq({"text", "."})

VARIABLES step,        \* what send does next, "idle" outside it
          mail,        \* the content of the message
          rcpt,        \* recipients told so far
          secure,      \* the stream is encrypted
          lines,       \* lines on their way to the server
          session,     \* the server: [up, at ("command" or "text"), text, taken, offers]
          replies,     \* reply lines on their way to the client
          repliesRead, \* reply lines in the get area
          mails,       \* calls of send
          mailHistory  \* [result, exposed, offered, stale, dotted]: of the last send; stale: it found replies to an earlier one;
                       \* dotted: its mail, or an earlier one's, has a line with a dot
smtpVars == <<step, mail, rcpt, secure, lines, session, replies, repliesRead, mails, mailHistory>>

NoSession == [up |-> FALSE, at |-> "command", text |-> <<>>, taken |-> <<>>, offers |-> 0]
Reply(code) == <<[code |-> code, last |-> TRUE, offers |-> FALSE]>>

\* send, up to the connection.
SmtpSend ==
    /\ step = "idle" /\ mails < MaxMails /\ mails' = mails + 1
    /\ \E c \in Contents :
        /\ mail' = c
        /\ mailHistory' = [mailHistory EXCEPT !.result = 1, !.exposed = FALSE, !.offered = FALSE,
                                               !.stale = repliesRead # <<>>, !.dotted = @ \/ "." \in Range(c)]
    /\ step' = "greeting" /\ rcpt' = 0 /\ secure' = FALSE /\ lines' = <<>>
    /\ session' = [NoSession EXCEPT !.up = TRUE] /\ replies' = Reply(220)
    /\ UNCHANGED repliesRead
\* close: the stream's state is cleared, its areas are not.
SmtpClose(result) ==
    /\ step' = "idle" /\ session' = [session EXCEPT !.up = FALSE] /\ lines' = <<>> /\ replies' = <<>>
    /\ mailHistory' = [mailHistory EXCEPT !.result = result]

Wanted == CASE step = "greeting" -> 220 [] step = "starttls" -> 220 [] step \in {"login", "data"} -> IF step = "data" THEN 354 ELSE 334
            [] step = "password" -> 235 [] step = "quit" -> 221 [] OTHER -> 250
\* writeContent: the text as it is, and a line with a dot.
WriteContent == mail \o <<".">>
\* writeHeaders of the message.
WriteHeaders == <<"head">>
\* What sendMessage writes on entering a step, which then waits for the reply.
Command(s) == IF s = "text" THEN WriteHeaders \o WriteContent ELSE <<s>>
GoTo(s) ==
    /\ step' = s /\ lines' = lines \o Command(s)
    /\ mailHistory' = [mailHistory EXCEPT !.exposed = @ \/ (s = "password" /\ ~secure)]

Arrived == repliesRead \o replies

\* Mutant: the first line is taken for the whole reply.
ReadRepliesFirst == [code |-> Arrived[1].code, offers |-> Arrived[1].offers, rest |-> Tail(Arrived)]

\* readReplies: up to a line that is the last of its reply; the code is that of the first.
ReadReplies ==
    LET last == SelectInSeq(Arrived, LAMBDA r : r.last)
    IN  [code |-> Arrived[1].code, offers |-> \E i \in 1..last : Arrived[i].offers, rest |-> SubSeq(Arrived, last + 1, Len(Arrived))]
\* startTls: the stream is encrypted once the server agrees.
StartTls(got) == step = "starttls" /\ got.code = Wanted /\ GoTo("ehlo") /\ secure' = TRUE
\* The steps that go on when the reply is the one wanted.
GoOn(got) ==
    /\ got.code = Wanted /\ UNCHANGED secure
    /\ \/ step = "greeting" /\ GoTo("ehlo")
       \/ step = "ehlo" /\ got.offers /\ GoTo("starttls")
       \/ step = "ehlo" /\ ~got.offers /\ \E s \in {"login", "from"} : GoTo(s)     \* AUTH is offered, or not
       \/ step = "login" /\ GoTo("password")
       \/ step = "password" /\ GoTo("from")
       \/ step = "from" /\ GoTo("to")
       \/ step = "to" /\ GoTo(IF rcpt + 1 < Recipients THEN "to" ELSE "data")
       \/ step = "data" /\ GoTo("text")
       \/ step = "text" /\ GoTo("quit")
SmtpReads ==
    /\ step # "idle" /\ \E i \in DOMAIN Arrived : Arrived[i].last
    /\ LET got == ReadReplies IN
        /\ repliesRead' = got.rest
        /\ rcpt' = IF step = "to" THEN rcpt + 1 ELSE rcpt
        /\ \/ (StartTls(got) \/ GoOn(got)) /\ replies' = <<>> /\ UNCHANGED session
           \/ step = "quit" /\ got.code = Wanted /\ SmtpClose(0) /\ UNCHANGED secure
           \/ got.code # Wanted /\ SmtpClose(-1) /\ UNCHANGED secure
    /\ UNCHANGED <<mail, mails>>
\* The connection ends or times out: getline fails.
SmtpReadFails ==
    /\ step # "idle" /\ ~session.up /\ ~\E i \in DOMAIN Arrived : Arrived[i].last
    /\ repliesRead' = <<>> /\ SmtpClose(-1)
    /\ UNCHANGED <<mail, rcpt, secure, mails>>

----------------------------------------------------------------------------
\* The server takes a line; in a command it does not know it sees an error.
SmtpAnswers(code) ==
    IF Head(lines) = "ehlo"
    THEN \E offers \in BOOLEAN :
            /\ offers => session.offers < MaxEhlos
            /\ session' = [session EXCEPT !.offers = IF offers THEN @ + 1 ELSE @]
            /\ replies' = replies \o <<[code |-> code, last |-> FALSE, offers |-> FALSE], [code |-> code, last |-> TRUE, offers |-> offers]>>
            /\ mailHistory' = [mailHistory EXCEPT !.offered = @ \/ (offers /\ ~secure)]
    ELSE /\ session' = [session EXCEPT !.at = IF code = 354 THEN "text" ELSE "command", !.up = code # 221]
         /\ replies' = replies \o Reply(code) /\ UNCHANGED mailHistory
Right(line) == CASE line = "starttls" -> 220 [] line = "login" -> 334 [] line = "password" -> 235
                 [] line = "data" -> 354 [] line = "quit" -> 221 [] line \in {"text", "."} -> 500 [] OTHER -> 250
ServerTakesCommand ==
    /\ session.up /\ session.at = "command" /\ lines # <<>>
    /\ \E code \in {Right(Head(lines)), 500} : SmtpAnswers(code)
    /\ lines' = Tail(lines)
    /\ UNCHANGED <<step, mail, rcpt, secure, repliesRead, mails>>
ServerTakesText ==
    /\ session.up /\ session.at = "text" /\ lines # <<>> /\ lines' = Tail(lines)
    /\ IF Head(lines) # "."
       THEN session' = [session EXCEPT !.text = Append(@, Head(lines))] /\ UNCHANGED replies
       ELSE \E code \in {250, 500} :
              /\ session' = [session EXCEPT !.at = "command", !.taken = IF code = 250 THEN Append(@, session.text) ELSE @]
              /\ replies' = replies \o Reply(code)
    /\ UNCHANGED <<step, mail, rcpt, secure, repliesRead, mails, mailHistory>>
ServerHangsUp ==
    /\ session.up /\ session' = [session EXCEPT !.up = FALSE]
    /\ UNCHANGED <<step, mail, rcpt, secure, lines, replies, repliesRead, mails, mailHistory>>

SmtpInit ==
    /\ step = "idle" /\ mail = <<>> /\ rcpt = 0 /\ secure = FALSE /\ lines = <<>> /\ session = NoSession
    /\ replies = <<>> /\ repliesRead = <<>> /\ mails = 0
    /\ mailHistory = [result |-> 1, exposed |-> FALSE, offered |-> FALSE, stale |-> FALSE, dotted |-> FALSE]
SmtpNext == SmtpSend \/ SmtpReads \/ SmtpReadFails \/ ServerTakesCommand \/ ServerTakesText \/ ServerHangsUp
SmtpSpec == SmtpInit /\ [][SmtpNext]_smtpVars

----------------------------------------------------------------------------
(***************************************************************************)
(* When send succeeds the server has accepted the mail, once and whole,    *)
(* provided that it did not begin with replies an earlier send left; and   *)
(* what the server accepts is the mail, unless that has a line with a dot, *)
(* which ends it: dots are not doubled.                                    *)
(***************************************************************************)
MailAcceptedWhole ==
    /\ step = "idle" /\ mailHistory.result = 0 /\ ~mailHistory.stale => session.taken = <<WriteHeaders \o mail>>
    /\ "." \notin Range(mail) => session.taken \in {<<>>, <<WriteHeaders \o mail>>}

(***************************************************************************)
(* The password goes in clear only to a server that never offered STARTTLS *)
(* in this session, unless the replies are an earlier session's.           *)
(***************************************************************************)
PasswordCovered == mailHistory.exposed /\ ~mailHistory.stale => ~mailHistory.offered

(***************************************************************************)
(* A send leaves no reply unread, which the next one would take for its    *)
(* greeting, unless a mail with a dotted line made the server answer what  *)
(* was not a command.                                                      *)
(***************************************************************************)
RepliesConsumed == step = "idle" /\ repliesRead # <<>> => mailHistory.dotted

(***************************************************************************)
(* The HTTP and SMTP clients stay in step with their server: a connection  *)
(* is used again while it is kept, an answer and a reply are those of what *)
(* was sent, a mail is accepted whole, a password is sent under TLS when   *)
(* it was offered.                                                         *)
(***************************************************************************)
ClientsInStep ==
    /\ ReusedWhileKept /\ AnswersInOrder
    /\ MailAcceptedWhole /\ PasswordCovered /\ RepliesConsumed
=============================================================================
