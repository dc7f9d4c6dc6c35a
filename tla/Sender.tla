------------------------------- MODULE Sender -------------------------------
(***************************************************************************)
(* zbx_sender: one request to the Zabbix server's trapper port and its     *)
(* answer, which comes in pieces.  The answer is a header with the length  *)
(* of the text (two units here), the response, and an info line that the   *)
(* numbers are taken from (two units); databuf has room for as much.  The  *)
(* server is external.                                                     *)
(***************************************************************************)
EXTENDS Naturals, Sequences

VARIABLES
    stage,          \* where send() is
    wire,           \* units on their way to the program
    got,            \* databuf: units that recv has returned
    server          \* link: as the server has left it; verdict: what it has answered

senderVars == <<stage, wire, got, server>>

Stages == {"connect", "header", "body", "answered", "thrown", "crashed", "spinning"}
Verdicts == {"success", "refused", "mute", "long", "foreign"}

Units == Verdicts \cup {"ZBXD", "length", "overlong", "info", "rest"}

SenderTypeOK ==
    /\ stage \in Stages
    /\ wire \in Seq(Units) /\ got \in Seq(Units)
    /\ server \in [link : {"up", "closed"}, verdict : Verdicts \cup {"none"}]

\* "foreign" is an answer that does not begin with ZBXD, "mute" is one without a
\* response, and of a "long" one it is the part that databuf has room for.
Answer(v) ==
    IF v = "foreign" THEN <<v, v>>
    ELSE <<"ZBXD", IF v = "long" THEN "overlong" ELSE "length", v, "info", "rest">>

SenderInit ==
    /\ stage = "connect" /\ wire = <<>> /\ got = <<>>
    /\ server = [link |-> "up", verdict |-> "none"]

Waiting == stage \in {"header", "body"}

\* The constructor connects, even if there is nothing to send; send() of no data
\* returns zeros.  Connecting or sending may throw.
SendData(data) ==
    /\ stage = "connect"
    /\ stage' \in {IF data = {} THEN "answered" ELSE "header", "thrown"}
    /\ UNCHANGED <<wire, got, server>>

EnoughOnce(n, g) == TRUE                                       \* mutant

\* The condition that ends a receive loop.
Enough(n, g) == Len(g) >= n

\* The units of the header, and those of the whole answer by its length.
data_offset == 2
datalen == Len(Answer("success"))

\* send() with g received: the first loop, the header, the second loop, the response
\* and the info.  Text that was cut off parses as far as it goes.  A full databuf
\* makes recv ask for nothing and return 0, again and again.  The message about a bad
\* response prints the token, also when there is none.
Continue(g) ==
    IF stage = "header" /\ ~Enough(data_offset, g) THEN "header"
    ELSE IF g[1] # "ZBXD" THEN "thrown"
    ELSE IF ~Enough(datalen, g) THEN "body"
    ELSE IF Len(g) > 1 /\ g[2] = "overlong" THEN "spinning"
    ELSE IF Len(g) > 3 /\ g[3] = "success" THEN "answered"
    ELSE IF Len(g) > 3 /\ g[3] = "mute" THEN "crashed"
    ELSE "thrown"

Recv ==
    /\ Waiting
    /\ \E n \in 1..Len(wire) :
         /\ got' = got \o SubSeq(wire, 1, n)
         /\ wire' = SubSeq(wire, n + 1, Len(wire))
    /\ stage' = Continue(got')
    /\ UNCHANGED server

\* recv returns 0 for good, which neither loop takes for an end.
RecvClosed ==
    /\ Waiting /\ wire = <<>> /\ server.link = "closed"
    /\ stage' = "spinning"
    /\ UNCHANGED <<wire, got, server>>

\* set_recv_timeout: five seconds without a byte make recv fail, and it throws.
RecvTimeout ==
    /\ Waiting /\ wire = <<>> /\ server.link = "up"
    /\ stage' = "thrown"
    /\ UNCHANGED <<wire, got, server>>

ServerAnswers ==
    /\ Waiting /\ server = [link |-> "up", verdict |-> "none"]
    /\ \E v \in Verdicts : server' = [server EXCEPT !.verdict = v] /\ wire' = Answer(v)
    /\ UNCHANGED <<stage, got>>

\* What was on its way may be cut off.
ServerCloses ==
    /\ Waiting /\ server.link = "up"
    /\ server' = [server EXCEPT !.link = "closed"]
    /\ \E n \in 0..Len(wire) : wire' = SubSeq(wire, 1, n)
    /\ UNCHANGED <<stage, got>>

Receive == Recv \/ RecvClosed \/ RecvTimeout
Server == ServerAnswers \/ ServerCloses
=============================================================================
