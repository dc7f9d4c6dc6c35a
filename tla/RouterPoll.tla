----------------------------- MODULE RouterPoll -----------------------------
(***************************************************************************)
(* The wifi-monitoring poller: it asks the hotspot routers one after the   *)
(* other, over the Mikrotik API, for the clients they serve, and sends the *)
(* counts to Zabbix when it has asked them all.                            *)
(*                                                                         *)
(* The poller and one router exchange sentences over a connection.  The    *)
(* router is external, seen as the poller's code takes it: a reply is some *)
(* !re sentences and !done; an error is !trap and then !done; a command    *)
(* without login is answered by !fatal and the end of the connection.      *)
(* One access point stands for those of a router, which has clients to be  *)
(* counted on both sides, so that both commands are asked.  The names of   *)
(* access points are taken not to be part of one another: an entry is      *)
(* counted for the first whose name is found in it.                        *)
(***************************************************************************)
EXTENDS WordLength, Sender, FiniteSets, SequencesExt

CONSTANTS
    Routers,        \* how many devices get_devices has found
    MaxEntries      \* bound: !re sentences in a reply

ASSUME RouterAssumption == Routers \in Nat /\ MaxEntries \in Nat

VARIABLES
    at,             \* devices polled before the current one
    rpc,            \* where the poller is
    requests,       \* sentences on their way to the router
    replies,        \* sentences on their way to the poller
    link,           \* the connection, as the router has left it
    login,          \* the router's view of the poller
    block,          \* sentences of ReadBlock, words of ReadSentence
    counts,         \* device_data: active and inactive clients, users
    told            \* history: the same, as the routers have said

pollVars == <<at, rpc, requests, replies, link, login, block, counts, told>>
routerVars == <<pollVars, senderVars>>

Commands == {"hosts", "arp"}
Counters == {"active", "inactive", "users"}

\* An entry of /ip/hotspot/host (authorized or not) or of /ip/arp (complete or
\* not), of the access point that is looked for or of another.
Entries == [kind : {"re"}, of : Commands, yes : BOOLEAN, ours : BOOLEAN]
Reply(k) == [kind |-> k, of |-> "none", yes |-> FALSE, ours |-> FALSE]
Replies == Entries \cup {Reply(k) : k \in {"done", "trap", "fatal"}}

Ended == {"sent", "failed", "crashed", "hung"}

RouterTypeOK ==
    /\ at \in 0..Routers
    /\ rpc \in {"connect", "challenge", "login", "send"} \cup Commands \cup Ended
    /\ requests \in Seq({"login", "response"} \cup Commands) /\ Len(requests) <= 1
    /\ replies \in Seq(Replies) /\ Len(replies) <= MaxEntries + 2
    /\ link \in {"none", "open", "closed"}
    /\ login \in {"no", "challenged", "yes"}
    /\ block \in Seq(Replies) /\ Len(block) <= MaxEntries + 1
    /\ counts \in [1..Routers -> [Counters -> 0..MaxEntries]]
    /\ told \in [1..Routers -> [Counters -> 0..MaxEntries]]
    /\ SenderTypeOK

RouterInit ==
    /\ at = 0 /\ rpc = IF Routers = 0 THEN "send" ELSE "connect"
    /\ requests = <<>> /\ replies = <<>> /\ link = "none" /\ login = "no" /\ block = <<>>
    /\ counts = [d \in 1..Routers |-> [c \in Counters |-> 0]] /\ told = counts
    /\ SenderInit

dev == at + 1
HowMany(s, r) == Cardinality({i \in DOMAIN s : s[i] = r})
Entry(c, y) == [kind |-> "re", of |-> c, yes |-> y, ours |-> TRUE]

\* parse_external and parse_internal: what is not of our point is passed over,
\* and so is an arp entry that is not complete.
Parsed(s, c, old) ==
    IF c = "hosts" THEN [old EXCEPT !["active"] = @ + HowMany(s, Entry("hosts", TRUE)),
                                    !["inactive"] = @ + HowMany(s, Entry("hosts", FALSE))]
                   ELSE [old EXCEPT !["users"] = @ + HowMany(s, Entry("arp", TRUE))]

-----------------------------------------------------------------------------
(* The router.                                                             *)

Say(s) == replies' = replies \o s

\* /login is answered by a challenge.
Challenge ==
    /\ requests = <<"login">> /\ login' = "challenged"
    /\ Say(<<Reply("done")>>)
    /\ UNCHANGED <<link, told>>

\* The response is right or not.
Judge ==
    /\ requests = <<"response">>
    /\ \/ login' = "yes" /\ Say(<<Reply("done")>>)
       \/ login' = "no" /\ Say(<<Reply("trap"), Reply("done")>>)
    /\ UNCHANGED <<link, told>>

Serve(c) ==
    /\ requests = <<c>> /\ login = "yes"
    /\ \/ \E s \in BoundedSeq({e \in Entries : e.of = c}, MaxEntries) :
            /\ Say(Append(s, Reply("done")))
            /\ told' = [told EXCEPT ![dev] = Parsed(s, c, @)]
       \/ Say(<<Reply("trap"), Reply("done")>>) /\ UNCHANGED told
    /\ UNCHANGED <<link, login>>

Reject(c) ==
    /\ requests = <<c>> /\ login # "yes"
    /\ Say(<<Reply("fatal")>>) /\ link' = "closed"
    /\ UNCHANGED <<login, told>>

Router ==
    /\ link = "open"
    /\ Challenge \/ Judge \/ \E c \in Commands : Serve(c) \/ Reject(c)
    /\ requests' = <<>>
    /\ UNCHANGED <<at, rpc, block, counts>>

\* The router goes down.
RouterDown ==
    /\ link = "open" /\ link' = "closed"
    /\ UNCHANGED <<at, rpc, requests, replies, login, block, counts, told>>

-----------------------------------------------------------------------------
(* The poller.                                                             *)

WriteUnended(c) == UNCHANGED requests                          \* mutant

\* WriteSentence, or WriteWord and an empty word: without it the router waits on.
Write(c) == requests' = Append(requests, c)

\* MikrotikAPI: Connect.  -1 throws, and the whole run ends.
Connect ==
    /\ rpc = "connect"
    /\ \/ link' = "open" /\ rpc' = "challenge" /\ Write("login")
       \/ link' = "none" /\ rpc' = "failed" /\ UNCHANGED requests
    /\ login' = "no" /\ replies' = <<>>
    /\ UNCHANGED <<at, block, counts, told>>

TrapEnds(r) == r.kind \in {"done", "trap", "fatal"}            \* mutant

\* ReadBlock's loop is over; ReadSentence drops !trap and !fatal and returns the
\* sentence after, so that only !done ends a block.
EndsBlock(r) == r.kind = "done"

Dropped(r) == r.kind \in {"trap", "fatal"}

\* Login: an answer that is not !done is thrown or returned as 0.
LoginStep ==
    /\ rpc \in {"challenge", "login"} /\ replies # <<>>
    /\ replies' = Tail(replies)
    /\ IF Dropped(Head(replies)) THEN UNCHANGED <<rpc, requests>>
       ELSE IF rpc = "challenge" THEN rpc' = "login" /\ Write("response")
       ELSE rpc' = "hosts" /\ Write("hosts")
    /\ UNCHANGED <<at, link, login, block, counts, told>>

KeptBlock == block                                             \* mutant

\* block.Clear() at the start of the next ReadBlock.
ClearedBlock == <<>>

\* The next command, or the next device: the destructor closes the connection.
AfterBlock ==
    IF rpc = "hosts" THEN rpc' = "arp" /\ Write("arp") /\ UNCHANGED <<at, link, login>>
    ELSE /\ at' = dev
         /\ rpc' = IF dev = Routers THEN "send" ELSE "connect"
         /\ requests' = <<>> /\ link' = "none" /\ login' = "no"

ReadBlock ==
    /\ rpc \in Commands /\ replies # <<>>
    /\ LET r == Head(replies) IN
         IF EndsBlock(r)
         THEN /\ counts' = [counts EXCEPT ![dev] = Parsed(block, rpc, @)]
              /\ block' = ClearedBlock
              /\ AfterBlock
         ELSE /\ block' = IF Dropped(r) THEN block ELSE Append(block, r)
              /\ UNCHANGED <<at, rpc, requests, link, login, counts>>
    /\ replies' = IF EndsBlock(Head(replies)) /\ rpc = "arp" THEN <<>> ELSE Tail(replies)
    /\ UNCHANGED told

\* read() returns 0, or -1, and its result is not looked at.  For a length, it is
\* whatever the uninitialised byte says: a word is waited for without end, or empty
\* sentences are read without end, which Login takes for a refusal.  In a word, -1
\* writes in front of the memory that was allocated: undefined, it is read on or the
\* run ends.  A write before that may have met SIGPIPE.
ReadClosed ==
    /\ rpc \in {"challenge", "login"} \cup Commands
    /\ link = "closed" /\ replies = <<>>
    /\ rpc' \in {"hung", "failed"}
    /\ UNCHANGED <<at, requests, replies, link, login, block, counts, told>>

\* send_to_zabbix: a value for every counter of every device.
Data == (1..at) \X Counters

Send ==
    /\ rpc = "send"
    /\ SendData(Data) \/ Receive
    /\ rpc' = CASE stage' = "answered" -> "sent"
               [] stage' = "thrown" -> "failed"
               [] stage' = "crashed" -> "crashed"
               [] stage' = "spinning" -> "hung"
               [] OTHER -> "send"
    /\ UNCHANGED <<at, requests, replies, link, login, block, counts, told>>

Poll == Connect \/ LoginStep \/ ReadBlock \/ ReadClosed
Poller == (Poll /\ UNCHANGED senderVars) \/ Send
Finished == rpc \in Ended /\ UNCHANGED routerVars
RouterNext ==
    \/ (Router \/ RouterDown) /\ UNCHANGED senderVars
    \/ Poller
    \/ Server /\ UNCHANGED pollVars
    \/ Finished

\* The poller is one thread that runs until it waits for the router; a router that
\* is up answers.  It need not go down.
RouterSpec == RouterInit /\ [][RouterNext]_routerVars
                         /\ WF_routerVars(Router /\ UNCHANGED senderVars) /\ WF_routerVars(Poller)

-----------------------------------------------------------------------------
(* Properties                                                              *)

\* A reply is never taken for that to another request: when a command goes out,
\* nothing of the reply to the one before it is left, !trap replies included.
OneReplyAtATime == Len(requests) + HowMany(replies, Reply("done")) <= 1

\* What is sent to Zabbix is, for every device, what that device has said in this
\* run: no device is left out, none is counted with the entries of another.
SentIsTold == rpc = "sent" => at = Routers /\ counts = told

\* A word of a request, however long, is read as it was written: the decoder takes
\* as many bytes as the encoder has written and gets the length back, at both ends
\* of each of the four forms.
WordsGetThrough == requests # <<>> => \A n \in WordLengths : ReadBack(n)

\* The run counts as sent only on the server's word that the data was taken, read to
\* the end: in however many pieces the answer comes, and whether or not it is cut off.
AnswerIsWhole == rpc = "sent" /\ Data # {} => server.verdict = "success" /\ got = Answer("success")

\* If neither a router nor the server goes away, and the server's answer has room in
\* databuf, the run does not hang: it sends its counts, reports an error, or crashes
\* on an answer without a response.
PollEnds ==
    [](link # "closed" /\ server.link # "closed" /\ server.verdict # "long")
        => <>(rpc \in {"sent", "failed", "crashed"})

\* MikrotikAPI.cpp: "0 is returned on unsuccessful login".  Does not hold: README, section 5.
LoginIsChecked == rpc \in Commands => login = "yes"
=============================================================================
