-------------------------- MODULE RouterPoll_proofs --------------------------
(***************************************************************************)
(* The poller with any number of routers and entries: the lengths of the   *)
(* words, then an invariant that ties what is on its way on the connection *)
(* to where the poller is (RequestInv, ReplyInv), the counts to what the   *)
(* device has told (CountInv), and what has been received of the server's  *)
(* answer to the answer (SenderInv).                                       *)
(***************************************************************************)
EXTENDS RouterPoll, FiniteSetTheorems, SequenceTheorems, TLAPS

\* One lemma for the four forms: what is a quotient and a remainder in the
\* encoding is put together again by the decoding.
LEMMA OneLength ==
    ASSUME NEW n \in Nat, ~TooLong(n)
    PROVE  ReadBack(n)
<1>1. CASE n < 128
  BY <1>1 DEF Encode, Decode, BytesAfter, ReadBack
<1>2. CASE n >= 128 /\ n < 16384
  BY <1>2 DEF Encode, Decode, BytesAfter, ReadBack
<1>3. CASE n >= 16384 /\ n < 2097152
  BY <1>3 DEF Encode, Decode, BytesAfter, ReadBack
<1>4. CASE n >= 2097152 /\ n < 268435456
  BY <1>4 DEF Encode, Decode, BytesAfter, ReadBack
<1>5. QED  BY <1>1, <1>2, <1>3, <1>4 DEF TooLong

\* WriteLength and ReadLength agree on every length below 0x10000000, so that no
\* word of a request is lost or cut short.
THEOREM WordsCorrect == RouterSpec => []WordsGetThrough
<1>1. WordsGetThrough
  BY LengthAssumption, OneLength DEF WordsGetThrough
<1>2. QED  BY <1>1, PTL

-----------------------------------------------------------------------------
(* What is counted in a block.                                             *)

LEMMA HowManyBound ==
    ASSUME NEW S, NEW s \in Seq(S), NEW r
    PROVE  /\ HowMany(s, r) \in 0..Len(s)
           /\ (\A i \in DOMAIN s : s[i] # r) => HowMany(s, r) = 0
<1> DEFINE I == {i \in DOMAIN s : s[i] = r}
<1>1. DOMAIN s = 1..Len(s) /\ Len(s) \in Nat
  OBVIOUS
<1>2. IsFiniteSet(1..Len(s)) /\ Cardinality(1..Len(s)) = Len(s)
  <2> DEFINE n == Len(s)
  <2>1. 1 \in Int /\ n \in Int /\ n >= 0
    BY <1>1
  <2> HIDE DEF n
  <2>2. IsFiniteSet(1..n) /\ Cardinality(1..n) = IF 1 > n THEN 0 ELSE n - 1 + 1
    BY <2>1, FS_Interval
  <2>3. Cardinality(1..n) = n
    BY <2>1, <2>2
  <2>4. QED  BY <2>2, <2>3 DEF n
<1>3. I \in SUBSET (1..Len(s))
  BY <1>1
<1>4. IsFiniteSet(I) /\ Cardinality(I) <= Len(s)
  BY <1>2, <1>3, FS_Subset
<1>5. Cardinality(I) \in Nat
  BY <1>4, FS_CardinalityType
<1>6. (\A i \in DOMAIN s : s[i] # r) => I = {}
  OBVIOUS
<1> HIDE DEF I
<1>7. Cardinality(I) \in 0..Len(s) /\ ((\A i \in DOMAIN s : s[i] # r) => Cardinality(I) = 0)
  BY <1>1, <1>4, <1>5, <1>6, FS_EmptySet
<1>8. QED  BY <1>7 DEF I, HowMany

\* The sentence that ends a block is not counted.
LEMMA HowManyAppend ==
    ASSUME NEW S, NEW s \in Seq(S), NEW x, NEW r, x # r
    PROVE  HowMany(Append(s, x), r) = HowMany(s, r)
<1>1. DOMAIN Append(s, x) = 1..(Len(s) + 1) /\ DOMAIN s = 1..Len(s) /\ Len(s) \in Nat
  OBVIOUS
<1>2. \A i \in 1..(Len(s) + 1) : Append(s, x)[i] = IF i = Len(s) + 1 THEN x ELSE s[i]
  OBVIOUS
<1>3. {i \in DOMAIN Append(s, x) : Append(s, x)[i] = r} = {i \in DOMAIN s : s[i] = r}
  BY <1>1, <1>2
<1>4. QED  BY <1>3 DEF HowMany

\* Parsed, counter by counter.
LEMMA ParsedCounters ==
    ASSUME NEW s, NEW n \in Nat, NEW c \in Commands, NEW old \in [Counters -> Nat],
           \A k \in Commands, y \in BOOLEAN : HowMany(s, Entry(k, y)) \in 0..n
    PROVE  /\ Parsed(s, c, old) \in [Counters -> Nat]
           /\ \A k \in Counters : Parsed(s, c, old)[k] <= old[k] + n
           /\ c = "hosts" => Parsed(s, c, old)["users"] = old["users"]
           /\ c = "arp" => \A k \in {"active", "inactive"} : Parsed(s, c, old)[k] = old[k]
<1> DEFINE a == HowMany(s, Entry("hosts", TRUE))
           b == HowMany(s, Entry("hosts", FALSE))
           u == HowMany(s, Entry("arp", TRUE))
<1>1. a \in 0..n /\ b \in 0..n /\ u \in 0..n
  BY DEF Commands
<1>2. /\ Counters = {"active", "inactive", "users"}
      /\ "active" # "inactive" /\ "active" # "users" /\ "inactive" # "users"
  BY DEF Counters
<1>3. c = "hosts" =>
        Parsed(s, c, old) = [old EXCEPT !["active"] = old["active"] + a, !["inactive"] = old["inactive"] + b]
  BY <1>2 DEF Parsed
<1>4. c = "arp" => Parsed(s, c, old) = [old EXCEPT !["users"] = old["users"] + u]
  BY DEF Parsed
<1> HIDE DEF a, b, u
<1>5. CASE c = "hosts"
  BY <1>1, <1>2, <1>3, <1>5
<1>6. CASE c = "arp"
  BY <1>1, <1>2, <1>4, <1>6
<1>7. QED  BY <1>5, <1>6 DEF Commands

LEMMA ParsedType ==
    ASSUME NEW S, NEW s \in Seq(S), NEW c \in Commands, NEW old \in [Counters -> Nat]
    PROVE  /\ Parsed(s, c, old) \in [Counters -> Nat]
           /\ \A k \in Counters : Parsed(s, c, old)[k] <= old[k] + Len(s)
           /\ c = "hosts" => Parsed(s, c, old)["users"] = old["users"]
           /\ c = "arp" => \A k \in {"active", "inactive"} : Parsed(s, c, old)[k] = old[k]
<1>1. Len(s) \in Nat
  OBVIOUS
<1>2. QED  BY <1>1, HowManyBound, ParsedCounters

\* A block without entries changes no count.
LEMMA ParsedNothing ==
    ASSUME NEW S, NEW s \in Seq(S), NEW c \in Commands, NEW old \in [Counters -> Nat],
           \A i \in DOMAIN s : s[i].kind # "re"
    PROVE  Parsed(s, c, old) = old
<1> DEFINE a == HowMany(s, Entry("hosts", TRUE))
           b == HowMany(s, Entry("hosts", FALSE))
           u == HowMany(s, Entry("arp", TRUE))
<1>1. \A k \in Commands, y \in BOOLEAN : HowMany(s, Entry(k, y)) = 0
  BY HowManyBound DEF Entry
<1>2. a = 0 /\ b = 0 /\ u = 0
  BY <1>1 DEF Commands
<1>3. c = "hosts" =>
        Parsed(s, c, old) = [old EXCEPT !["active"] = old["active"] + a, !["inactive"] = old["inactive"] + b]
  BY DEF Parsed, Counters
<1>4. c = "arp" => Parsed(s, c, old) = [old EXCEPT !["users"] = old["users"] + u]
  BY DEF Parsed
<1> HIDE DEF a, b, u
<1>5. old["active"] \in Nat /\ old["inactive"] \in Nat /\ old["users"] \in Nat
  BY DEF Counters
<1>6. CASE c = "hosts"
  BY <1>2, <1>3, <1>5, <1>6
<1>7. CASE c = "arp"
  BY <1>2, <1>4, <1>5, <1>7
<1>8. QED  BY <1>6, <1>7 DEF Commands

LEMMA ParsedDone ==
    ASSUME NEW S, NEW s \in Seq(S), NEW c, NEW old
    PROVE  Parsed(Append(s, Reply("done")), c, old) = Parsed(s, c, old)
<1>1. \A k \in Commands, y \in BOOLEAN : Reply("done") # Entry(k, y)
  BY DEF Reply, Entry
<1>2. \A k \in Commands, y \in BOOLEAN :
        HowMany(Append(s, Reply("done")), Entry(k, y)) = HowMany(s, Entry(k, y))
  BY <1>1, HowManyAppend
<1>3. QED  BY <1>2 DEF Parsed, Commands

-----------------------------------------------------------------------------
(* The invariant: first the types, in two parts.                           *)

PollType ==
    /\ at \in 0..Routers
    /\ rpc \in {"connect", "challenge", "login", "send"} \cup Commands \cup Ended
    /\ requests \in Seq({"login", "response"} \cup Commands) /\ Len(requests) <= 1
    /\ replies \in Seq(Replies) /\ Len(replies) <= MaxEntries + 2
    /\ link \in {"none", "open", "closed"}
    /\ login \in {"no", "challenged", "yes"}
    /\ block \in Seq(Replies) /\ Len(block) <= MaxEntries + 1
    /\ counts \in [1..Routers -> [Counters -> 0..MaxEntries]]
    /\ told \in [1..Routers -> [Counters -> 0..MaxEntries]]

LEMMA TypeParts == RouterTypeOK <=> PollType /\ SenderTypeOK
BY DEF RouterTypeOK, PollType

Zero(t) == \A c \in Counters : t[c] = 0

\* The one request that each wait is for.
Asked(p) == CASE p = "challenge" -> "login" [] p = "login" -> "response"
              [] p = "hosts" -> "hosts" [] p = "arp" -> "arp"

Waits == {"challenge", "login"} \cup Commands

\* Where the poller is fixes the device, the connection and the request.
PlaceInv ==
    /\ rpc \in {"connect"} \cup Waits => at < Routers
    /\ rpc \in {"send", "sent"} => at = Routers
    /\ rpc \in {"connect", "send"} => link = "none" /\ requests = <<>> /\ replies = <<>>
    /\ rpc \in Ended => link # "open"
    /\ rpc \notin Commands \cup {"hung", "failed"} => block = <<>>

\* A request on its way goes with no reply and no block.
RequestInv ==
    requests # <<>> =>
        /\ rpc \in Waits \cup {"hung", "failed"}
        /\ rpc \in Waits => requests = <<Asked(rpc)>>
        /\ replies = <<>> /\ block = <<>>

\* !done is the last sentence of a reply, and a reply with !trap or !fatal has no
\* entries: a block that is being read is that of a good reply.
ReplyInv ==
    /\ \A i \in DOMAIN replies : replies[i].kind = "done" => i = Len(replies)
    /\ \/ /\ Len(block) + Len(replies) <= MaxEntries + 1
          /\ \A i \in DOMAIN replies : replies[i].kind \in {"re", "done"}
       \/ /\ Len(replies) <= 2 /\ block = <<>>
          /\ \A i \in DOMAIN replies : replies[i].kind # "re"
    /\ rpc \in {"challenge", "login"} => \A i \in DOMAIN replies : replies[i].kind # "re"

\* What a device has told is what was counted, and in a command what the block and
\* the sentences on their way will add to it.
CountInv ==
    /\ \A d \in 1..Routers : d # dev => counts[d] = told[d]
    /\ \A d \in 1..Routers : d > dev => Zero(told[d])
    /\ rpc \in {"connect", "challenge", "login"} => counts[dev] = told[dev] /\ Zero(told[dev])
    /\ rpc = "hosts" /\ requests # <<>> => Zero(told[dev])
    /\ rpc = "hosts" \/ (rpc = "arp" /\ requests # <<>>) => told[dev]["users"] = 0
    /\ rpc \in Commands => told[dev] = Parsed(block \o replies, rpc, counts[dev])

PollInv == PollType /\ PlaceInv /\ RequestInv /\ ReplyInv /\ CountInv

\* What has been received and what is on its way are, together, the beginning of
\* the answer of the server.
SenderInv ==
    /\ stage # "connect" => rpc \in {"send"} \cup Ended
    /\ rpc = "sent" => stage = "answered"
    /\ stage = "connect" => server.verdict = "none"
    /\ server.verdict = "none" => got = <<>> /\ wire = <<>>
    /\ server.verdict # "none" =>
         LET a == Answer(server.verdict) IN
         /\ Len(got) + Len(wire) <= Len(a)
         /\ \A i \in DOMAIN got : got[i] = a[i]
         /\ \A i \in DOMAIN wire : wire[i] = a[Len(got) + i]
    /\ stage = "answered" => Data = {} \/ (server.verdict = "success" /\ got = Answer("success"))

RunInv == PollInv /\ SenderTypeOK /\ SenderInv

LEMMA InitInv == RouterInit => RunInv
<1> SUFFICES ASSUME RouterInit PROVE RunInv
  OBVIOUS
<1>1. Routers \in Nat /\ MaxEntries \in Nat
  BY RouterAssumption
<1>2. PollType
  BY <1>1 DEF RouterInit, PollType
<1>3. PlaceInv /\ RequestInv
  BY <1>1 DEF RouterInit, PlaceInv, RequestInv, Waits, Commands, Ended
<1>4. ReplyInv
  BY <1>1 DEF RouterInit, ReplyInv
<1>5. \A d \in 1..Routers : counts[d] = told[d] /\ Zero(told[d])
  BY <1>1 DEF RouterInit, Zero
<1>6. CountInv
  BY <1>1, <1>5 DEF RouterInit, CountInv, dev, Commands
<1>7. SenderTypeOK
  BY DEF RouterInit, SenderInit, SenderTypeOK, Stages
<1>8. SenderInv
  BY DEF RouterInit, SenderInit, SenderInv, Ended
<1>9. QED  BY <1>2, <1>3, <1>4, <1>6, <1>7, <1>8 DEF RunInv, PollInv

-----------------------------------------------------------------------------
(* The router.                                                             *)

\* The device that is polled, and what is known while one of its commands waits.
LEMMA CurrentDevice ==
    ASSUME PollInv, rpc \in Waits
    PROVE  /\ dev \in 1..Routers /\ counts[dev] \in [Counters -> Nat]
           /\ told[dev] \in [Counters -> 0..MaxEntries]
           /\ rpc \in Commands /\ block = <<>> /\ replies = <<>> => counts[dev] = told[dev]
<1>1. /\ at \in 0..Routers /\ at < Routers /\ Routers \in Nat /\ MaxEntries \in Nat
  BY RouterAssumption DEF PollInv, PollType, PlaceInv
<1>2. dev \in 1..Routers
  BY <1>1 DEF dev
<1>3. counts[dev] \in [Counters -> 0..MaxEntries] /\ told[dev] \in [Counters -> 0..MaxEntries]
  BY <1>2 DEF PollInv, PollType
<1>4. counts[dev] \in [Counters -> Nat]
  BY <1>1, <1>3
<1>5. ASSUME rpc \in Commands, block = <<>>, replies = <<>> PROVE counts[dev] = told[dev]
  <2>1. block \o replies = <<>> /\ <<>> \in Seq({}) /\ DOMAIN <<>> = {}
    BY <1>5
  <2>2. told[dev] = Parsed(<<>>, rpc, counts[dev])
    BY <1>5, <2>1 DEF PollInv, CountInv
  <2>3. QED  BY <1>4, <1>5, <2>1, <2>2, ParsedNothing
<1>6. QED  BY <1>2, <1>3, <1>4, <1>5

LEMMA Requested ==
    ASSUME PollInv, requests # <<>>, link = "open"
    PROVE  /\ rpc \in Waits /\ requests = <<Asked(rpc)>> /\ replies = <<>> /\ block = <<>>
           /\ \A c \in Commands : requests = <<c>> => rpc = c
           /\ requests = <<"login">> => rpc = "challenge"
           /\ requests = <<"response">> => rpc = "login"
<1>1. /\ rpc \in Waits \cup {"hung", "failed"} /\ replies = <<>> /\ block = <<>>
      /\ rpc \in Waits => requests = <<Asked(rpc)>>
      /\ rpc \notin Ended
  BY DEF PollInv, RequestInv, PlaceInv
<1>2. rpc \in Waits /\ requests = <<Asked(rpc)>>
  BY <1>1 DEF Ended
<1>3. Asked(rpc) = requests[1]
  BY <1>2
<1>4. \/ rpc = "challenge" /\ Asked(rpc) = "login"
      \/ rpc = "login" /\ Asked(rpc) = "response"
      \/ rpc = "hosts" /\ Asked(rpc) = "hosts"
      \/ rpc = "arp" /\ Asked(rpc) = "arp"
  BY <1>2 DEF Waits, Commands, Asked
<1>5. QED  BY <1>1, <1>2, <1>3, <1>4 DEF Commands

\* A reply without entries is the answer to anything.
LEMMA ShortReply ==
    ASSUME PollInv, requests # <<>>, link = "open",
           replies' \in {<<Reply("done")>>, <<Reply("trap"), Reply("done")>>, <<Reply("fatal")>>},
           link' \in {"open", "closed"}, login' \in {"no", "challenged", "yes"}, requests' = <<>>,
           UNCHANGED <<at, rpc, block, counts, told>>
    PROVE  PollInv'
<1>1. rpc \in Waits /\ block = <<>> /\ replies = <<>>
  BY Requested
<1>2. MaxEntries \in Nat
  BY RouterAssumption
<1>3. /\ replies' \in Seq(Replies) /\ Len(replies') <= 2
      /\ \A i \in DOMAIN replies' : /\ replies'[i].kind # "re"
                                    /\ replies'[i].kind = "done" => i = Len(replies')
  <2>1. Reply("done") \in Replies /\ Reply("trap") \in Replies /\ Reply("fatal") \in Replies
    BY DEF Replies
  <2>2. /\ Reply("done").kind = "done" /\ Reply("trap").kind = "trap" /\ Reply("fatal").kind = "fatal"
    BY DEF Reply
  <2>3. CASE replies' = <<Reply("done")>>
    BY <2>1, <2>2, <2>3
  <2>4. CASE replies' = <<Reply("trap"), Reply("done")>>
    BY <2>1, <2>2, <2>4
  <2>5. CASE replies' = <<Reply("fatal")>>
    BY <2>1, <2>2, <2>5
  <2>6. QED  BY <2>3, <2>4, <2>5
<1>4. PollType'
  BY <1>2, <1>3 DEF PollInv, PollType
<1>5. PlaceInv' /\ RequestInv'
  BY <1>1 DEF PollInv, PlaceInv, RequestInv, Waits, Commands, Ended
<1>6. ReplyInv'
  BY <1>1, <1>3 DEF ReplyInv
<1>7. CountInv'
  <2>1. ASSUME rpc \in Commands PROVE told[dev] = Parsed(block' \o replies', rpc, counts[dev])
    <3>1. block' \o replies' = replies'
      BY <1>1, <1>3
    <3>2. QED  BY <1>1, <1>3, <2>1, <3>1, CurrentDevice, ParsedNothing
  <2>2. QED  BY <1>1, <2>1 DEF PollInv, CountInv, dev
<1>8. QED  BY <1>4, <1>5, <1>6, <1>7 DEF PollInv

LEMMA BoundedIsSeq ==
    ASSUME NEW S, NEW n \in Nat, NEW s \in BoundedSeq(S, n)
    PROVE  s \in Seq(S) /\ Len(s) \in 0..n
<1>1. PICK m \in 0..n : s \in [1..m -> S]
  BY DEF BoundedSeq, SeqOf
<1>2. QED  BY <1>1

\* A reply with entries: what they add to the counts is told.
LEMMA EntriesReply ==
    ASSUME PollInv, requests # <<>>, link = "open", NEW c \in Commands, requests = <<c>>,
           NEW s \in BoundedSeq({e \in Entries : e.of = c}, MaxEntries),
           replies' = Append(s, Reply("done")),
           told' = [told EXCEPT ![dev] = Parsed(s, c, @)],
           requests' = <<>>, UNCHANGED <<at, rpc, block, counts, link, login>>
    PROVE  PollInv'
<1>1. rpc = c /\ rpc \in Waits /\ block = <<>> /\ replies = <<>>
  BY Requested
<1>2. MaxEntries \in Nat /\ Routers \in Nat
  BY RouterAssumption
<1>3. s \in Seq({e \in Entries : e.of = c}) /\ Len(s) \in 0..MaxEntries
  BY <1>2, BoundedIsSeq
<1>4. s \in Seq(Replies) /\ \A i \in DOMAIN s : s[i].kind = "re"
  <2>1. \A i \in DOMAIN s : s[i] \in Entries
    BY <1>3
  <2>2. \A e \in Entries : e.kind = "re" /\ e \in Replies
    BY DEF Entries, Replies
  <2>3. QED  BY <1>3, <2>1, <2>2
<1>5. Reply("done") \in Replies /\ Reply("done").kind = "done"
  BY DEF Reply, Replies
<1>6. /\ replies' \in Seq(Replies) /\ Len(replies') = Len(s) + 1
      /\ \A i \in DOMAIN replies' : /\ replies'[i].kind \in {"re", "done"}
                                    /\ replies'[i].kind = "done" => i = Len(replies')
  <2>1. /\ replies' \in Seq(Replies) /\ Len(replies') = Len(s) + 1
        /\ DOMAIN replies' = 1..(Len(s) + 1) /\ DOMAIN s = 1..Len(s) /\ Len(s) \in Nat
    BY <1>4, <1>5
  <2>2. \A i \in 1..(Len(s) + 1) : replies'[i] = IF i = Len(s) + 1 THEN Reply("done") ELSE s[i]
    BY <1>4, <1>5
  <2>3. QED  BY <1>4, <1>5, <2>1, <2>2
<1>7. /\ dev \in 1..Routers /\ counts[dev] = told[dev] /\ told[dev] \in [Counters -> 0..MaxEntries]
      /\ counts[dev] \in [Counters -> Nat]
  BY <1>1, CurrentDevice
<1>8. /\ told'[dev] = Parsed(s, c, told[dev])
      /\ \A d \in 1..Routers : d # dev => told'[d] = told[d]
  BY <1>7 DEF PollInv, PollType
<1>9. /\ c = "hosts" => Zero(told[dev])
      /\ told[dev]["users"] = 0
  BY <1>1 DEF PollInv, CountInv, Commands
<1>10. /\ Parsed(s, c, told[dev]) \in [Counters -> 0..MaxEntries]
       /\ c = "hosts" => Parsed(s, c, told[dev])["users"] = 0
  <2>1. /\ Parsed(s, c, told[dev]) \in [Counters -> Nat]
        /\ \A k \in Counters : Parsed(s, c, told[dev])[k] <= told[dev][k] + Len(s)
        /\ c = "hosts" => Parsed(s, c, told[dev])["users"] = told[dev]["users"]
        /\ c = "arp" => \A k \in {"active", "inactive"} : Parsed(s, c, told[dev])[k] = told[dev][k]
    BY <1>3, <1>7, ParsedType
  <2>2. \A k \in Counters : Parsed(s, c, told[dev])[k] <= MaxEntries
    <3>1. CASE c = "hosts"
      BY <1>2, <1>3, <1>9, <2>1, <3>1 DEF Zero
    <3>2. CASE c = "arp"
      BY <1>2, <1>3, <1>7, <1>9, <2>1, <3>2 DEF Counters
    <3>3. QED  BY <3>1, <3>2 DEF Commands
  <2>3. QED  BY <1>2, <1>9, <2>1, <2>2
<1>11. PollType'
  <2>1. told' \in [1..Routers -> [Counters -> 0..MaxEntries]]
    BY <1>7, <1>10 DEF PollInv, PollType
  <2>2. QED  BY <1>2, <1>3, <1>6, <2>1, SMTT(30) DEF PollInv, PollType
<1>12. PlaceInv' /\ RequestInv'
  BY <1>1 DEF PollInv, PlaceInv, RequestInv, Waits, Commands, Ended
<1>13. ReplyInv'
  <2>1. Len(block) = 0
    BY <1>1
  <2>2. rpc \notin {"challenge", "login"}
    BY <1>1 DEF Commands
  <2>3. Len(block') + Len(replies') <= MaxEntries + 1
    BY <1>2, <1>3, <1>6, <2>1
  <2>4. QED  BY <1>6, <2>2, <2>3 DEF ReplyInv
<1>14. CountInv'
  <2>1. told'[dev] = Parsed(block' \o replies', rpc, counts[dev])
    <3>1. block' \o replies' = Append(s, Reply("done"))
      BY <1>1, <1>6
    <3>2. QED  BY <1>1, <1>3, <1>7, <1>8, <3>1, ParsedDone
  <2>2. \A d \in 1..Routers : d # dev => counts[d] = told'[d]
    BY <1>8 DEF PollInv, CountInv
  <2>3. \A d \in 1..Routers : d > dev => Zero(told'[d])
    BY <1>2, <1>7, <1>8 DEF PollInv, CountInv
  <2>4. rpc = "hosts" => told'[dev]["users"] = 0
    BY <1>1, <1>8, <1>10
  <2>5. UNCHANGED <<at, rpc, counts>> /\ requests' = <<>> /\ rpc \notin {"connect", "challenge", "login"}
    BY <1>1 DEF Commands
  <2>6. QED  BY <2>1, <2>2, <2>3, <2>4, <2>5 DEF CountInv, dev
<1>15. QED  BY <1>11, <1>12, <1>13, <1>14 DEF PollInv

LEMMA RouterKeeps ==
    ASSUME PollInv, Router
    PROVE  PollInv'
<1>1. /\ link = "open" /\ requests' = <<>> /\ UNCHANGED <<at, rpc, block, counts>>
      /\ Challenge \/ Judge \/ \E c \in Commands : Serve(c) \/ Reject(c)
  BY DEF Router
<1>2. requests # <<>>
  BY <1>1 DEF Challenge, Judge, Serve, Reject
<1>3. replies = <<>> /\ login \in {"no", "challenged", "yes"}
  BY <1>1, <1>2, Requested DEF PollInv, PollType
<1>4. \A r : <<>> \o <<r>> = <<r>> /\ \A q : <<>> \o <<q, r>> = <<q, r>>
  OBVIOUS
<1>5. CASE Challenge
  BY <1>1, <1>2, <1>3, <1>4, <1>5, ShortReply DEF Challenge, Say
<1>6. CASE Judge
  BY <1>1, <1>2, <1>3, <1>4, <1>6, ShortReply DEF Judge, Say
<1>7. ASSUME NEW c \in Commands, Serve(c)
      PROVE  PollInv'
  <2>1. CASE Say(<<Reply("trap"), Reply("done")>>) /\ UNCHANGED told
    BY <1>1, <1>2, <1>3, <1>4, <1>7, <2>1, ShortReply DEF Serve, Say
  <2>2. ASSUME NEW s \in BoundedSeq({e \in Entries : e.of = c}, MaxEntries),
               Say(Append(s, Reply("done"))), told' = [told EXCEPT ![dev] = Parsed(s, c, @)]
        PROVE  PollInv'
    <3>1. MaxEntries \in Nat
      BY RouterAssumption
    <3>2. s \in Seq({e \in Entries : e.of = c})
      BY <3>1, BoundedIsSeq
    <3>3. <<>> \o Append(s, Reply("done")) = Append(s, Reply("done"))
      BY <3>2
    <3>4. replies' = Append(s, Reply("done"))
      BY <1>3, <2>2, <3>3 DEF Say
    <3>5. requests = <<c>> /\ UNCHANGED <<link, login>>
      BY <1>7 DEF Serve
    <3>6. QED  BY <1>1, <1>2, <2>2, <3>4, <3>5, EntriesReply
  <2>3. QED  BY <1>7, <2>1, <2>2 DEF Serve
<1>8. ASSUME NEW c \in Commands, Reject(c)
      PROVE  PollInv'
  BY <1>1, <1>2, <1>3, <1>4, <1>8, ShortReply DEF Reject, Say
<1>9. QED  BY <1>1, <1>5, <1>6, <1>7, <1>8

LEMMA RouterDownKeeps ==
    ASSUME PollInv, RouterDown
    PROVE  PollInv'
BY DEF RouterDown, PollInv, PollType, PlaceInv, RequestInv, ReplyInv, CountInv, dev

-----------------------------------------------------------------------------
(* The poller.                                                             *)

LEMMA OneRequest ==
    /\ \A S : \A q \in S : <<q>> \in Seq(S) /\ Len(<<q>>) = 1
    /\ \A S : <<>> \in Seq(S) /\ Len(<<>>) = 0 /\ DOMAIN <<>> = {}
OBVIOUS

LEMMA ConnectKeeps ==
    ASSUME PollInv, Connect
    PROVE  PollInv'
<1>1. /\ rpc = "connect" /\ requests = <<>> /\ block = <<>> /\ link = "none" /\ at < Routers
      /\ MaxEntries \in Nat
  BY RouterAssumption DEF Connect, PollInv, PlaceInv, Commands
<1>2. \/ link' = "open" /\ rpc' = "challenge" /\ requests' = <<"login">>
      \/ link' = "none" /\ rpc' = "failed" /\ requests' = <<>>
  BY <1>1 DEF Connect, Write
<1>3. login' = "no" /\ replies' = <<>> /\ UNCHANGED <<at, block, counts, told>>
  BY DEF Connect
<1>4. PollType'
  <2>1. requests' \in Seq({"login", "response"} \cup Commands) /\ Len(requests') <= 1
    <3>1. CASE requests' = <<>>
      BY <3>1, OneRequest
    <3>2. CASE requests' = <<"login">>
      BY <3>2, OneRequest
    <3>3. QED  BY <1>2, <3>1, <3>2
  <2>2. replies' \in Seq(Replies) /\ Len(replies') <= MaxEntries + 2
    BY <1>1, <1>3
  <2>3. QED  BY <1>2, <1>3, <2>1, <2>2 DEF PollInv, PollType, Ended
<1>5. PlaceInv' /\ RequestInv'
  BY <1>1, <1>2, <1>3 DEF PlaceInv, RequestInv, Waits, Commands, Ended, Asked
<1>6. ReplyInv'
  BY <1>1, <1>3 DEF ReplyInv
<1>7. CountInv'
  BY <1>1, <1>2, <1>3 DEF PollInv, CountInv, dev, Commands
<1>8. QED  BY <1>4, <1>5, <1>6, <1>7 DEF PollInv

\* The next sentence; after !done there is none.
LEMMA NextReply ==
    ASSUME PollInv, replies # <<>>
    PROVE  /\ requests = <<>> /\ Head(replies) \in Replies /\ Head(replies) = replies[1]
           /\ Tail(replies) \in Seq(Replies) /\ Len(Tail(replies)) = Len(replies) - 1
           /\ \A i \in DOMAIN Tail(replies) : i + 1 \in DOMAIN replies /\ Tail(replies)[i] = replies[i + 1]
           /\ Head(replies).kind = "done" => Tail(replies) = <<>> /\ replies = <<Head(replies)>>
           /\ Len(replies) \in Nat \ {0} /\ 1 \in DOMAIN replies
<1>1. replies \in Seq(Replies)
  BY DEF PollInv, PollType
<1>2. /\ Head(replies) \in Replies /\ Head(replies) = replies[1]
      /\ Tail(replies) \in Seq(Replies) /\ Len(Tail(replies)) = Len(replies) - 1
      /\ \A i \in DOMAIN Tail(replies) : i + 1 \in DOMAIN replies /\ Tail(replies)[i] = replies[i + 1]
      /\ Len(replies) \in Nat \ {0} /\ 1 \in DOMAIN replies
  BY <1>1
<1>3. Head(replies).kind = "done" => Len(replies) = 1
  BY <1>2 DEF PollInv, ReplyInv
<1>4. Len(replies) = 1 => Tail(replies) = <<>> /\ replies = <<Head(replies)>>
  BY <1>1, <1>2
<1>5. requests = <<>>
  BY DEF PollInv, RequestInv
<1>6. QED  BY <1>2, <1>3, <1>4, <1>5

LEMMA LoginStepKeeps ==
    ASSUME PollInv, LoginStep
    PROVE  PollInv'
<1>1. /\ rpc \in {"challenge", "login"} /\ replies # <<>> /\ replies' = Tail(replies)
      /\ UNCHANGED <<at, link, login, block, counts, told>>
  BY DEF LoginStep
<1>2. /\ block = <<>> /\ at < Routers /\ requests = <<>> /\ MaxEntries \in Nat
      /\ dev \in 1..Routers /\ counts[dev] \in [Counters -> Nat]
      /\ counts[dev] = told[dev] /\ Zero(told[dev])
      /\ \A i \in DOMAIN replies : replies[i].kind # "re"
  BY <1>1, NextReply, CurrentDevice, RouterAssumption
     DEF PollInv, PlaceInv, CountInv, ReplyInv, Waits, Commands
<1>3. CASE Dropped(Head(replies))
  <2>1. UNCHANGED <<rpc, requests>>
    BY <1>3 DEF LoginStep
  <2>2. PollType'
    BY <1>1, <1>2, <2>1, NextReply DEF PollInv, PollType
  <2>3. PlaceInv' /\ RequestInv'
    BY <1>1, <1>2, <2>1 DEF PollInv, PlaceInv, RequestInv, Ended, Commands
  <2>4. /\ Len(replies') = Len(replies) - 1 /\ Len(replies) \in Nat
        /\ \A i \in DOMAIN replies' : i + 1 \in DOMAIN replies /\ replies'[i] = replies[i + 1]
    BY <1>1, NextReply
  <2>5. ReplyInv'
    <3>1. /\ \A i \in DOMAIN replies : replies[i].kind = "done" => i = Len(replies)
          /\ \/ Len(block) + Len(replies) <= MaxEntries + 1
                /\ \A i \in DOMAIN replies : replies[i].kind \in {"re", "done"}
             \/ Len(replies) <= 2
      BY DEF PollInv, ReplyInv
    <3>2. \A i \in DOMAIN replies' : i \in Int /\ replies'[i].kind # "re"
                                     /\ (replies'[i].kind = "done" => i = Len(replies'))
      <4>1. DOMAIN replies' = 1..Len(replies') /\ Len(replies') \in Nat
        BY <2>2 DEF PollType
      <4>2. QED  BY <1>2, <2>4, <3>1, <4>1
    <3>3. Len(block) = 0
      BY <1>2
    <3>4. \/ Len(block') + Len(replies') <= MaxEntries + 1
             /\ \A i \in DOMAIN replies' : replies'[i].kind \in {"re", "done"}
          \/ Len(replies') <= 2
      BY <1>1, <1>2, <2>4, <3>1, <3>3
    <3>5. QED  BY <1>1, <1>2, <2>1, <3>2, <3>4 DEF ReplyInv
  <2>6. CountInv'
    BY <1>1, <1>2, <2>1 DEF PollInv, CountInv, dev, Commands
  <2>7. QED  BY <2>2, <2>3, <2>5, <2>6 DEF PollInv
<1>4. CASE ~Dropped(Head(replies))
  <2>1. replies' = <<>>
    <3>1. Head(replies) \in Replies /\ Head(replies).kind # "re"
      BY <1>1, <1>2, NextReply
    <3>2. Head(replies).kind \in {"re", "done", "trap", "fatal"}
      BY <3>1 DEF Replies, Entries, Reply
    <3>3. Head(replies).kind = "done"
      BY <1>4, <3>1, <3>2 DEF Dropped
    <3>4. QED  BY <1>1, <3>3, NextReply
  <2>2. \/ rpc = "challenge" /\ rpc' = "login" /\ requests' = <<"response">>
        \/ rpc = "login" /\ rpc' = "hosts" /\ requests' = <<"hosts">>
    BY <1>1, <1>2, <1>4 DEF LoginStep, Write
  <2>3. PollType'
    <3>1. requests' \in Seq({"login", "response"} \cup Commands) /\ Len(requests') <= 1
      <4>1. "response" \in {"login", "response"} \cup Commands /\ "hosts" \in {"login", "response"} \cup Commands
        BY DEF Commands
      <4>2. \E q \in {"login", "response"} \cup Commands : requests' = <<q>>
        BY <2>2, <4>1
      <4>3. QED  BY <4>2, OneRequest
    <3>2. replies' \in Seq(Replies) /\ Len(replies') <= MaxEntries + 2
      BY <1>2, <2>1
    <3>3. QED  BY <1>1, <2>2, <3>1, <3>2 DEF PollInv, PollType, Commands
  <2>4. PlaceInv' /\ RequestInv'
    BY <1>1, <1>2, <2>1, <2>2 DEF PlaceInv, RequestInv, Waits, Commands, Ended, Asked
  <2>5. ReplyInv'
    <3>1. Len(replies') = 0 /\ DOMAIN replies' = {}
      BY <2>1, OneRequest
    <3>2. block' = <<>>
      BY <1>1, <1>2
    <3>3. QED  BY <3>1, <3>2 DEF ReplyInv
  <2>6. CountInv'
    <3>1. Parsed(block' \o replies', "hosts", counts[dev]) = counts[dev]
      <4>1. block' \o replies' = <<>> /\ <<>> \in Seq({}) /\ DOMAIN <<>> = {}
        BY <1>1, <1>2, <2>1
      <4>2. QED  BY <1>2, <4>1, ParsedNothing DEF Commands
    <3>2. told[dev]["users"] = 0
      BY <1>2 DEF Zero, Counters
    <3>3. /\ \A d \in 1..Routers : d # dev => counts[d] = told[d]
          /\ \A d \in 1..Routers : d > dev => Zero(told[d])
      BY DEF PollInv, CountInv
    <3>4. QED  BY <1>1, <1>2, <2>2, <3>1, <3>2, <3>3 DEF CountInv, dev, Commands
  <2>7. QED  BY <2>3, <2>4, <2>5, <2>6 DEF PollInv
<1>5. QED  BY <1>3, <1>4

LEMMA ReadClosedKeeps ==
    ASSUME PollInv, ReadClosed
    PROVE  PollInv'
<1>1. /\ rpc \in Waits /\ link = "closed" /\ rpc' \in {"hung", "failed"}
      /\ UNCHANGED <<at, requests, replies, link, login, block, counts, told>>
  BY DEF ReadClosed, Waits
<1>2. PollType'
  BY <1>1 DEF PollInv, PollType, Ended
<1>3. PlaceInv' /\ RequestInv'
  BY <1>1 DEF PollInv, PlaceInv, RequestInv, Waits, Ended, Commands
<1>4. ReplyInv' /\ CountInv'
  BY <1>1 DEF PollInv, ReplyInv, CountInv, Commands, dev
<1>5. QED  BY <1>2, <1>3, <1>4 DEF PollInv

\* What a block that has ended adds to the counts is what the device has told.
LEMMA BlockEnds ==
    ASSUME PollInv, rpc \in Commands, replies # <<>>, Head(replies).kind = "done"
    PROVE  Parsed(block, rpc, counts[dev]) = told[dev]
<1>1. replies = <<Head(replies)>> /\ block \in Seq(Replies)
  BY NextReply DEF PollInv, PollType
<1>2. Head(replies) = Reply("done")
  <2>1. Head(replies) \in Replies
    BY NextReply
  <2>2. QED  BY <2>1 DEF Replies, Entries, Reply
<1>3. block \o replies = Append(block, Reply("done"))
  <2>1. Reply("done") \in Replies /\ replies = <<Reply("done")>>
    BY <1>1, <1>2 DEF Replies
  <2>2. QED  BY <1>1, <2>1, AppendIsConcat
<1>4. told[dev] = Parsed(block \o replies, rpc, counts[dev])
  BY DEF PollInv, CountInv
<1>5. QED  BY <1>1, <1>3, <1>4, ParsedDone

LEMMA MoveHead ==
    ASSUME NEW S, NEW s \in Seq(S), NEW t \in Seq(S), t # <<>>
    PROVE  Append(s, Head(t)) \o Tail(t) = s \o t
<1>1. /\ Head(t) \in S /\ Tail(t) \in Seq(S) /\ Len(Tail(t)) = Len(t) - 1 /\ Head(t) = t[1]
      /\ \A i \in 1..Len(Tail(t)) : Tail(t)[i] = t[i + 1]
      /\ Len(s) \in Nat /\ Len(t) \in Nat \ {0}
  BY HeadTailProperties
<1> DEFINE a == Append(s, Head(t))
<1>2. /\ a \in Seq(S) /\ Len(a) = Len(s) + 1 /\ a[Len(s) + 1] = t[1]
      /\ \A i \in 1..Len(s) : a[i] = s[i]
  BY <1>1, AppendProperties
<1> HIDE DEF a
<1> DEFINE u == a \o Tail(t)
           w == s \o t
<1>3. /\ u \in Seq(S) /\ Len(u) = Len(s) + Len(t)
      /\ \A i \in 1..(Len(s) + Len(t)) : u[i] = IF i <= Len(s) + 1 THEN a[i] ELSE t[i - Len(s)]
  <2>1. /\ u \in Seq(S) /\ Len(u) = Len(a) + Len(Tail(t))
        /\ \A i \in 1..(Len(a) + Len(Tail(t))) :
             u[i] = IF i <= Len(a) THEN a[i] ELSE Tail(t)[i - Len(a)]
    BY <1>1, <1>2, ConcatProperties
  <2> HIDE DEF u
  <2>2. Len(a) = Len(s) + 1 /\ Len(a) + Len(Tail(t)) = Len(s) + Len(t)
    BY <1>1, <1>2
  <2>3. ASSUME NEW i \in 1..(Len(s) + Len(t))
        PROVE  u[i] = IF i <= Len(s) + 1 THEN a[i] ELSE t[i - Len(s)]
    <3>1. u[i] = IF i <= Len(s) + 1 THEN a[i] ELSE Tail(t)[i - (Len(s) + 1)]
      BY <2>1, <2>2
    <3>2. ~(i <= Len(s) + 1) => i - (Len(s) + 1) \in 1..Len(Tail(t)) /\ (i - (Len(s) + 1)) + 1 = i - Len(s)
      BY <1>1
    <3>3. QED  BY <1>1, <3>1, <3>2
  <2>4. QED  BY <2>1, <2>2, <2>3
<1>4. /\ w \in Seq(S) /\ Len(w) = Len(s) + Len(t)
      /\ \A i \in 1..(Len(s) + Len(t)) : w[i] = IF i <= Len(s) THEN s[i] ELSE t[i - Len(s)]
  BY ConcatProperties
<1> HIDE DEF u, w
<1>5. \A i \in 1..(Len(s) + Len(t)) : u[i] = w[i]
  <2>1. ASSUME NEW i \in 1..(Len(s) + Len(t)) PROVE u[i] = w[i]
    <3>1. CASE i \in 1..Len(s)
      BY <1>1, <1>2, <1>3, <1>4, <3>1
    <3>2. CASE i = Len(s) + 1
      BY <1>1, <1>2, <1>3, <1>4, <3>2
    <3>3. CASE i > Len(s) + 1
      BY <1>1, <1>3, <1>4, <3>3
    <3>4. QED  BY <1>1, <3>1, <3>2, <3>3
  <2>2. QED  BY <2>1
<1>6. u = w
  BY <1>1, <1>3, <1>4, <1>5, SeqEqual
<1>7. QED  BY <1>6 DEF u, w, a

\* A sentence that does not end the block.
LEMMA ReadOnKeeps ==
    ASSUME PollInv, rpc \in Commands, replies # <<>>, Head(replies).kind # "done",
           block' = IF Dropped(Head(replies)) THEN block ELSE Append(block, Head(replies)),
           replies' = Tail(replies), UNCHANGED <<at, rpc, requests, link, login, counts, told>>
    PROVE  PollInv'
<1>1. /\ requests = <<>> /\ Head(replies) \in Replies /\ Head(replies) = replies[1]
      /\ replies' \in Seq(Replies) /\ Len(replies') = Len(replies) - 1
      /\ \A i \in DOMAIN replies' : i + 1 \in DOMAIN replies /\ replies'[i] = replies[i + 1]
      /\ Len(replies) \in Nat \ {0} /\ 1 \in DOMAIN replies
  BY NextReply
<1>2. Head(replies).kind \in {"re", "trap", "fatal"}
  BY <1>1 DEF Replies, Entries, Reply
<1>3. /\ block \in Seq(Replies) /\ MaxEntries \in Nat /\ replies \in Seq(Replies)
      /\ DOMAIN replies' = 1..Len(replies') /\ Len(replies') \in Nat /\ Len(block) \in Nat
  BY <1>1, RouterAssumption DEF PollInv, PollType
<1>4. \A i \in DOMAIN replies' : replies'[i].kind = "done" => i = Len(replies')
  BY <1>1, <1>3 DEF PollInv, ReplyInv
<1>5. PlaceInv' /\ RequestInv'
  BY <1>1 DEF PollInv, PlaceInv, RequestInv, Commands, Ended
<1>6. /\ \A d \in 1..Routers : d # dev' => counts'[d] = told'[d]
      /\ \A d \in 1..Routers : d > dev' => Zero(told'[d])
      /\ rpc' = "hosts" => told'[dev']["users"] = 0
      /\ requests' = <<>> /\ rpc' \notin {"connect", "challenge", "login"}
  BY <1>1 DEF PollInv, CountInv, dev, Commands
<1>7. rpc \in Waits
  BY DEF Waits
<1>8. CASE Dropped(Head(replies))
  <2>1. block' = block /\ Head(replies).kind \in {"trap", "fatal"}
    BY <1>8 DEF Dropped
  <2>2. /\ Len(replies) <= 2 /\ block = <<>>
        /\ \A i \in DOMAIN replies : replies[i].kind # "re"
    BY <1>1, <2>1 DEF PollInv, ReplyInv
  <2>3. \A i \in DOMAIN replies' : replies'[i].kind # "re"
    BY <1>1, <2>2
  <2>4. PollType'
    BY <1>1, <1>3, <2>1, <2>2 DEF PollInv, PollType
  <2>5. ReplyInv'
    BY <1>1, <1>4, <2>1, <2>2, <2>3 DEF ReplyInv, Commands
  <2>6. told[dev] = Parsed(block' \o replies', rpc, counts[dev])
    <3>1. block \o replies = replies /\ block' \o replies' = replies'
      BY <1>1, <1>3, <2>1, <2>2, ConcatEmptySeq
    <3>2. counts[dev] \in [Counters -> Nat]
      BY <1>7, CurrentDevice
    <3>3. told[dev] = Parsed(replies, rpc, counts[dev])
      BY <3>1 DEF PollInv, CountInv
    <3>4. told[dev] = counts[dev]
      BY <1>3, <2>2, <3>2, <3>3, ParsedNothing
    <3>5. replies' \in Seq(Replies) /\ rpc \in Commands
      BY <1>1
    <3>6. Parsed(replies', rpc, counts[dev]) = counts[dev]
      BY <2>3, <3>2, <3>5, ParsedNothing
    <3>7. QED  BY <3>1, <3>4, <3>6
  <2>7. CountInv'
    BY <1>6, <2>6 DEF CountInv, dev
  <2>8. QED  BY <1>5, <2>4, <2>5, <2>7 DEF PollInv
<1>9. CASE ~Dropped(Head(replies))
  <2>1. block' = Append(block, Head(replies)) /\ Head(replies).kind = "re"
    BY <1>2, <1>9 DEF Dropped
  <2>2. /\ Len(block) + Len(replies) <= MaxEntries + 1
        /\ \A i \in DOMAIN replies : replies[i].kind \in {"re", "done"}
    BY <1>1, <2>1 DEF PollInv, ReplyInv
  <2>3. block' \in Seq(Replies) /\ Len(block') = Len(block) + 1
    BY <1>1, <1>3, <2>1
  <2>4. PollType'
    BY <1>1, <1>3, <2>2, <2>3 DEF PollInv, PollType
  <2>5. ReplyInv'
    <3>1. Len(block') + Len(replies') <= MaxEntries + 1
      BY <1>1, <1>3, <2>2, <2>3
    <3>2. \A i \in DOMAIN replies' : replies'[i].kind \in {"re", "done"}
      BY <1>1, <2>2
    <3>3. QED  BY <1>4, <1>6, <3>1, <3>2 DEF ReplyInv
  <2>6. block' \o replies' = block \o replies
    BY <1>1, <1>3, <2>1, MoveHead
  <2>7. CountInv'
    BY <1>6, <2>6 DEF PollInv, CountInv, dev
  <2>8. QED  BY <1>5, <2>4, <2>5, <2>7 DEF PollInv
<1>10. QED  BY <1>8, <1>9

\* The end of a block: on to the next command or to the next device.
LEMMA EndBlockKeeps ==
    ASSUME PollInv, rpc \in Commands, replies # <<>>, Head(replies).kind = "done",
           counts' = [counts EXCEPT ![dev] = Parsed(block, rpc, @)], block' = <<>>, AfterBlock,
           replies' = <<>>, UNCHANGED told
    PROVE  PollInv'
<1>1. requests = <<>> /\ rpc \in Waits
  BY NextReply DEF Waits
<1>2. /\ at \in 0..Routers /\ at < Routers /\ dev \in 1..Routers /\ dev = at + 1
      /\ Routers \in Nat /\ MaxEntries \in Nat
  BY <1>1, CurrentDevice, RouterAssumption DEF PollInv, PollType, PlaceInv, dev
<1>3. counts \in [1..Routers -> [Counters -> 0..MaxEntries]] /\ told \in [1..Routers -> [Counters -> 0..MaxEntries]]
  BY DEF PollInv, PollType
<1>4. /\ counts' \in [1..Routers -> [Counters -> 0..MaxEntries]]
      /\ \A d \in 1..Routers : counts'[d] = told[d]
  <2>1. counts' = [counts EXCEPT ![dev] = told[dev]]
    BY BlockEnds
  <2>2. \A d \in 1..Routers : d # dev => counts[d] = told[d]
    BY DEF PollInv, CountInv
  <2>3. QED  BY <1>2, <1>3, <2>1, <2>2
<1>5. \A d \in 1..Routers : d > dev => Zero(told[d])
  BY DEF PollInv, CountInv
<1>6. CASE rpc = "hosts"
  <2>1. rpc' = "arp" /\ requests' = <<"arp">> /\ UNCHANGED <<at, link, login>>
    BY <1>1, <1>6 DEF AfterBlock, Write
  <2>2. PollType'
    BY <1>2, <1>4, <2>1, SMTT(30) DEF PollInv, PollType, Commands
  <2>3. PlaceInv' /\ RequestInv' /\ ReplyInv'
    BY <1>2, <2>1 DEF PlaceInv, RequestInv, ReplyInv, Waits, Commands, Ended, Asked
  <2>4. told[dev]["users"] = 0
    BY <1>6 DEF PollInv, CountInv
  <2>5. Parsed(block' \o replies', "arp", counts'[dev]) = counts'[dev]
    <3>1. block' \o replies' = <<>> /\ <<>> \in Seq({}) /\ DOMAIN <<>> = {}
      OBVIOUS
    <3>2. counts'[dev] \in [Counters -> Nat]
      BY <1>2, <1>4
    <3>3. QED  BY <3>1, <3>2, ParsedNothing DEF Commands
  <2>6. CountInv'
    BY <1>2, <1>4, <1>5, <2>1, <2>4, <2>5 DEF CountInv, dev, Commands
  <2>7. QED  BY <2>2, <2>3, <2>6 DEF PollInv
<1>7. CASE rpc = "arp"
  <2>1. /\ at' = dev /\ rpc' = IF dev = Routers THEN "send" ELSE "connect"
        /\ requests' = <<>> /\ link' = "none" /\ login' = "no"
    BY <1>7 DEF AfterBlock
  <2>2. PollType'
    BY <1>2, <1>4, <2>1, SMTT(30) DEF PollInv, PollType
  <2>3. PlaceInv' /\ RequestInv' /\ ReplyInv'
    BY <1>2, <2>1 DEF PlaceInv, RequestInv, ReplyInv, Waits, Commands, Ended
  <2>4. CountInv'
    BY <1>2, <1>4, <1>5, <2>1 DEF CountInv, dev, Commands
  <2>5. QED  BY <2>2, <2>3, <2>4 DEF PollInv
<1>8. QED  BY <1>6, <1>7 DEF Commands

LEMMA ReadBlockKeeps ==
    ASSUME PollInv, ReadBlock
    PROVE  PollInv'
<1>1. rpc \in Commands /\ replies # <<>> /\ UNCHANGED told
  BY DEF ReadBlock
<1>2. CASE Head(replies).kind = "done"
  <2>1. replies' = <<>>
    BY <1>1, <1>2, NextReply DEF ReadBlock
  <2>2. /\ counts' = [counts EXCEPT ![dev] = Parsed(block, rpc, @)]
        /\ block' = <<>> /\ AfterBlock
    BY <1>2 DEF ReadBlock, EndsBlock, ClearedBlock
  <2>3. QED  BY <1>1, <1>2, <2>1, <2>2, EndBlockKeeps
<1>3. CASE Head(replies).kind # "done"
  BY <1>1, <1>3, ReadOnKeeps DEF ReadBlock, EndsBlock
<1>4. QED  BY <1>2, <1>3

-----------------------------------------------------------------------------
(* The sender.                                                             *)

LEMMA Answers ==
    ASSUME NEW v \in Verdicts
    PROVE  /\ Answer(v) \in Seq(Units) /\ Len(Answer(v)) \in 0..datalen
           /\ Len(Answer(v)) >= datalen => Answer(v)[3] = v
<1>1. datalen = 5
  BY DEF datalen, Answer
<1>2. v \in Units /\ "ZBXD" \in Units /\ "length" \in Units /\ "info" \in Units /\ "rest" \in Units
  BY DEF Units
<1>3. CASE v = "foreign"
  <2>1. Answer(v) = <<v, v>>
    BY <1>3 DEF Answer
  <2>2. QED  BY <1>1, <1>2, <2>1
<1>4. CASE v # "foreign"
  <2>1. PICK u \in {"length", "overlong"} : Answer(v) = <<"ZBXD", u, v, "info", "rest">>
    BY <1>4 DEF Answer
  <2>2. u \in Units
    BY DEF Units
  <2>3. QED  BY <1>1, <1>2, <2>1, <2>2
<1>5. QED  BY <1>3, <1>4

\* The first units of a sequence, and the others.
LEMMA Cut ==
    ASSUME NEW S, NEW s \in Seq(S), NEW n \in 0..Len(s)
    PROVE  /\ SubSeq(s, 1, n) \in Seq(S) /\ Len(SubSeq(s, 1, n)) = n
           /\ \A i \in 1..n : SubSeq(s, 1, n)[i] = s[i]
           /\ SubSeq(s, n + 1, Len(s)) \in Seq(S) /\ Len(SubSeq(s, n + 1, Len(s))) = Len(s) - n
           /\ \A i \in 1..(Len(s) - n) : SubSeq(s, n + 1, Len(s))[i] = s[n + i]
<1>1. Len(s) \in Nat /\ \A i \in 1..Len(s) : s[i] \in S
  OBVIOUS
<1>2. /\ SubSeq(s, 1, n) \in Seq(S) /\ Len(SubSeq(s, 1, n)) = n
      /\ \A i \in 1..n : SubSeq(s, 1, n)[i] = s[i]
  <2>1. \A i \in 1..n : s[i] \in S
    BY <1>1
  <2>2. /\ SubSeq(s, 1, n) \in Seq(S)
        /\ Len(SubSeq(s, 1, n)) = IF 1 <= n THEN n - 1 + 1 ELSE 0
        /\ \A i \in 1..(n - 1 + 1) : SubSeq(s, 1, n)[i] = s[1 + i - 1]
    BY <1>1, <2>1, SubSeqProperties
  <2>3. \A i \in 1..n : i \in 1..(n - 1 + 1) /\ 1 + i - 1 = i
    BY <1>1
  <2>4. QED  BY <1>1, <2>2, <2>3
<1>3. /\ SubSeq(s, n + 1, Len(s)) \in Seq(S) /\ Len(SubSeq(s, n + 1, Len(s))) = Len(s) - n
      /\ \A i \in 1..(Len(s) - n) : SubSeq(s, n + 1, Len(s))[i] = s[n + i]
  <2>1. \A i \in (n + 1)..Len(s) : s[i] \in S
    BY <1>1
  <2>2. /\ SubSeq(s, n + 1, Len(s)) \in Seq(S)
        /\ Len(SubSeq(s, n + 1, Len(s))) = IF n + 1 <= Len(s) THEN Len(s) - (n + 1) + 1 ELSE 0
        /\ \A i \in 1..(Len(s) - (n + 1) + 1) : SubSeq(s, n + 1, Len(s))[i] = s[n + 1 + i - 1]
    BY <1>1, <2>1, SubSeqProperties
  <2>3. \A i \in 1..(Len(s) - n) : i \in 1..(Len(s) - (n + 1) + 1) /\ n + 1 + i - 1 = n + i
    BY <1>1
  <2>4. QED  BY <1>1, <2>2, <2>3
<1>4. QED  BY <1>2, <1>3

\* However it is cut in pieces, what has come is the beginning of the answer, and
\* the rest is on its way.
Received(g, w, v) ==
    /\ Len(g) + Len(w) <= Len(Answer(v))
    /\ \A i \in DOMAIN g : g[i] = Answer(v)[i]
    /\ \A i \in DOMAIN w : w[i] = Answer(v)[Len(g) + i]

LEMMA ReceiveMore ==
    ASSUME NEW v \in Verdicts, NEW g \in Seq(Units), NEW w \in Seq(Units), Received(g, w, v),
           NEW n \in 0..Len(w)
    PROVE  /\ g \o SubSeq(w, 1, n) \in Seq(Units) /\ SubSeq(w, n + 1, Len(w)) \in Seq(Units)
           /\ Received(g \o SubSeq(w, 1, n), SubSeq(w, n + 1, Len(w)), v)
<1> DEFINE p == SubSeq(w, 1, n)
           r == SubSeq(w, n + 1, Len(w))
           h == g \o p
<1>1. /\ Len(g) \in Nat /\ Len(w) \in Nat /\ DOMAIN g = 1..Len(g) /\ DOMAIN w = 1..Len(w)
      /\ Len(Answer(v)) \in Nat
  BY Answers
<1>2. /\ p \in Seq(Units) /\ Len(p) = n /\ \A i \in 1..n : p[i] = w[i]
      /\ r \in Seq(Units) /\ Len(r) = Len(w) - n /\ \A i \in 1..(Len(w) - n) : r[i] = w[n + i]
  BY Cut
<1> HIDE DEF p, r
<1>3. /\ h \in Seq(Units) /\ Len(h) = Len(g) + n
      /\ \A i \in 1..(Len(g) + n) : h[i] = IF i <= Len(g) THEN g[i] ELSE p[i - Len(g)]
  BY <1>2, ConcatProperties
<1> HIDE DEF h
<1>4. DOMAIN h = 1..(Len(g) + n) /\ DOMAIN r = 1..(Len(w) - n)
  BY <1>2, <1>3
<1>5. \A i \in DOMAIN h : h[i] = Answer(v)[i]
  <2>1. ASSUME NEW i \in 1..(Len(g) + n) PROVE h[i] = Answer(v)[i]
    <3>1. CASE i <= Len(g)
      BY <1>1, <1>3, <3>1 DEF Received
    <3>2. CASE i > Len(g)
      <4>1. i - Len(g) \in 1..n /\ i - Len(g) \in DOMAIN w /\ Len(g) + (i - Len(g)) = i
        BY <1>1, <3>2
      <4>2. h[i] = w[i - Len(g)]
        BY <1>1, <1>2, <1>3, <3>2, <4>1
      <4>3. w[i - Len(g)] = Answer(v)[Len(g) + (i - Len(g))]
        BY <4>1 DEF Received
      <4>4. QED  BY <4>1, <4>2, <4>3
    <3>3. QED  BY <1>1, <3>1, <3>2
  <2>2. QED  BY <1>4, <2>1
<1>6. \A i \in DOMAIN r : r[i] = Answer(v)[Len(h) + i]
  <2>1. ASSUME NEW i \in 1..(Len(w) - n) PROVE r[i] = Answer(v)[Len(h) + i]
    <3>1. n + i \in DOMAIN w /\ Len(g) + (n + i) = Len(h) + i
      BY <1>1, <1>3
    <3>2. w[n + i] = Answer(v)[Len(g) + (n + i)]
      BY <3>1 DEF Received
    <3>3. QED  BY <1>2, <3>1, <3>2
  <2>2. QED  BY <1>4, <2>1
<1>7. Len(h) + Len(r) <= Len(Answer(v))
  BY <1>1, <1>2, <1>3 DEF Received
<1>8. h \in Seq(Units) /\ r \in Seq(Units) /\ Received(h, r, v)
  BY <1>2, <1>3, <1>5, <1>6, <1>7 DEF Received
<1>9. QED  BY <1>8 DEF h, p, r

\* Two loops that look at lengths only are enough: an answer is taken when it is
\* all there.
LEMMA Complete ==
    ASSUME NEW v \in Verdicts, NEW g \in Seq(Units), NEW w \in Seq(Units), Received(g, w, v),
           Len(g) >= datalen, g[3] = "success"
    PROVE  v = "success" /\ g = Answer("success")
<1>1. /\ Len(g) \in Nat /\ Len(w) \in Nat /\ DOMAIN g = 1..Len(g) /\ datalen = 5
      /\ Answer(v) \in Seq(Units) /\ Len(Answer(v)) \in 0..datalen
  BY Answers DEF datalen, Answer
<1>2. Len(g) = Len(Answer(v)) /\ Len(g) = 5
  BY <1>1, SMTT(30) DEF Received
<1>3. v = "success"
  <2>1. 3 \in DOMAIN g /\ Answer(v)[3] = v
    <3>1. Len(Answer(v)) >= datalen
      BY <1>1, <1>2
    <3>2. Answer(v)[3] = v
      BY <3>1, Answers
    <3>3. QED  BY <1>1, <1>2, <3>2
  <2>2. g[3] = Answer(v)[3]
    BY <2>1 DEF Received
  <2>3. QED  BY <2>1, <2>2
<1>4. g = Answer(v)
  BY <1>1, <1>2, SeqEqual DEF Received
<1>5. QED  BY <1>3, <1>4

\* What the sender has of the answer.
Answered ==
    IF server.verdict = "none" THEN got = <<>> /\ wire = <<>> ELSE Received(got, wire, server.verdict)

LEMMA SenderParts ==
    SenderInv <=> /\ stage # "connect" => rpc \in {"send"} \cup Ended
                  /\ rpc = "sent" => stage = "answered"
                  /\ stage = "connect" => server.verdict = "none"
                  /\ Answered
                  /\ stage = "answered" => \/ Data = {}
                                           \/ server.verdict = "success" /\ got = Answer("success")
BY DEF SenderInv, Answered, Received

LEMMA ReceiveKeeps ==
    ASSUME SenderTypeOK, Answered, Receive
    PROVE  /\ SenderTypeOK' /\ Answered' /\ UNCHANGED server
           /\ stage \in {"header", "body"} /\ stage' # "connect"
           /\ stage' = "answered" => server'.verdict = "success" /\ got' = Answer("success")
<1>1. stage \in {"header", "body"} /\ UNCHANGED server
  BY DEF Receive, Recv, RecvClosed, RecvTimeout, Waiting
<1>2. CASE Recv
  <2>1. PICK n \in 1..Len(wire) :
            got' = got \o SubSeq(wire, 1, n) /\ wire' = SubSeq(wire, n + 1, Len(wire))
    BY <1>2 DEF Recv
  <2>2. wire \in Seq(Units) /\ got \in Seq(Units) /\ server.verdict \in Verdicts \cup {"none"} /\ Len(wire) \in Nat
    BY DEF SenderTypeOK
  <2>3. wire # <<>> /\ n \in 0..Len(wire)
    BY <2>2
  <2>4. server.verdict # "none" /\ server.verdict \in Verdicts /\ Received(got, wire, server.verdict)
    BY <2>2, <2>3 DEF Answered
  <2>5. got' \in Seq(Units) /\ wire' \in Seq(Units) /\ Received(got', wire', server.verdict)
    BY <2>1, <2>2, <2>3, <2>4, ReceiveMore
  <2>6. Answered'
    BY <1>1, <2>4, <2>5 DEF Answered
  <2>7. stage' = Continue(got')
    BY <1>2 DEF Recv
  <2>8. stage' \in {"header", "body", "answered", "thrown", "crashed", "spinning"}
    BY <2>7 DEF Continue
  <2>9. ASSUME stage' = "answered" PROVE server.verdict = "success" /\ got' = Answer("success")
    <3>1. Len(got') >= datalen /\ got'[3] = "success"
      BY <2>7, <2>9 DEF Continue, Enough
    <3>2. QED  BY <2>4, <2>5, <3>1, Complete
  <2>10. SenderTypeOK'
    BY <1>1, <2>5, <2>8 DEF SenderTypeOK, Stages
  <2>11. QED  BY <1>1, <2>6, <2>8, <2>9, <2>10
<1>3. CASE RecvClosed \/ RecvTimeout
  <2>1. stage' \in {"spinning", "thrown"} /\ UNCHANGED <<wire, got, server>>
    BY <1>3 DEF RecvClosed, RecvTimeout
  <2>2. QED  BY <1>1, <2>1 DEF SenderTypeOK, Stages, Answered
<1>4. QED  BY <1>2, <1>3 DEF Receive

LEMMA ServerKeeps ==
    ASSUME SenderTypeOK, Answered, Server
    PROVE  /\ SenderTypeOK' /\ Answered' /\ UNCHANGED <<stage, got>>
           /\ stage \in {"header", "body"}
<1>1. stage \in {"header", "body"} /\ UNCHANGED <<stage, got>>
  BY DEF Server, ServerAnswers, ServerCloses, Waiting
<1>2. CASE ServerAnswers
  <2>1. PICK v \in Verdicts : server' = [server EXCEPT !.verdict = v] /\ wire' = Answer(v)
    BY <1>2 DEF ServerAnswers
  <2>2. got = <<>> /\ server' = [link |-> "up", verdict |-> v]
    BY <1>2, <2>1 DEF ServerAnswers, Answered
  <2>3. v # "none" /\ server'.verdict = v
    BY <2>2 DEF Verdicts
  <2>4. Answer(v) \in Seq(Units) /\ Len(Answer(v)) \in Nat
    BY Answers
  <2>5. Received(<<>>, Answer(v), v)
    <3>1. Len(<<>>) = 0 /\ DOMAIN <<>> = {} /\ \A i \in DOMAIN Answer(v) : 0 + i = i
      BY <2>4
    <3>2. QED  BY <2>4, <3>1 DEF Received
  <2>6. Answered'
    BY <1>1, <2>1, <2>2, <2>3, <2>5 DEF Answered
  <2>7. SenderTypeOK'
    BY <1>1, <2>1, <2>2, <2>4 DEF SenderTypeOK, Stages
  <2>8. QED  BY <1>1, <2>6, <2>7
<1>3. CASE ServerCloses
  <2>1. PICK n \in 0..Len(wire) : wire' = SubSeq(wire, 1, n)
    BY <1>3 DEF ServerCloses
  <2>2. wire \in Seq(Units) /\ Len(wire) \in Nat
    BY DEF SenderTypeOK
  <2>3. wire' \in Seq(Units) /\ Len(wire') = n /\ \A i \in 1..n : wire'[i] = wire[i]
    BY <2>1, <2>2, Cut
  <2>4. server' \in [link : {"up", "closed"}, verdict : Verdicts \cup {"none"}]
        /\ server'.verdict = server.verdict
    BY <1>3 DEF ServerCloses, SenderTypeOK
  <2>5. DOMAIN wire' = 1..n /\ DOMAIN wire = 1..Len(wire)
    BY <2>2, <2>3
  <2>6. Answered'
    <3>1. CASE server.verdict = "none"
      <4>1. wire = <<>> /\ n = 0
        BY <2>1, <3>1 DEF Answered
      <4>2. wire' = <<>>
        BY <2>3, <4>1
      <4>3. QED  BY <1>1, <2>4, <3>1, <4>2 DEF Answered
    <3>2. CASE server.verdict # "none"
      <4>1. Received(got, wire, server.verdict) /\ server.verdict \in Verdicts /\ got \in Seq(Units)
        BY <3>2 DEF Answered, SenderTypeOK
      <4>2. Len(Answer(server.verdict)) \in Nat /\ Len(got) \in Nat
        BY <4>1, Answers
      <4>3. Received(got, wire', server.verdict)
        BY <2>2, <2>3, <2>5, <4>1, <4>2 DEF Received
      <4>4. QED  BY <1>1, <2>4, <3>2, <4>3 DEF Answered
    <3>3. QED  BY <3>1, <3>2
  <2>7. SenderTypeOK'
    BY <1>1, <2>3, <2>4 DEF SenderTypeOK, Stages
  <2>8. QED  BY <1>1, <2>6, <2>7
<1>4. QED  BY <1>2, <1>3 DEF Server

LEMMA SendKeeps ==
    ASSUME RunInv, Send
    PROVE  RunInv'
<1>1. /\ rpc = "send" /\ PollInv /\ SenderTypeOK /\ Answered
      /\ stage = "connect" => server.verdict = "none"
      /\ UNCHANGED <<at, requests, replies, link, login, block, counts, told>>
  BY SenderParts DEF Send, RunInv
<1>2. \/ rpc' = "sent" /\ stage' = "answered"
      \/ rpc' \in {"failed", "crashed", "hung", "send"}
  BY DEF Send
<1>3. PollInv'
  <2>1. PollType'
    BY <1>1, <1>2 DEF PollInv, PollType, Ended
  <2>2. PlaceInv' /\ RequestInv' /\ ReplyInv'
    BY <1>1, <1>2 DEF PollInv, PlaceInv, RequestInv, ReplyInv, Waits, Commands, Ended
  <2>3. CountInv'
    BY <1>1, <1>2 DEF PollInv, CountInv, dev, Commands
  <2>4. QED  BY <2>1, <2>2, <2>3 DEF PollInv
<1>4. Data' = Data
  BY <1>1 DEF Data
<1>5. CASE SendData(Data)
  <2>1. /\ stage = "connect" /\ UNCHANGED <<wire, got, server>>
        /\ stage' \in {"answered", "header", "thrown"} /\ (stage' = "answered" => Data = {})
    BY <1>5 DEF SendData
  <2>2. SenderTypeOK' /\ Answered'
    BY <1>1, <2>1 DEF SenderTypeOK, Stages, Answered
  <2>3. SenderInv'
    BY <1>2, <1>4, <2>1, <2>2 DEF SenderInv, Answered, Received, Ended
  <2>4. QED  BY <1>3, <2>2, <2>3 DEF RunInv
<1>6. CASE Receive
  <2>1. /\ SenderTypeOK' /\ Answered' /\ stage' # "connect"
        /\ stage' = "answered" => server'.verdict = "success" /\ got' = Answer("success")
    BY <1>1, <1>6, ReceiveKeeps
  <2>2. SenderInv'
    BY <1>2, <2>1 DEF SenderInv, Answered, Received, Ended
  <2>3. QED  BY <1>3, <2>1, <2>2 DEF RunInv
<1>7. QED  BY <1>5, <1>6 DEF Send

-----------------------------------------------------------------------------
LEMMA NextInv == RunInv /\ [RouterNext]_routerVars => RunInv'
<1> SUFFICES ASSUME RunInv, [RouterNext]_routerVars PROVE RunInv'
  OBVIOUS
<1>1. PollInv /\ SenderTypeOK /\ SenderInv
  BY DEF RunInv
<1>2. ASSUME UNCHANGED senderVars, UNCHANGED <<at, rpc>>, PollInv' PROVE RunInv'
  BY <1>1, <1>2 DEF RunInv, SenderInv, SenderTypeOK, senderVars, Data
<1>3. CASE (Router \/ RouterDown) /\ UNCHANGED senderVars
  BY <1>1, <1>2, <1>3, RouterKeeps, RouterDownKeeps DEF Router, RouterDown
<1>4. CASE Poll /\ UNCHANGED senderVars
  <2>1. PollInv'
    BY <1>1, <1>4, ConnectKeeps, LoginStepKeeps, ReadBlockKeeps, ReadClosedKeeps DEF Poll
  <2>2. rpc \notin {"send"} \cup Ended
    BY <1>4 DEF Poll, Connect, LoginStep, ReadBlock, ReadClosed, Commands, Ended
  <2>3. rpc' # "sent"
    <3>1. CASE Connect
      BY <3>1 DEF Connect
    <3>2. CASE LoginStep
      BY <2>2, <3>2 DEF LoginStep, Ended
    <3>3. CASE ReadBlock
      BY <2>2, <3>3 DEF ReadBlock, AfterBlock, Ended
    <3>4. CASE ReadClosed
      BY <3>4 DEF ReadClosed
    <3>5. QED  BY <1>4, <3>1, <3>2, <3>3, <3>4 DEF Poll
  <2>4. /\ stage = "connect" /\ server.verdict = "none" /\ UNCHANGED <<stage, wire, got, server>>
        /\ got = <<>> /\ wire = <<>>
    BY <1>1, <1>4, <2>2 DEF SenderInv, senderVars
  <2>5. SenderInv' /\ SenderTypeOK'
    BY <1>1, <2>3, <2>4 DEF SenderInv, SenderTypeOK
  <2>6. QED  BY <2>1, <2>5 DEF RunInv
<1>5. CASE Server /\ UNCHANGED pollVars
  <2>1. UNCHANGED <<at, rpc, requests, replies, link, login, block, counts, told>>
    BY <1>5 DEF pollVars
  <2>2. PollInv'
    BY <1>1, <2>1 DEF PollInv, PollType, PlaceInv, RequestInv, ReplyInv, CountInv, dev
  <2>3. SenderTypeOK' /\ Answered' /\ UNCHANGED <<stage, got>> /\ stage \in {"header", "body"}
    BY <1>1, <1>5, ServerKeeps, SenderParts
  <2>4. SenderInv'
    <3>1. Data' = Data
      BY <2>1 DEF Data
    <3>2. rpc \in {"send"} \cup Ended /\ rpc # "sent"
      BY <1>1, <2>3 DEF SenderInv
    <3>3. QED  BY <2>1, <2>3, <3>1, <3>2 DEF SenderInv, Answered, Received, Ended
  <2>5. QED  BY <2>2, <2>3, <2>4 DEF RunInv
<1>6. CASE UNCHANGED routerVars
  <2>1. UNCHANGED <<at, rpc, requests, replies, link, login, block, counts, told>> /\ UNCHANGED senderVars
    BY <1>6 DEF routerVars, pollVars
  <2>2. PollInv'
    BY <1>1, <2>1 DEF PollInv, PollType, PlaceInv, RequestInv, ReplyInv, CountInv, dev
  <2>3. QED  BY <1>2, <2>1, <2>2
<1>7. QED  BY <1>3, <1>4, <1>5, <1>6, SendKeeps DEF RouterNext, Poller, Finished

\* The inductive invariant of the poller, the router and the sender.
THEOREM PollInvariant == RouterSpec => []RunInv
BY InitInv, NextInv, PTL DEF RouterSpec

\* Every variable keeps its type, for any number of routers and entries.
THEOREM RouterTypeCorrect == RouterSpec => []RouterTypeOK
<1>1. RunInv => RouterTypeOK
  BY TypeParts DEF RunInv, PollInv
<1>2. QED  BY <1>1, PollInvariant, PTL

\* When a command goes out nothing of the reply before it is left.
THEOREM OneReply == RouterSpec => []OneReplyAtATime
<1>1. RunInv => OneReplyAtATime
  <2> SUFFICES ASSUME RunInv PROVE Len(requests) + HowMany(replies, Reply("done")) <= 1
    BY DEF OneReplyAtATime
  <2>1. /\ replies \in Seq(Replies) /\ Len(requests) \in Nat /\ Len(requests) <= 1
        /\ requests = <<>> => Len(requests) = 0
    BY DEF RunInv, PollInv, PollType
  <2>2. CASE requests # <<>>
    <3>1. replies = <<>> /\ DOMAIN replies = {}
      BY <2>2 DEF RunInv, PollInv, RequestInv
    <3>2. HowMany(replies, Reply("done")) = 0
      BY <2>1, <3>1, HowManyBound
    <3>3. QED  BY <2>1, <3>2
  <2>3. CASE requests = <<>>
    <3> DEFINE D == {i \in DOMAIN replies : replies[i] = Reply("done")}
    <3>1. D \in SUBSET {Len(replies)}
      BY DEF RunInv, PollInv, ReplyInv, Reply
    <3> HIDE DEF D
    <3>2. Cardinality(D) <= 1 /\ IsFiniteSet(D)
      <4>1. IsFiniteSet({Len(replies)}) /\ Cardinality({Len(replies)}) = 1
        BY FS_Singleton
      <4>2. QED  BY <3>1, <4>1, FS_Subset
    <3>3. Cardinality(D) \in Nat
      BY <3>2, FS_CardinalityType
    <3>4. Len(requests) + Cardinality(D) <= 1
      BY <2>1, <2>3, <3>2, <3>3
    <3>5. QED  BY <3>4 DEF HowMany, D
  <2>4. QED  BY <2>2, <2>3
<1>2. QED  BY <1>1, PollInvariant, PTL

\* What is sent to Zabbix is what every router has said.
THEOREM CountsTrue == RouterSpec => []SentIsTold
<1>1. RunInv => SentIsTold
  <2> SUFFICES ASSUME RunInv, rpc = "sent" PROVE at = Routers /\ counts = told
    BY DEF SentIsTold
  <2>1. at = Routers /\ Routers \in Nat
    BY RouterAssumption DEF RunInv, PollInv, PlaceInv
  <2>2. /\ counts \in [1..Routers -> [Counters -> 0..MaxEntries]]
        /\ told \in [1..Routers -> [Counters -> 0..MaxEntries]]
        /\ \A d \in 1..Routers : d # dev => counts[d] = told[d]
    BY DEF RunInv, PollInv, PollType, CountInv
  <2>3. \A d \in 1..Routers : counts[d] = told[d]
    BY <2>1, <2>2 DEF dev
  <2>4. QED  BY <2>1, <2>2, <2>3
<1>2. QED  BY <1>1, PollInvariant, PTL

\* A run counts as sent only on the server's whole answer.
THEOREM AnswerWhole == RouterSpec => []AnswerIsWhole
<1>1. RunInv => AnswerIsWhole
  BY DEF RunInv, SenderInv, AnswerIsWhole
<1>2. QED  BY <1>1, PollInvariant, PTL
=============================================================================
