-------------------------- MODULE MailCache_proofs --------------------------
(***************************************************************************)
(* Proofs about MailCache, for any number of processes, tries and kills.   *)
(***************************************************************************)
EXTENDS MailCache, TLAPS

SomeKilled == \E q \in Procs : pc[q] = "killed"

Complete == {"whole", "tailed"}
Good(t) == t = "whole" \/ (t = "tailed" /\ SomeKilled)

\* A process that works on its locked file, and one that has opened the cached message.
Reads(p) == held[p] = None /\ msg[p] # None /\ pc[p] \in {"openatt", "generate", "flush", "rename", "send"}

-----------------------------------------------------------------------------
(* The inductive invariant.                                                *)

\* What the steps of one process say about its variables.
LocalInv ==
    \A p \in Procs :
        /\ held[p] # None =>
               /\ msg[p] = held[p] /\ cst[p] = "notfound"
               /\ pc[p] \in {"attach", "generate", "flush", "rename", "send", "clean", "unlink", "plain"}
        /\ pc[p] = "attach" => held[p] # None
        /\ pc[p] \in {"opentmp", "lock", "attach", "wait", "waitexpire", "rename"} => cst[p] = "notfound"
        /\ pc[p] \in {"open", "openatt"} => cst[p] \in {"found", "notfound"} /\ held[p] = None
        /\ pc[p] \in {"lock", "openatt", "generate", "flush", "rename", "send"} =>
               \/ msg[p] # None
               \/ cst[p] = "unaccessible" /\ pc[p] \in {"generate", "flush", "send"}
        /\ pc[p] \in {"generate", "flush"} => cst[p] \in {"notfound", "unaccessible"}
        /\ cst[p] = "unaccessible" => msg[p] = None

\* flock: a file is locked by one process.
LockInv == \A p, q \in Procs : held[p] # None /\ held[p] = held[q] => p = q

\* The text of a locked file follows the steps of its holder.
TextInv ==
    \A p \in Procs : held[p] # None =>
        /\ pc[p] = "flush" => text[held[p]] \in {"partial", "overwritten"}
        /\ pc[p] \in {"rename", "send"} => text[held[p]] \in Complete

\* The file that a process may still create is not there yet.
FreshInv ==
    \A p \in Procs : pc[p] \in {"stat", "expire", "opentmp"} =>
        /\ text[p] = "empty" /\ msg[p] = None
        /\ path["tmp"] # p /\ path["msg"] # p
        /\ \A q \in Procs : msg[q] # p

\* As long as every rename and every lock has met the process's own file: a file on its
\* way is neither the cached message nor open for reading, and what is, is complete.
Apart ==
    /\ path["tmp"] # None => path["tmp"] # path["msg"]
    /\ \A q \in Procs : Reads(q) => msg[q] # path["tmp"]
    /\ \A p \in Procs : held[p] # None /\ pc[p] \in {"attach", "generate", "flush", "rename"} =>
           /\ held[p] # path["msg"]
           /\ \A q \in Procs : Reads(q) => msg[q] # held[p]

\* Without a kill a file is written from empty.
FromEmpty ==
    SomeKilled \/
    /\ path["tmp"] # None =>
           \/ text[path["tmp"]] = "empty"
           \/ \E p \in Procs : held[p] = path["tmp"] /\ pc[p] \in {"flush", "rename"}
    /\ \A p \in Procs : held[p] # None =>
           /\ pc[p] \in {"attach", "generate"} => text[held[p]] = "empty"
           /\ pc[p] = "flush" => text[held[p]] = "partial"

Published ==
    /\ path["msg"] # None => Good(text[path["msg"]])
    /\ \A q \in Procs : Reads(q) => Good(text[msg[q]])
    /\ \A p \in Procs : held[p] # None /\ pc[p] \in {"rename", "send"} => Good(text[held[p]])

OrderInv == displaced \/ (Apart /\ FromEmpty /\ Published)

\* Until a clean-up removes it, the file of the images is there when it is needed.
ImagesInv ==
    attRemoved \/
    /\ path["msg"] # None => path["att"] # None
    /\ \A p \in Procs :
           /\ pc[p] = "openatt" => path["att"] # None
           /\ pc[p] \in {"generate", "flush", "rename", "send"} /\ cst[p] # "unaccessible" =>
                  path["att"] # None /\ att[p]
           /\ pc[p] # "crashed"

MailInv ==
    /\ MailTypeOK /\ LocalInv /\ LockInv /\ TextInv /\ FreshInv
    /\ OrderInv /\ ImagesInv /\ TornNeedsDisplacement

-----------------------------------------------------------------------------
(* Each part, step by step.                                                *)

Acts(p) == Process(p) \/ Kill(p)

LEMMA EndType ==
    ASSUME MailTypeOK, NEW p \in Procs, NEW how \in Ended, End(p, how)
    PROVE  /\ pc' \in [Procs -> Running \cup Ended]
           /\ cst' \in [Procs -> {"unknown", "found", "notfound", "unaccessible"}]
           /\ msg' \in [Procs -> Procs \cup {None}]
           /\ att' \in [Procs -> BOOLEAN]
           /\ held' \in [Procs -> Procs \cup {None}]
           /\ tries' \in [Procs -> 0..(MaxTries + 1)]
           /\ todo' \in [Procs -> SUBSET Names]
           /\ old' \in [Procs -> Names \cup {None}]
<1>1. pc' \in [Procs -> Running \cup Ended]
  BY DEF MailTypeOK, End, Goto
<1>2. tries' \in [Procs -> 0..(MaxTries + 1)]
  BY MailAssumption DEF MailTypeOK, End
<1>3. QED
  BY <1>1, <1>2 DEF MailTypeOK, End

LEMMA TypeStep == ASSUME MailTypeOK, LocalInv, NEW p \in Procs, Acts(p) PROVE MailTypeOK'
<1> USE MailAssumption DEF MailTypeOK, files, locals, mailHistory, Goto, Names, Texts, Unfinished,
                           Running, Ended
<1>1. CASE Stat(p)
  BY <1>1 DEF Stat
<1>2. CASE Expire(p)
  BY <1>2 DEF Expire, Expired
<1>3. CASE OpenTmp(p)
  BY <1>3 DEF OpenTmp, Opened
<1>4. CASE GetLock(p)
  BY <1>4 DEF GetLock
<1>5. CASE Refused(p)
  BY <1>5 DEF Refused
<1>6. CASE Attach(p)
  BY <1>6 DEF Attach
<1>7. CASE WaitStat(p)
  BY <1>7 DEF WaitStat, NextTry, GiveUp
<1>8. CASE WaitExpire(p)
  BY <1>8 DEF WaitExpire, NextTry, GiveUp, Expired
<1>9. CASE OpenMsg(p)
  BY <1>9 DEF OpenMsg
<1>10. CASE OpenAtt(p)
  BY <1>10 DEF OpenAtt
<1>11. CASE GenerateFails(p)
  BY <1>11 DEF GenerateFails
<1>12. CASE Generate(p)
  <2>1. CASE End(p, "crashed") /\ UNCHANGED text
    BY <1>12, <2>1, EndType DEF Generate
  <2>2. CASE Goto(p, "flush") /\ UNCHANGED locals
    <3>1. msg[p] # None /\ Writes(p) => text' \in [Procs -> Texts]
      BY <1>12, <2>2 DEF Generate
    <3>2. Writes(p) => msg[p] # None
      BY DEF Writes, LocalInv
    <3>3. text' \in [Procs -> Texts]
      BY <1>12, <2>2, <3>1, <3>2 DEF Generate, End
    <3>4. QED
      BY <1>12, <2>2, <3>3 DEF Generate
  <2>3. QED
    BY <1>12, <2>1, <2>2 DEF Generate
<1>13. CASE Flush(p)
  BY <1>13 DEF Flush
<1>14. CASE Rename(p)
  <2>1. path' \in [Names -> Procs \cup {None}]
    BY <1>14 DEF Rename
  <2>2. displaced' \in BOOLEAN
    BY <1>14 DEF Rename
  <2>3. QED
    BY <1>14, <2>1, <2>2 DEF Rename
<1>15. CASE Send(p)
  <2>1. TextOf(p) \in Texts
    BY <1>15 DEF Send, TextOf, LocalInv
  <2>2. sent' \in [Procs -> SUBSET (Texts \cup {"plain"})]
    BY <1>15, <2>1 DEF Send
  <2>3. CASE End(p, "crashed") \/ End(p, "done")
    BY <1>15, <2>2, <2>3, EndType DEF Send
  <2>4. CASE Goto(p, "clean")
    <3>1. todo' \in [Procs -> SUBSET Names]
      BY <1>15, <2>4 DEF Send, End
    <3>2. QED
      BY <1>15, <2>2, <2>4, <3>1 DEF Send, End
  <2>5. QED
    BY <1>15, <2>3, <2>4 DEF Send
<1>16. CASE SendFails(p)
  BY <1>16 DEF SendFails
<1>17. CASE CleanStat(p)
  BY <1>17 DEF CleanStat
<1>18. CASE CleanRemove(p)
  BY <1>18 DEF CleanRemove
<1>19. CASE CleanEnds(p)
  BY <1>19 DEF CleanEnds, End
<1>20. CASE SendPlain(p)
  BY <1>20 DEF SendPlain, End
<1>21. CASE PlainFails(p)
  BY <1>21 DEF PlainFails, End
<1>22. CASE Kill(p)
  BY <1>22 DEF Kill, End
<1>23. CASE CacheFails(p)
  BY <1>23 DEF CacheFails
<1>24. QED
  BY <1>1, <1>2, <1>3, <1>4, <1>5, <1>6, <1>7, <1>8, <1>9, <1>10, <1>11, <1>12, <1>13, <1>14, <1>15,
     <1>16, <1>17, <1>18, <1>19, <1>20, <1>21, <1>22, <1>23 DEF Acts, Process, TryCache

LEMMA LocalStep ==
    ASSUME MailTypeOK, LocalInv, FreshInv, NEW p \in Procs, Acts(p)
    PROVE  LocalInv'
<1> USE MailAssumption DEF MailTypeOK, LocalInv, FreshInv, files, locals, mailHistory, Goto, Names, Running
<1>1. CASE Stat(p)
  BY <1>1 DEF Stat
<1>2. CASE Expire(p)
  BY <1>2 DEF Expire, Expired
<1>3. CASE OpenTmp(p)
  BY <1>3 DEF OpenTmp, Opened
<1>4. CASE GetLock(p)
  BY <1>4 DEF GetLock, Free
<1>5. CASE Refused(p)
  BY <1>5 DEF Refused, Free
<1>6. CASE Attach(p)
  BY <1>6 DEF Attach
<1>7. CASE WaitStat(p)
  BY <1>7 DEF WaitStat, NextTry
<1>8. CASE WaitExpire(p)
  BY <1>8 DEF WaitExpire, NextTry, Expired
<1>9. CASE OpenMsg(p)
  BY <1>9 DEF OpenMsg
<1>10. CASE OpenAtt(p)
  BY <1>10 DEF OpenAtt
<1>11. CASE GenerateFails(p)
  BY <1>11 DEF GenerateFails
<1>12. CASE Generate(p)
  BY <1>12 DEF Generate, End, Writes
<1>13. CASE Flush(p)
  BY <1>13 DEF Flush, Writes
<1>14. CASE Rename(p)
  BY <1>14 DEF Rename
<1>15. CASE Send(p)
  BY <1>15 DEF Send, End, TextOf
<1>16. CASE SendFails(p)
  BY <1>16 DEF SendFails
<1>17. CASE CleanStat(p)
  BY <1>17 DEF CleanStat
<1>18. CASE CleanRemove(p)
  BY <1>18 DEF CleanRemove
<1>19. CASE CleanEnds(p)
  BY <1>19 DEF CleanEnds, End
<1>20. CASE SendPlain(p)
  BY <1>20 DEF SendPlain, End
<1>21. CASE PlainFails(p)
  BY <1>21 DEF PlainFails, End
<1>22. CASE Kill(p)
  BY <1>22 DEF Kill, End
<1>23. CASE CacheFails(p)
  BY <1>23 DEF CacheFails
<1>24. QED
  BY <1>1, <1>2, <1>3, <1>4, <1>5, <1>6, <1>7, <1>8, <1>9, <1>10, <1>11, <1>12, <1>13, <1>14, <1>15,
     <1>16, <1>17, <1>18, <1>19, <1>20, <1>21, <1>22, <1>23 DEF Acts, Process, TryCache

LEMMA LockStep ==
    ASSUME MailTypeOK, LocalInv, LockInv, NEW p \in Procs, Acts(p)
    PROVE  LockInv'
<1> USE MailAssumption DEF MailTypeOK, LocalInv, LockInv, files, locals, mailHistory, Goto
<1>1. CASE Stat(p)
  BY <1>1 DEF Stat
<1>2. CASE Expire(p)
  BY <1>2 DEF Expire, Expired
<1>3. CASE OpenTmp(p)
  BY <1>3 DEF OpenTmp, Opened
<1>4. CASE GetLock(p)
  BY <1>4 DEF GetLock, Free
<1>5. CASE Refused(p)
  BY <1>5 DEF Refused, Free
<1>6. CASE Attach(p)
  BY <1>6 DEF Attach
<1>7. CASE WaitStat(p)
  BY <1>7 DEF WaitStat, NextTry
<1>8. CASE WaitExpire(p)
  BY <1>8 DEF WaitExpire, NextTry, Expired
<1>9. CASE OpenMsg(p)
  BY <1>9 DEF OpenMsg
<1>10. CASE OpenAtt(p)
  BY <1>10 DEF OpenAtt
<1>11. CASE GenerateFails(p)
  BY <1>11 DEF GenerateFails
<1>12. CASE Generate(p)
  BY <1>12 DEF Generate, End, Writes
<1>13. CASE Flush(p)
  BY <1>13 DEF Flush, Writes
<1>14. CASE Rename(p)
  BY <1>14 DEF Rename
<1>15. CASE Send(p)
  BY <1>15 DEF Send, End, TextOf
<1>16. CASE SendFails(p)
  BY <1>16 DEF SendFails
<1>17. CASE CleanStat(p)
  BY <1>17 DEF CleanStat
<1>18. CASE CleanRemove(p)
  BY <1>18 DEF CleanRemove
<1>19. CASE CleanEnds(p)
  BY <1>19 DEF CleanEnds, End
<1>20. CASE SendPlain(p)
  BY <1>20 DEF SendPlain, End
<1>21. CASE PlainFails(p)
  BY <1>21 DEF PlainFails, End
<1>22. CASE Kill(p)
  BY <1>22 DEF Kill, End
<1>23. CASE CacheFails(p)
  BY <1>23 DEF CacheFails
<1>24. QED
  BY <1>1, <1>2, <1>3, <1>4, <1>5, <1>6, <1>7, <1>8, <1>9, <1>10, <1>11, <1>12, <1>13, <1>14, <1>15,
     <1>16, <1>17, <1>18, <1>19, <1>20, <1>21, <1>22, <1>23 DEF Acts, Process, TryCache

LEMMA TextStep ==
    ASSUME MailTypeOK, LocalInv, LockInv, TextInv, NEW p \in Procs, Acts(p)
    PROVE  TextInv'
<1> USE MailAssumption DEF MailTypeOK, LocalInv, LockInv, TextInv, Complete, files, locals, mailHistory, Goto
<1>1. CASE Stat(p)
  BY <1>1 DEF Stat
<1>2. CASE Expire(p)
  BY <1>2 DEF Expire, Expired
<1>3. CASE OpenTmp(p)
  BY <1>3 DEF OpenTmp, Opened
<1>4. CASE GetLock(p)
  BY <1>4 DEF GetLock, Free
<1>5. CASE Refused(p)
  BY <1>5 DEF Refused, Free
<1>6. CASE Attach(p)
  BY <1>6 DEF Attach
<1>7. CASE WaitStat(p)
  BY <1>7 DEF WaitStat, NextTry
<1>8. CASE WaitExpire(p)
  BY <1>8 DEF WaitExpire, NextTry, Expired
<1>9. CASE OpenMsg(p)
  BY <1>9 DEF OpenMsg
<1>10. CASE OpenAtt(p)
  BY <1>10 DEF OpenAtt
<1>11. CASE GenerateFails(p)
  BY <1>11 DEF GenerateFails
<1>12. CASE Generate(p)
  BY <1>12 DEF Generate, End, Writes
<1>13. CASE Flush(p)
  BY <1>13 DEF Flush, Writes
<1>14. CASE Rename(p)
  BY <1>14 DEF Rename
<1>15. CASE Send(p)
  BY <1>15 DEF Send, End, TextOf
<1>16. CASE SendFails(p)
  BY <1>16 DEF SendFails
<1>17. CASE CleanStat(p)
  BY <1>17 DEF CleanStat
<1>18. CASE CleanRemove(p)
  BY <1>18 DEF CleanRemove
<1>19. CASE CleanEnds(p)
  BY <1>19 DEF CleanEnds, End
<1>20. CASE SendPlain(p)
  BY <1>20 DEF SendPlain, End
<1>21. CASE PlainFails(p)
  BY <1>21 DEF PlainFails, End
<1>22. CASE Kill(p)
  BY <1>22 DEF Kill, End
<1>23. CASE CacheFails(p)
  BY <1>23 DEF CacheFails
<1>24. QED
  BY <1>1, <1>2, <1>3, <1>4, <1>5, <1>6, <1>7, <1>8, <1>9, <1>10, <1>11, <1>12, <1>13, <1>14, <1>15,
     <1>16, <1>17, <1>18, <1>19, <1>20, <1>21, <1>22, <1>23 DEF Acts, Process, TryCache

LEMMA FreshStep ==
    ASSUME MailTypeOK, LocalInv, FreshInv, NEW p \in Procs, Acts(p)
    PROVE  FreshInv'
<1> USE MailAssumption DEF MailTypeOK, LocalInv, FreshInv, files, locals, mailHistory, Goto, Names
<1>1. CASE Stat(p)
  BY <1>1 DEF Stat
<1>2. CASE Expire(p)
  BY <1>2 DEF Expire, Expired
<1>3. CASE OpenTmp(p)
  BY <1>3 DEF OpenTmp, Opened
<1>4. CASE GetLock(p)
  BY <1>4 DEF GetLock, Free
<1>5. CASE Refused(p)
  BY <1>5 DEF Refused, Free
<1>6. CASE Attach(p)
  BY <1>6 DEF Attach
<1>7. CASE WaitStat(p)
  BY <1>7 DEF WaitStat, NextTry
<1>8. CASE WaitExpire(p)
  BY <1>8 DEF WaitExpire, NextTry, Expired
<1>9. CASE OpenMsg(p)
  BY <1>9 DEF OpenMsg
<1>10. CASE OpenAtt(p)
  BY <1>10 DEF OpenAtt
<1>11. CASE GenerateFails(p)
  BY <1>11 DEF GenerateFails
<1>12. CASE Generate(p)
  BY <1>12 DEF Generate, End, Writes
<1>13. CASE Flush(p)
  BY <1>13 DEF Flush, Writes
<1>14. CASE Rename(p)
  BY <1>14 DEF Rename
<1>15. CASE Send(p)
  BY <1>15 DEF Send, End, TextOf
<1>16. CASE SendFails(p)
  BY <1>16 DEF SendFails
<1>17. CASE CleanStat(p)
  BY <1>17 DEF CleanStat
<1>18. CASE CleanRemove(p)
  BY <1>18 DEF CleanRemove
<1>19. CASE CleanEnds(p)
  BY <1>19 DEF CleanEnds, End
<1>20. CASE SendPlain(p)
  BY <1>20 DEF SendPlain, End
<1>21. CASE PlainFails(p)
  BY <1>21 DEF PlainFails, End
<1>22. CASE Kill(p)
  BY <1>22 DEF Kill, End
<1>23. CASE CacheFails(p)
  BY <1>23 DEF CacheFails
<1>24. QED
  BY <1>1, <1>2, <1>3, <1>4, <1>5, <1>6, <1>7, <1>8, <1>9, <1>10, <1>11, <1>12, <1>13, <1>14, <1>15,
     <1>16, <1>17, <1>18, <1>19, <1>20, <1>21, <1>22, <1>23 DEF Acts, Process, TryCache

LEMMA ImagesStep ==
    ASSUME MailTypeOK, LocalInv, ImagesInv, NEW p \in Procs, Acts(p)
    PROVE  ImagesInv'
<1> USE MailAssumption DEF MailTypeOK, LocalInv, ImagesInv, files, locals, mailHistory, Goto, Names
<1>1. CASE Stat(p)
  BY <1>1 DEF Stat
<1>2. CASE Expire(p)
  BY <1>2 DEF Expire, Expired
<1>3. CASE OpenTmp(p)
  BY <1>3 DEF OpenTmp, Opened
<1>4. CASE GetLock(p)
  BY <1>4 DEF GetLock, Free
<1>5. CASE Refused(p)
  BY <1>5 DEF Refused, Free
<1>6. CASE Attach(p)
  BY <1>6 DEF Attach
<1>7. CASE WaitStat(p)
  BY <1>7 DEF WaitStat, NextTry
<1>8. CASE WaitExpire(p)
  BY <1>8 DEF WaitExpire, NextTry, Expired
<1>9. CASE OpenMsg(p)
  BY <1>9 DEF OpenMsg
<1>10. CASE OpenAtt(p)
  BY <1>10 DEF OpenAtt
<1>11. CASE GenerateFails(p)
  BY <1>11 DEF GenerateFails
<1>12. CASE Generate(p)
  BY <1>12 DEF Generate, End, Writes
<1>13. CASE Flush(p)
  BY <1>13 DEF Flush, Writes
<1>14. CASE Rename(p)
  BY <1>14 DEF Rename
<1>15. CASE Send(p)
  BY <1>15 DEF Send, End, TextOf
<1>16. CASE SendFails(p)
  BY <1>16 DEF SendFails
<1>17. CASE CleanStat(p)
  BY <1>17 DEF CleanStat
<1>18. CASE CleanRemove(p)
  BY <1>18 DEF CleanRemove
<1>19. CASE CleanEnds(p)
  BY <1>19 DEF CleanEnds, End
<1>20. CASE SendPlain(p)
  BY <1>20 DEF SendPlain, End
<1>21. CASE PlainFails(p)
  BY <1>21 DEF PlainFails, End
<1>22. CASE Kill(p)
  BY <1>22 DEF Kill, End
<1>23. CASE CacheFails(p)
  BY <1>23 DEF CacheFails
<1>24. QED
  BY <1>1, <1>2, <1>3, <1>4, <1>5, <1>6, <1>7, <1>8, <1>9, <1>10, <1>11, <1>12, <1>13, <1>14, <1>15,
     <1>16, <1>17, <1>18, <1>19, <1>20, <1>21, <1>22, <1>23 DEF Acts, Process, TryCache

LEMMA ApartStep ==
    ASSUME MailTypeOK, LocalInv, LockInv, FreshInv, Apart,
           ~displaced, ~displaced', NEW p \in Procs, Acts(p)
    PROVE  Apart'
<1> USE MailAssumption DEF MailTypeOK, LocalInv, LockInv, FreshInv, Apart, Reads, files, locals, mailHistory, Goto, Names
<1>1. CASE Stat(p)
  BY <1>1 DEF Stat
<1>2. CASE Expire(p)
  BY <1>2 DEF Expire, Expired
<1>3. CASE OpenTmp(p)
  BY <1>3 DEF OpenTmp, Opened
<1>4. CASE GetLock(p)
  <2>1. /\ msg[p] # None /\ path["tmp"] = msg[p] /\ held[p] = None /\ pc[p] = "lock"
        /\ \A q \in Procs : held[q] # msg[p]
    BY <1>4 DEF GetLock, Free
  <2>2. /\ pc' = [pc EXCEPT ![p] = "attach"] /\ held' = [held EXCEPT ![p] = msg[p]]
        /\ UNCHANGED <<path, text, msg>>
    BY <1>4 DEF GetLock
  <2>3. \A q \in Procs : Reads(q)' => Reads(q)
    BY <2>1, <2>2 DEF Reads
  <2>4. path["tmp"] # path["msg"] /\ \A q \in Procs : Reads(q) => msg[q] # msg[p]
    BY <2>1 DEF Apart
  <2>5. QED
    BY <2>1, <2>2, <2>3, <2>4 DEF Apart
<1>5. CASE Refused(p)
  BY <1>5 DEF Refused, Free
<1>6. CASE Attach(p)
  BY <1>6 DEF Attach
<1>7. CASE WaitStat(p)
  BY <1>7 DEF WaitStat, NextTry
<1>8. CASE WaitExpire(p)
  BY <1>8, SMTT(30) DEF WaitExpire, NextTry, Expired
<1>9. CASE OpenMsg(p)
  BY <1>9 DEF OpenMsg
<1>10. CASE OpenAtt(p)
  BY <1>10 DEF OpenAtt
<1>11. CASE GenerateFails(p)
  BY <1>11 DEF GenerateFails
<1>12. CASE Generate(p)
  <2>1. CASE End(p, "crashed") /\ UNCHANGED text
    BY <1>12, <2>1 DEF Generate, End
  <2>2. CASE Goto(p, "flush") /\ UNCHANGED locals
    BY <1>12, <2>2 DEF Generate, Writes
  <2>3. QED
    BY <1>12, <2>1, <2>2 DEF Generate
<1>13. CASE Flush(p)
  BY <1>13 DEF Flush, Writes
<1>14. CASE Rename(p)
  <2>1. CASE Goto(p, "plain") /\ UNCHANGED path
    BY <1>14, <2>1 DEF Rename
  <2>2. CASE path["tmp"] # None
    <3>1. /\ held[p] = path["tmp"]
          /\ pc' = [pc EXCEPT ![p] = "send"]
          /\ path' = [path EXCEPT !["msg"] = path["tmp"], !["tmp"] = None]
          /\ UNCHANGED <<text, msg, held>>
      BY <1>14, <2>2 DEF Rename
    <3>2. path'["msg"] = held[p] /\ path'["tmp"] = None
      BY <3>1
    <3>3. \A q \in Procs : Reads(q)' <=> Reads(q)
      BY <3>1, <2>2 DEF Reads
    <3>4. \A r \in Procs : held'[r] # None /\ pc'[r] \in {"attach", "generate", "flush", "rename"}
              => r # p /\ held[r] # held[p] /\ pc[r] \in {"attach", "generate", "flush", "rename"}
      BY <2>2, <3>1 DEF LockInv
    <3>5. QED
      BY <3>1, <3>2, <3>3, <3>4 DEF Apart, Reads
  <2>3. QED
    BY <1>14, <2>1, <2>2 DEF Rename
<1>15. CASE Send(p)
  BY <1>15, SMTT(30) DEF Send, End, TextOf
<1>16. CASE SendFails(p)
  BY <1>16 DEF SendFails
<1>17. CASE CleanStat(p)
  BY <1>17 DEF CleanStat
<1>18. CASE CleanRemove(p)
  BY <1>18 DEF CleanRemove
<1>19. CASE CleanEnds(p)
  BY <1>19 DEF CleanEnds, End
<1>20. CASE SendPlain(p)
  BY <1>20 DEF SendPlain, End
<1>21. CASE PlainFails(p)
  BY <1>21 DEF PlainFails, End
<1>22. CASE Kill(p)
  BY <1>22 DEF Kill, End
<1>23. CASE CacheFails(p)
  BY <1>23 DEF CacheFails
<1>24. QED
  BY <1>1, <1>2, <1>3, <1>4, <1>5, <1>6, <1>7, <1>8, <1>9, <1>10, <1>11, <1>12, <1>13, <1>14, <1>15,
     <1>16, <1>17, <1>18, <1>19, <1>20, <1>21, <1>22, <1>23 DEF Acts, Process, TryCache

LEMMA FromEmptyStep ==
    ASSUME MailTypeOK, LocalInv, LockInv, FreshInv, FromEmpty,
           ~displaced, ~displaced', NEW p \in Procs, Acts(p)
    PROVE  FromEmpty'
<1> USE MailAssumption DEF MailTypeOK, LocalInv, LockInv, FreshInv, FromEmpty, SomeKilled, files, locals, mailHistory, Goto, Names
<1>1. CASE Stat(p)
  BY <1>1 DEF Stat
<1>2. CASE Expire(p)
  BY <1>2 DEF Expire, Expired
<1>3. CASE OpenTmp(p)
  BY <1>3 DEF OpenTmp, Opened
<1>4. CASE GetLock(p)
  <2>1. /\ msg[p] # None /\ path["tmp"] = msg[p] /\ held[p] = None /\ pc[p] = "lock"
        /\ \A q \in Procs : held[q] # msg[p]
    BY <1>4 DEF GetLock, Free
  <2>2. /\ pc' = [pc EXCEPT ![p] = "attach"] /\ held' = [held EXCEPT ![p] = msg[p]]
        /\ UNCHANGED <<path, text, msg>>
    BY <1>4 DEF GetLock
  <2>3. CASE SomeKilled
    BY <2>1, <2>2, <2>3 DEF SomeKilled
  <2>4. CASE ~SomeKilled
    <3>1. text[msg[p]] = "empty"
      BY <2>1, <2>4 DEF FromEmpty
    <3>2. QED
      BY <2>1, <2>2, <3>1 DEF FromEmpty
  <2>5. QED
    BY <2>3, <2>4
<1>5. CASE Refused(p)
  BY <1>5 DEF Refused, Free
<1>6. CASE Attach(p)
  BY <1>6 DEF Attach
<1>7. CASE WaitStat(p)
  BY <1>7 DEF WaitStat, NextTry
<1>8. CASE WaitExpire(p)
  BY <1>8 DEF WaitExpire, NextTry, Expired
<1>9. CASE OpenMsg(p)
  BY <1>9 DEF OpenMsg
<1>10. CASE OpenAtt(p)
  BY <1>10 DEF OpenAtt
<1>11. CASE GenerateFails(p)
  BY <1>11 DEF GenerateFails
<1>12. CASE Generate(p)
  <2>1. CASE End(p, "crashed") /\ UNCHANGED text
    BY <1>12, <2>1 DEF Generate, End
  <2>2. CASE Goto(p, "flush") /\ UNCHANGED locals
    <3>1. pc[p] = "generate" /\ pc' = [pc EXCEPT ![p] = "flush"] /\ UNCHANGED <<path, msg, held>>
      BY <1>12, <2>2 DEF Generate
    <3>2. CASE SomeKilled
      BY <3>1, <3>2 DEF SomeKilled
    <3>3. CASE ~SomeKilled /\ held[p] = None
      <4>1. text' = text
        BY <1>12, <2>2, <3>3 DEF Generate, Writes
      <4>2. QED
        BY <3>1, <3>3, <4>1
    <3>4. CASE ~SomeKilled /\ held[p] # None
      <4>1. held[p] = msg[p] /\ text[held[p]] = "empty" /\ text' = [text EXCEPT ![held[p]] = "partial"]
        <5>1. held[p] = msg[p]
          BY <3>4 DEF LocalInv
        <5>2. text[held[p]] = "empty"
          BY <3>1, <3>4 DEF FromEmpty
        <5>3. pc'[p] = "flush"
          BY <3>1
        <5>4. text' = [text EXCEPT ![msg[p]] = IF @ = "empty" THEN "partial" ELSE "overwritten"]
          BY <1>12, <3>4, <5>3 DEF Generate, Writes, End
        <5>5. QED
          BY <5>1, <5>2, <5>4
      <4>2. \A q \in Procs : q # p /\ held[q] # None => held[q] # held[p] /\ pc'[q] = pc[q]
        BY <3>1, <3>4 DEF LockInv
      <4>3. QED
        BY <3>1, <3>4, <4>1, <4>2
    <3>5. QED
      BY <3>2, <3>3, <3>4
  <2>3. QED
    BY <1>12, <2>1, <2>2 DEF Generate
<1>13. CASE Flush(p)
  BY <1>13 DEF Flush, Writes
<1>14. CASE Rename(p)
  BY <1>14 DEF Rename
<1>15. CASE Send(p)
  BY <1>15, SMTT(30) DEF Send, End, TextOf
<1>16. CASE SendFails(p)
  BY <1>16 DEF SendFails
<1>17. CASE CleanStat(p)
  BY <1>17 DEF CleanStat
<1>18. CASE CleanRemove(p)
  BY <1>18 DEF CleanRemove
<1>19. CASE CleanEnds(p)
  BY <1>19 DEF CleanEnds, End
<1>20. CASE SendPlain(p)
  BY <1>20 DEF SendPlain, End
<1>21. CASE PlainFails(p)
  BY <1>21 DEF PlainFails, End
<1>22. CASE Kill(p)
  BY <1>22 DEF Kill, End
<1>23. CASE CacheFails(p)
  BY <1>23 DEF CacheFails
<1>24. QED
  BY <1>1, <1>2, <1>3, <1>4, <1>5, <1>6, <1>7, <1>8, <1>9, <1>10, <1>11, <1>12, <1>13, <1>14, <1>15,
     <1>16, <1>17, <1>18, <1>19, <1>20, <1>21, <1>22, <1>23 DEF Acts, Process, TryCache

LEMMA PublishedStep ==
    ASSUME MailTypeOK, LocalInv, LockInv, TextInv, FreshInv, Apart, FromEmpty, Published,
           ~displaced, ~displaced', NEW p \in Procs, Acts(p)
    PROVE  Published'
<1> USE MailAssumption DEF MailTypeOK, LocalInv, LockInv, TextInv, FreshInv, Apart, FromEmpty, Published, Reads, Good, SomeKilled, Complete, files, locals, mailHistory, Goto, Names
<1>1. CASE Stat(p)
  BY <1>1 DEF Stat
<1>2. CASE Expire(p)
  BY <1>2 DEF Expire, Expired
<1>3. CASE OpenTmp(p)
  BY <1>3 DEF OpenTmp, Opened
<1>4. CASE GetLock(p)
  BY <1>4 DEF GetLock, Free
<1>5. CASE Refused(p)
  BY <1>5 DEF Refused, Free
<1>6. CASE Attach(p)
  BY <1>6 DEF Attach
<1>7. CASE WaitStat(p)
  BY <1>7 DEF WaitStat, NextTry
<1>8. CASE WaitExpire(p)
  BY <1>8 DEF WaitExpire, NextTry, Expired
<1>9. CASE OpenMsg(p)
  BY <1>9 DEF OpenMsg
<1>10. CASE OpenAtt(p)
  BY <1>10 DEF OpenAtt
<1>11. CASE GenerateFails(p)
  BY <1>11 DEF GenerateFails
<1>12. CASE Generate(p)
  <2>1. CASE End(p, "crashed") /\ UNCHANGED text
    BY <1>12, <2>1 DEF Generate, End
  <2>2. CASE Goto(p, "flush") /\ UNCHANGED locals
    BY <1>12, <2>2 DEF Generate, Writes
  <2>3. QED
    BY <1>12, <2>1, <2>2 DEF Generate
<1>13. CASE Flush(p)
  BY <1>13 DEF Flush, Writes
<1>14. CASE Rename(p)
  <2>1. CASE Goto(p, "plain") /\ UNCHANGED path
    BY <1>14, <2>1 DEF Rename
  <2>2. CASE path["tmp"] # None
    <3>1. /\ held[p] = path["tmp"]
          /\ pc' = [pc EXCEPT ![p] = "send"]
          /\ path' = [path EXCEPT !["msg"] = path["tmp"], !["tmp"] = None]
          /\ UNCHANGED <<text, msg, held>>
      BY <1>14, <2>2 DEF Rename
    <3>2. path'["msg"] = held[p] /\ path'["tmp"] = None
      BY <3>1
    <3>3. \A q \in Procs : Reads(q)' <=> Reads(q)
      BY <3>1, <2>2 DEF Reads
    <3>4. SomeKilled' <=> SomeKilled
      BY <1>14, <3>1 DEF SomeKilled, Rename
    <3>5. Good(text[held[p]])
      BY <1>14, <2>2, <3>1 DEF Rename, Published
    <3>6. QED
      BY <1>14, <2>2, <3>1, <3>2, <3>3, <3>4, <3>5 DEF Published, Good, Rename
  <2>3. QED
    BY <1>14, <2>1, <2>2 DEF Rename
<1>15. CASE Send(p)
  BY <1>15 DEF Send, End, TextOf
<1>16. CASE SendFails(p)
  BY <1>16 DEF SendFails
<1>17. CASE CleanStat(p)
  BY <1>17 DEF CleanStat
<1>18. CASE CleanRemove(p)
  BY <1>18 DEF CleanRemove
<1>19. CASE CleanEnds(p)
  BY <1>19 DEF CleanEnds, End
<1>20. CASE SendPlain(p)
  BY <1>20 DEF SendPlain, End
<1>21. CASE PlainFails(p)
  BY <1>21 DEF PlainFails, End
<1>22. CASE Kill(p)
  BY <1>22 DEF Kill, End
<1>23. CASE CacheFails(p)
  BY <1>23 DEF CacheFails
<1>24. QED
  BY <1>1, <1>2, <1>3, <1>4, <1>5, <1>6, <1>7, <1>8, <1>9, <1>10, <1>11, <1>12, <1>13, <1>14, <1>15,
     <1>16, <1>17, <1>18, <1>19, <1>20, <1>21, <1>22, <1>23 DEF Acts, Process, TryCache

LEMMA TornStep ==
    ASSUME MailTypeOK, LocalInv, LockInv, TextInv, OrderInv, TornNeedsDisplacement, NEW p \in Procs, Acts(p)
    PROVE  TornNeedsDisplacement'
<1> USE MailAssumption DEF MailTypeOK, LocalInv, LockInv, TextInv, OrderInv, Published, TornNeedsDisplacement, Reads, Good, SomeKilled, Complete, Unfinished, files, locals, mailHistory, Goto, Names
<1>1. CASE Stat(p)
  BY <1>1 DEF Stat
<1>2. CASE Expire(p)
  BY <1>2 DEF Expire, Expired
<1>3. CASE OpenTmp(p)
  BY <1>3 DEF OpenTmp, Opened
<1>4. CASE GetLock(p)
  BY <1>4 DEF GetLock, Free
<1>5. CASE Refused(p)
  BY <1>5 DEF Refused, Free
<1>6. CASE Attach(p)
  BY <1>6 DEF Attach
<1>7. CASE WaitStat(p)
  BY <1>7 DEF WaitStat, NextTry
<1>8. CASE WaitExpire(p)
  BY <1>8 DEF WaitExpire, NextTry, Expired
<1>9. CASE OpenMsg(p)
  BY <1>9 DEF OpenMsg
<1>10. CASE OpenAtt(p)
  BY <1>10 DEF OpenAtt
<1>11. CASE GenerateFails(p)
  BY <1>11 DEF GenerateFails
<1>12. CASE Generate(p)
  BY <1>12 DEF Generate, End, Writes
<1>13. CASE Flush(p)
  BY <1>13 DEF Flush, Writes
<1>14. CASE Rename(p)
  BY <1>14 DEF Rename
<1>15. CASE Send(p)
  <2>1. SomeKilled' <=> SomeKilled
    BY <1>15 DEF Send, End, SomeKilled
  <2>2. displaced' = displaced
    BY <1>15 DEF Send
  <2>3. displaced \/ Good(TextOf(p))
    BY <1>15 DEF Send, TextOf
  <2>4. \A q \in Procs : sent'[q] = sent[q] \/ (q = p /\ sent'[q] = sent[q] \cup {TextOf(p)})
    BY <1>15 DEF Send
  <2>5. QED
    BY <2>1, <2>2, <2>3, <2>4 DEF TornNeedsDisplacement, Good, SomeKilled, Unfinished
<1>16. CASE SendFails(p)
  BY <1>16 DEF SendFails
<1>17. CASE CleanStat(p)
  BY <1>17 DEF CleanStat
<1>18. CASE CleanRemove(p)
  BY <1>18 DEF CleanRemove
<1>19. CASE CleanEnds(p)
  BY <1>19 DEF CleanEnds, End
<1>20. CASE SendPlain(p)
  BY <1>20 DEF SendPlain, End
<1>21. CASE PlainFails(p)
  BY <1>21 DEF PlainFails, End
<1>22. CASE Kill(p)
  BY <1>22 DEF Kill, End
<1>23. CASE CacheFails(p)
  BY <1>23 DEF CacheFails
<1>24. QED
  BY <1>1, <1>2, <1>3, <1>4, <1>5, <1>6, <1>7, <1>8, <1>9, <1>10, <1>11, <1>12, <1>13, <1>14, <1>15,
     <1>16, <1>17, <1>18, <1>19, <1>20, <1>21, <1>22, <1>23 DEF Acts, Process, TryCache

-----------------------------------------------------------------------------
(* The invariant and what follows from it.                                 *)

LEMMA InitMail == MailInit => MailInv
<1> SUFFICES ASSUME MailInit PROVE MailInv
  OBVIOUS
<1> USE MailAssumption DEF MailInit
<1>1. MailTypeOK
  <2>1. tries \in [Procs -> 0..(MaxTries + 1)]
    OBVIOUS
  <2>2. QED
    BY <2>1 DEF MailTypeOK, Texts, Unfinished, Running, Names
<1>2. LocalInv /\ LockInv /\ TextInv
  BY DEF LocalInv, LockInv, TextInv
<1>3. FreshInv
  BY DEF FreshInv, Names
<1>4. Apart /\ FromEmpty /\ Published
  BY DEF Apart, FromEmpty, Published, Reads, Names
<1>5. ImagesInv /\ TornNeedsDisplacement
  BY DEF ImagesInv, TornNeedsDisplacement, Names
<1>6. QED
  BY <1>1, <1>2, <1>3, <1>4, <1>5 DEF MailInv, OrderInv

\* Nothing undoes a displacement.
LEMMA DisplacedStays == ASSUME MailTypeOK, NEW p \in Procs, Acts(p), displaced PROVE displaced'
BY DEF MailTypeOK, Acts, Process, TryCache, mailHistory, Stat, Expire, OpenTmp, GetLock, Refused,
       Attach, WaitStat, WaitExpire, OpenMsg, OpenAtt, CacheFails, GenerateFails, Generate, Flush, Rename,
       Send, SendFails, CleanStat, CleanRemove, CleanEnds, SendPlain, PlainFails, Kill

LEMMA MailStep == ASSUME MailInv, NEW p \in Procs, Acts(p) PROVE MailInv'
<1> USE DEF MailInv
<1>1. MailTypeOK' /\ LocalInv' /\ LockInv' /\ TextInv' /\ FreshInv'
  BY TypeStep, LocalStep, LockStep, TextStep, FreshStep
<1>2. OrderInv'
  <2>1. CASE displaced'
    BY <2>1 DEF OrderInv
  <2>2. CASE ~displaced'
    <3>1. ~displaced
      BY <2>2, DisplacedStays
    <3>2. Apart' /\ FromEmpty' /\ Published'
      BY <2>2, <3>1, ApartStep, FromEmptyStep, PublishedStep DEF OrderInv
    <3>3. QED
      BY <3>2 DEF OrderInv
  <2>3. QED
    BY <2>1, <2>2
<1>3. ImagesInv' /\ TornNeedsDisplacement'
  BY ImagesStep, TornStep
<1>4. QED
  BY <1>1, <1>2, <1>3

LEMMA MailStutter == MailInv /\ UNCHANGED mailVars => MailInv'
<1> SUFFICES ASSUME MailInv, UNCHANGED mailVars PROVE MailInv'
  OBVIOUS
<1> USE DEF MailInv, mailVars, files, locals, mailHistory
<1>1. MailTypeOK' /\ LocalInv' /\ LockInv' /\ TextInv' /\ FreshInv'
  BY DEF MailTypeOK, LocalInv, LockInv, TextInv, FreshInv
<1>2. OrderInv'
  BY DEF OrderInv, Apart, FromEmpty, Published, Reads, Good, SomeKilled
<1>3. ImagesInv' /\ TornNeedsDisplacement'
  BY DEF ImagesInv, TornNeedsDisplacement
<1>4. QED
  BY <1>1, <1>2, <1>3

\* The inductive invariant holds in every state, for any set of processes and any bounds:
\* one process per lock, a text that follows its holder, files on their way kept apart
\* from the cached message and its readers until a file is displaced.
THEOREM MailInvariant == MailSpec => []MailInv
<1>1. MailInv /\ [MailNext]_mailVars => MailInv'
  <2> SUFFICES ASSUME MailInv, [MailNext]_mailVars PROVE MailInv'
    OBVIOUS
  <2>1. CASE \E p \in Procs : Process(p) \/ Kill(p)
    BY <2>1, MailStep DEF Acts
  <2>2. CASE AllEnded \/ UNCHANGED mailVars
    BY <2>2, MailStutter DEF AllEnded
  <2>3. QED
    BY <2>1, <2>2 DEF MailNext
<1>2. QED
  BY InitMail, <1>1, PTL DEF MailSpec

\* The variables keep their types: no process waits more often than the loop says.
THEOREM MailTypeCorrect == MailSpec => []MailTypeOK
<1>1. MailInv => MailTypeOK
  BY DEF MailInv
<1>2. QED
  BY MailInvariant, <1>1, PTL

\* The process that got the lock sends a complete text, whatever the others do
\* (mail.cpp:173-184).
THEOREM LockedTextIsWhole == MailSpec => []HolderSendsWhole
<1>1. MailInv => HolderSendsWhole
  BY DEF MailInv, MailTypeOK, LocalInv, TextInv, HolderSendsWhole, Writes, Complete
<1>2. QED
  BY MailInvariant, <1>1, PTL

\* No unfinished text is mailed, kills included, before a rename or a lock has met a file
\* that is not the process's own (mail.cpp:173-184, 265-269).
THEOREM NoTornMail == MailSpec => []TornNeedsDisplacement
<1>1. MailInv => TornNeedsDisplacement
  BY DEF MailInv
<1>2. QED
  BY MailInvariant, <1>1, PTL

\* No process ends on a null attach_fp before a clean-up has removed the file of the
\* images (mail.cpp:127-131, 145-151).
THEOREM NoCrashBeforeCleanup == MailSpec => []CrashNeedsCleanup
<1>1. MailInv => CrashNeedsCleanup
  BY DEF MailInv, ImagesInv, CrashNeedsCleanup
<1>2. QED
  BY MailInvariant, <1>1, PTL
=============================================================================
