----------------------------- MODULE MailCache -----------------------------
(***************************************************************************)
(* zbx_mail: processes that Zabbix starts to mail one and the same message *)
(* to several recipients, and the cache directory in which the first of    *)
(* them leaves the generated message to the others.  The message is built  *)
(* in X.msg.tmp under flock() and renamed to X.msg; its images are in      *)
(* X.msg.att.                                                              *)
(*                                                                         *)
(* A file is named by the process whose open() has created it: open files  *)
(* and locks follow the file, a rename or an unlink changes the directory  *)
(* only.  The age test against cache-timeout may go either way, since the  *)
(* access time of a file is that of its creation until somebody reads it,  *)
(* and generating and waiting may take longer than the 10 s of the default.*)
(* The message has images; what they hold is left out, whether their file  *)
(* is there is not.                                                        *)
(***************************************************************************)
EXTENDS Naturals, FiniteSets

CONSTANTS
    Procs,          \* zbx_mail processes for one message
    None,           \* no file
    MaxTries,       \* try_cache waits until i > MaxTries; 10 in the code
    MaxKills        \* bound: processes killed from outside

ASSUME MailAssumption == None \notin Procs /\ MaxTries \in Nat /\ MaxKills \in Nat

VARIABLES
    dir,            \* the configured cache directory can be accessed
    path,           \* directory: the file of each name
    text,           \* contents of a file made for the message
    pc,
    cst,            \* cache_state
    msg,            \* the file behind fd, then behind msg_fp
    att,            \* attach_fp is not null
    held,           \* the file that the process has locked
    tries,          \* i in try_cache's loop
    old,            \* the name that cache_cleanup is about to remove
    todo,           \* names that cache_cleanup has read and not yet looked at
    sent,           \* texts of the mails that the server has accepted
    displaced,      \* history: a rename or a lock has met a file that is not the process's own
    attRemoved      \* history: cache_cleanup has removed X.msg.att

files == <<path, text>>
locals == <<cst, msg, att, held, tries, todo, old>>
mailHistory == <<displaced, attRemoved>>
mailVars == <<dir, files, pc, locals, sent, mailHistory>>

Names == {"msg", "tmp", "att"}
Unfinished == {"empty", "partial", "overwritten"}
Texts == Unfinished \cup {"whole", "tailed"}
Ended == {"done", "failed", "crashed", "killed"}
Running == {"stat", "expire", "opentmp", "lock", "attach", "wait", "waitexpire", "open", "openatt",
            "generate", "flush", "rename", "send", "clean", "unlink", "plain"}

MailTypeOK ==
    /\ dir \in BOOLEAN
    /\ path \in [Names -> Procs \cup {None}]
    /\ text \in [Procs -> Texts]
    /\ pc \in [Procs -> Running \cup Ended]
    /\ cst \in [Procs -> {"unknown", "found", "notfound", "unaccessible"}]
    /\ msg \in [Procs -> Procs \cup {None}]
    /\ att \in [Procs -> BOOLEAN]
    /\ held \in [Procs -> Procs \cup {None}]
    /\ tries \in [Procs -> 0..(MaxTries + 1)]
    /\ todo \in [Procs -> SUBSET Names]
    /\ old \in [Procs -> Names \cup {None}]
    /\ sent \in [Procs -> SUBSET (Texts \cup {"plain"})]
    /\ displaced \in BOOLEAN /\ attRemoved \in BOOLEAN

\* The cache is empty, or the directory is not there.
MailInit ==
    /\ dir \in BOOLEAN
    /\ path = [n \in Names |-> None]
    /\ text = [p \in Procs |-> "empty"]
    /\ pc = [p \in Procs |-> "stat"]
    /\ cst = [p \in Procs |-> "unknown"]
    /\ msg = [p \in Procs |-> None]
    /\ att = [p \in Procs |-> FALSE]
    /\ held = [p \in Procs |-> None]
    /\ tries = [p \in Procs |-> 0]
    /\ todo = [p \in Procs |-> {}]
    /\ old = [p \in Procs |-> None]
    /\ sent = [p \in Procs |-> {}]
    /\ displaced = FALSE /\ attRemoved = FALSE

Goto(p, l) == pc' = [pc EXCEPT ![p] = l]

\* The process ends one way or another: its files are closed, its lock is gone.
End(p, how) ==
    /\ Goto(p, how)
    /\ cst' = [cst EXCEPT ![p] = "unknown"]
    /\ msg' = [msg EXCEPT ![p] = None]
    /\ att' = [att EXCEPT ![p] = FALSE]
    /\ held' = [held EXCEPT ![p] = None]
    /\ tries' = [tries EXCEPT ![p] = 0]
    /\ todo' = [todo EXCEPT ![p] = {}]
    /\ old' = [old EXCEPT ![p] = None]

-----------------------------------------------------------------------------
(* The directory and the lock.                                             *)

ExpiredBoth == [path EXCEPT !["msg"] = None, !["att"] = None]  \* mutant

\* remove(X.msg) leaves the images.
Expired == [path EXCEPT !["msg"] = None]

OpenedTruncated(i) == [text EXCEPT ![i] = "empty"]             \* mutant

\* O_RDWR | O_CREAT: an existing file is opened with what it holds.
Opened(i) == text

FreeAlways(i) == TRUE                                          \* mutant

\* flock(LOCK_EX | LOCK_NB) succeeds.
Free(i) == \A q \in Procs : held[q] # i

GiveUpLater(p) == tries[p] > MaxTries + 1                      \* mutant

\* if (i > 10) throw
GiveUp(p) == tries[p] > MaxTries

-----------------------------------------------------------------------------
(* try_cache.                                                              *)

\* get_cache_stat: the message is there and young, there and old, or not there.
Stat(p) ==
    /\ pc[p] = "stat"
    /\ \/ path["msg"] # None /\ Goto(p, "open") /\ cst' = [cst EXCEPT ![p] = "found"]
       \/ path["msg"] # None /\ Goto(p, "expire") /\ UNCHANGED cst
       \/ path["msg"] = None /\ dir /\ Goto(p, "opentmp") /\ cst' = [cst EXCEPT ![p] = "notfound"]
       \/ ~dir /\ Goto(p, "generate") /\ cst' = [cst EXCEPT ![p] = "unaccessible"]
    /\ UNCHANGED <<dir, files, msg, att, held, tries, todo, old, sent, mailHistory>>

\* get_cache_stat: remove() takes what has the name by now.
Expire(p) ==
    /\ pc[p] = "expire"
    /\ path' = Expired
    /\ cst' = [cst EXCEPT ![p] = "notfound"]
    /\ Goto(p, "opentmp")
    /\ UNCHANGED <<dir, text, msg, att, held, tries, todo, old, sent, mailHistory>>

OpenTmp(p) ==
    /\ pc[p] = "opentmp"
    /\ path' = [path EXCEPT !["tmp"] = IF @ = None THEN p ELSE @]
    /\ msg' = [msg EXCEPT ![p] = path'["tmp"]]
    /\ text' = Opened(path'["tmp"])
    /\ Goto(p, "lock")
    /\ UNCHANGED <<dir, cst, att, held, tries, todo, old, sent, mailHistory>>

GetLock(p) ==
    /\ pc[p] = "lock" /\ Free(msg[p])
    /\ held' = [held EXCEPT ![p] = msg[p]]
    /\ displaced' = (displaced \/ path["tmp"] # msg[p])
    /\ Goto(p, "attach")
    /\ UNCHANGED <<dir, files, cst, msg, att, tries, todo, old, sent, attRemoved>>

Refused(p) ==
    /\ pc[p] = "lock" /\ ~Free(msg[p])
    /\ Goto(p, "wait")
    /\ UNCHANGED <<dir, files, locals, sent, mailHistory>>

\* fopen(X.msg.att, "w+") creates the file or truncates it.
Attach(p) ==
    /\ pc[p] = "attach"
    /\ path' = [path EXCEPT !["att"] = IF @ = None THEN p ELSE @]
    /\ att' = [att EXCEPT ![p] = TRUE]
    /\ Goto(p, "generate")
    /\ UNCHANGED <<dir, text, cst, msg, held, tries, todo, old, sent, mailHistory>>

\* One more round of the loop, or the error after the last.
NextTry(p) ==
    IF GiveUp(p)
    THEN Goto(p, "plain") /\ UNCHANGED tries
    ELSE Goto(p, "wait") /\ tries' = [tries EXCEPT ![p] = @ + 1]

WaitStat(p) ==
    /\ pc[p] = "wait"
    /\ \/ path["msg"] # None /\ Goto(p, "open") /\ UNCHANGED tries
       \/ path["msg"] # None /\ Goto(p, "waitexpire") /\ UNCHANGED tries
       \/ path["msg"] = None /\ NextTry(p)
    /\ UNCHANGED <<dir, files, cst, msg, att, held, todo, old, sent, mailHistory>>

WaitExpire(p) ==
    /\ pc[p] = "waitexpire"
    /\ path' = Expired
    /\ NextTry(p)
    /\ UNCHANGED <<dir, text, cst, msg, att, held, todo, old, sent, mailHistory>>

\* open_cache(cache_filename, "r"), the message: gone means an error.
OpenMsg(p) ==
    /\ pc[p] = "open"
    /\ IF path["msg"] = None
       THEN Goto(p, "plain") /\ UNCHANGED msg
       ELSE Goto(p, "openatt") /\ msg' = [msg EXCEPT ![p] = path["msg"]]
    /\ UNCHANGED <<dir, files, cst, att, held, tries, todo, old, sent, mailHistory>>

\* open_cache, the images: without the file attach_fp is null.  The caller sends what
\* it has found; who had to wait has kept cache_msg_notfound and generates.
OpenAtt(p) ==
    /\ pc[p] = "openatt"
    /\ att' = [att EXCEPT ![p] = path["att"] # None]
    /\ Goto(p, IF cst[p] = "found" THEN "send" ELSE "generate")
    /\ UNCHANGED <<dir, files, cst, msg, held, tries, todo, old, sent, mailHistory>>

\* stat(), open(), flock() or fopen() fails for another reason: an error, whose handler
\* keeps what the process has opened and locked, the message being a global variable.
CacheFails(p) ==
    /\ pc[p] \in {"stat", "opentmp", "lock", "attach", "wait", "open", "openatt"}
    /\ Goto(p, "plain")
    /\ UNCHANGED <<dir, files, locals, sent, mailHistory>>

-----------------------------------------------------------------------------
(* message_process: generate_message, send and cache_cleanup.              *)

Writes(p) == held[p] # None

\* process_text fails on the API or the web server.
GenerateFails(p) ==
    /\ pc[p] = "generate"
    /\ Goto(p, "plain")
    /\ UNCHANGED <<dir, files, locals, sent, mailHistory>>

\* The text goes to the file from its beginning; it is not truncated.  A stream that
\* was opened to read takes nothing; images for a null attach_fp end the process.
Generate(p) ==
    /\ pc[p] = "generate"
    /\ IF cst[p] = "notfound" /\ ~att[p]
       THEN End(p, "crashed") /\ UNCHANGED text
       ELSE /\ Goto(p, "flush")
            /\ text' = IF Writes(p)
                       THEN [text EXCEPT ![msg[p]] = IF @ = "empty" THEN "partial" ELSE "overwritten"]
                       ELSE text
            /\ UNCHANGED locals
    /\ UNCHANGED <<dir, path, sent, mailHistory>>

\* fflush of both files; what was there before may have been longer.
Flush(p) ==
    /\ pc[p] = "flush"
    /\ \/ ~Writes(p) /\ UNCHANGED text
       \/ Writes(p) /\ text' = [text EXCEPT ![msg[p]] = "whole"]
       \/ Writes(p) /\ text[msg[p]] = "overwritten" /\ text' = [text EXCEPT ![msg[p]] = "tailed"]
    /\ Goto(p, IF cst[p] = "unaccessible" THEN "send" ELSE "rename")
    /\ UNCHANGED <<dir, path, locals, sent, mailHistory>>

\* rename(X.msg.tmp, X.msg) takes the file that has the name, whosoever's it is.
Rename(p) ==
    /\ pc[p] = "rename"
    /\ IF path["tmp"] = None
       THEN Goto(p, "plain") /\ UNCHANGED <<path, displaced>>
       ELSE /\ Goto(p, "send")
            /\ path' = [path EXCEPT !["msg"] = path["tmp"], !["tmp"] = None]
            /\ displaced' = (displaced \/ held[p] # path["tmp"])
    /\ UNCHANGED <<dir, text, locals, sent, attRemoved>>

\* What fill_message reads.
TextOf(p) == IF cst[p] = "unaccessible" THEN "whole" ELSE text[msg[p]]

\* send() of the message: a null attach_fp ends the process in rewind.
Send(p) ==
    /\ pc[p] = "send"
    /\ IF cst[p] # "unaccessible" /\ ~att[p]
       THEN End(p, "crashed") /\ UNCHANGED sent
       ELSE /\ sent' = [sent EXCEPT ![p] = @ \cup {TextOf(p)}]
            /\ IF cst[p] = "notfound"
               THEN /\ Goto(p, "clean")
                    /\ todo' = [todo EXCEPT ![p] = {n \in Names : path[n] # None}]
                    /\ UNCHANGED <<cst, msg, att, held, tries, old>>
               ELSE End(p, "done")
    /\ UNCHANGED <<dir, files, mailHistory>>

\* curl_easy_perform fails.
SendFails(p) ==
    /\ pc[p] = "send" /\ (cst[p] = "unaccessible" \/ att[p])
    /\ Goto(p, "plain")
    /\ UNCHANGED <<dir, files, locals, sent, mailHistory>>

\* cache_cleanup, the next name: a file that is gone is an error, an old one is to go.
CleanStat(p) ==
    /\ pc[p] = "clean"
    /\ \E n \in todo[p] :
           /\ todo' = [todo EXCEPT ![p] = @ \ {n}]
           /\ \/ path[n] = None /\ Goto(p, "plain") /\ UNCHANGED old
              \/ path[n] # None /\ UNCHANGED <<pc, old>>
              \/ path[n] # None /\ Goto(p, "unlink") /\ old' = [old EXCEPT ![p] = n]
    /\ UNCHANGED <<dir, files, cst, msg, att, held, tries, sent, mailHistory>>

\* Its remove() takes what has the name by now.
CleanRemove(p) ==
    /\ pc[p] = "unlink"
    /\ path' = [path EXCEPT ![old[p]] = None]
    /\ attRemoved' = (attRemoved \/ old[p] = "att")
    /\ old' = [old EXCEPT ![p] = None]
    /\ Goto(p, "clean")
    /\ UNCHANGED <<dir, text, cst, msg, att, held, tries, todo, sent, displaced>>

CleanEnds(p) ==
    /\ pc[p] = "clean" /\ todo[p] = {}
    /\ End(p, "done")
    /\ UNCHANGED <<dir, files, sent, mailHistory>>

\* main's handlers: the body as it came, without cache or images.
SendPlain(p) ==
    /\ pc[p] = "plain"
    /\ sent' = [sent EXCEPT ![p] = @ \cup {"plain"}]
    /\ End(p, "done")
    /\ UNCHANGED <<dir, files, mailHistory>>

PlainFails(p) ==
    /\ pc[p] = "plain"
    /\ End(p, "failed")
    /\ UNCHANGED <<dir, files, sent, mailHistory>>

\* Zabbix, or the system, kills the process.
Kill(p) ==
    /\ pc[p] \in Running
    /\ Cardinality({q \in Procs : pc[q] = "killed"}) < MaxKills
    /\ End(p, "killed")
    /\ UNCHANGED <<dir, files, sent, mailHistory>>

-----------------------------------------------------------------------------
TryCache(p) ==
    \/ Stat(p) \/ Expire(p) \/ OpenTmp(p) \/ GetLock(p) \/ Refused(p) \/ Attach(p)
    \/ WaitStat(p) \/ WaitExpire(p) \/ OpenMsg(p) \/ OpenAtt(p) \/ CacheFails(p)

Process(p) ==
    \/ TryCache(p)
    \/ GenerateFails(p) \/ Generate(p) \/ Flush(p) \/ Rename(p)
    \/ Send(p) \/ SendFails(p)
    \/ CleanStat(p) \/ CleanRemove(p) \/ CleanEnds(p)
    \/ SendPlain(p) \/ PlainFails(p)

\* Nothing is left to do: the only state without another step.
AllEnded == (\A p \in Procs : pc[p] \in Ended) /\ UNCHANGED mailVars

MailNext == (\E p \in Procs : Process(p) \/ Kill(p)) \/ AllEnded

MailSpec == MailInit /\ [][MailNext]_mailVars

-----------------------------------------------------------------------------
(* Properties.                                                             *)

\* The process that got the lock sends a complete text, its own, whatever the others do
\* to the directory meanwhile: expiry, clean-up, renames, kills (mail.cpp:173-184).
HolderSendsWhole ==
    \A p \in Procs : pc[p] = "send" /\ Writes(p) => text[msg[p]] \in {"whole", "tailed"}

\* An unfinished text is never mailed, not even after a kill in the middle of writing,
\* unless some rename or lock has met a file that was not the process's own; a text with
\* the tail of an older one needs that or a kill (mail.cpp:173-184, 265-269).
TornNeedsDisplacement ==
    \A p \in Procs :
        /\ sent[p] \cap Unfinished # {} => displaced
        /\ "tailed" \in sent[p] => displaced \/ \E q \in Procs : pc[q] = "killed"

\* A null attach_fp ends a process only after a clean-up has removed the images of the
\* message and left the message: the images' file is there before the message is, and an
\* expired message leaves it (mail.cpp:127-131, 145-151, 180-184).
CrashNeedsCleanup == (\E p \in Procs : pc[p] = "crashed") => attRemoved

\* mail.cpp:187-188 on a process that did not get the lock: "So we're just waiting for him
\* to end his work. Then send his message from cache."  So only the holder generates.
\* Does not hold: README, section 5.
WaiterSendsFromCache ==
    \A p \in Procs : pc[p] = "generate" /\ cst[p] = "notfound" => Writes(p)
=============================================================================
