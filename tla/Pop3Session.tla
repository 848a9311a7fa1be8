----------------------------- MODULE Pop3Session -----------------------------
(***************************************************************************)
(* POP3 sessions on INBOX (pop3_client.py), beside IMAP's EXPUNGE, the     *)
(* resync and pack of the mailbox, and the delivery of mail.               *)
(*                                                                         *)
(* A session works on a snapshot of the lists of the mailbox.  Its QUIT    *)
(* calls Mailbox.expunge() without going through the queue of commands, so *)
(* that it may run between any two steps of whatever else is at work.      *)
(* expunge() takes a message out of the lists by its position in the look- *)
(* up tables, which are rebuilt when it is through, and then removes the   *)
(* file, which takes a while.                                              *)
(*                                                                         *)
(* Any messages may carry \Deleted when EXPUNGE comes, and a resync always *)
(* looks at the folder.  The content of a message is its number.           *)
(***************************************************************************)
EXTENDS MHFolder

CONSTANTS
  Sessions,     \* the POP3 sessions
  Imap,         \* the worker of IMAP's EXPUNGE
  InitialKeys,  \* the keys of the messages in the folder to begin with
  MaxMail,      \* bound on the messages there will ever be
  PackLimit     \* folder_size_pack_limit

ASSUME Pop3Assumption ==
  /\ IsFiniteSet(Sessions) /\ Imap \notin Sessions
  /\ IsFiniteSet(InitialKeys) /\ InitialKeys \subseteq Nat \ {0}
  /\ MaxMail \in Nat /\ Cardinality(InitialKeys) <= MaxMail /\ PackLimit \in Nat \ {0}

VARIABLES
  file,       \* the folder: the message in the file with a key
  born,       \* how many messages there have been
  mbox,       \* the lists of the Mailbox and its look-up tables
  resync,     \* check_new_msgs_and_flags, as far as it has come
  job,        \* a running expunge(): to_delete, and the key that is being removed
  running,    \* the expunge() that has the event loop, awaiting nothing for now: {} or {w}
  pop,        \* the sessions
  condemned,  \* history: what QUITs and EXPUNGEs were to remove
  met,        \* history: a QUIT's expunge() has had a resync, pack or expunge() beside it
  anew        \* history: messages that had UIDs were all given new ones

vars == <<file, born, mbox, resync, job, running, pop, condemned, met, anew>>

Mails   == 1..MaxMail
Workers == Sessions \cup {Imap}
Keys    == DOMAIN file

\* _rebuild_index_dicts
Rebuilt(m) == [m EXCEPT !.keyIdx = Index(m.keys), !.uidIdx = Index(m.uids)]

NoJob      == [on |-> FALSE, todo |-> {}, key |-> 0]
NoResync   == [op |-> "none", scan |-> <<>>]
Expunging  == {w \in Workers : job[w].on}
Quitting   == Expunging \cap Sessions
AtRest     == Expunging = {} /\ resync = NoResync

\* No expunge() has the event loop: the tasks of the process may go on.
LoopFree   == running = {}

NewSession == [pc |-> "new", keys |-> <<>>, uids |-> <<>>, deleted |-> {}, sizes |-> <<>>,
               listed |-> <<>>]

(***************************************************************************)
(* Every variable has its type.  In a session only numbers of its snapshot  *)
(* are marked or have a size.                                              *)
(***************************************************************************)
SessionOK(p) ==
  /\ p.pc \in {"new", "transaction", "quitting", "ok", "failed", "cut"}
  /\ Len(p.listed) = Len(p.keys)
  /\ p.deleted \subseteq DOMAIN p.keys /\ DOMAIN p.sizes \subseteq DOMAIN p.keys
  /\ Range(p.sizes) \subseteq {0} \cup Mails

Pop3TypeOK ==
  /\ Keys \subseteq Nat \ {0} /\ Range(file) \subseteq 1..born /\ born \in 0..MaxMail
  /\ Range(mbox.keys) \subseteq Nat /\ Range(mbox.uids) \subseteq 1..mbox.nextUid - 1 /\ mbox.num \in Int /\ mbox.nextUid \in Nat
  /\ resync.op \in {"none", "scanned", "noticed", "packing"}
  /\ \A w \in Workers : job[w].on \in BOOLEAN /\ job[w].todo \subseteq Nat /\ job[w].key \in Nat
  /\ running \subseteq Workers
  /\ \A s \in Sessions : SessionOK(pop[s])
  /\ condemned \subseteq Mails /\ met \in BOOLEAN /\ anew \in BOOLEAN

Init ==
  /\ file = [k \in InitialKeys |-> Rank(InitialKeys, k)]
  /\ born = Cardinality(InitialKeys)
  /\ LET keys == Ascending(InitialKeys)
         uids == [n \in 1..born |-> n]
     IN mbox = [keys |-> keys, uids |-> uids, keyIdx |-> Index(keys), uidIdx |-> Index(uids),
                num |-> born, nextUid |-> born + 1]
  /\ resync = NoResync
  /\ job = [w \in Workers |-> NoJob] /\ running = {}
  /\ pop = [s \in Sessions |-> NewSession]
  /\ condemned = {} /\ met = FALSE /\ anew = FALSE

-----------------------------------------------------------------------------
(* Mail arrives, by a mail transfer agent or an APPEND *)

Deliver ==
  /\ born < MaxMail
  /\ born' = born + 1
  /\ file' = Added(file, born + 1)
  /\ UNCHANGED <<mbox, resync, job, running, pop, condemned, met, anew>>

-----------------------------------------------------------------------------
(* The management task: it waits for IMAP's EXPUNGE, and for no QUIT *)

Meets == met' = (met \/ Quitting # {})

Scan ==
  /\ resync = NoResync /\ ~ job[Imap].on
  /\ resync' = [op |-> "scanned", scan |-> Ascending(Keys)]
  /\ Meets
  /\ UNCHANGED <<file, born, mbox, job, running, pop, condemned, anew>>

Unchanged == resync.scan = mbox.keys /\ Len(mbox.uids) = mbox.num

\* In a poll the mailbox is packed then, perhaps.
FindNothing ==
  /\ resync.op = "scanned" /\ Unchanged
  /\ \/ resync' = NoResync
     \/ resync' = [op |-> "packing", scan |-> <<>>]
  /\ UNCHANGED <<file, born, mbox, job, running, pop, condemned, met, anew>>

\* The mailbox as the rest of the resync takes it: as a new one if it has shrunk
\* or lacks UIDs; of too many UIDs the last ones are kept.
Trusted ==
  IF Len(resync.scan) < mbox.num \/ Len(mbox.uids) < Len(mbox.keys)
  THEN [mbox EXCEPT !.keys = <<>>, !.uids = <<>>, !.num = 0]
  ELSE [mbox EXCEPT !.uids = IF mbox.keys = <<>> THEN @
                             ELSE SubSeq(@, Len(@) - Len(mbox.keys) + 1, Len(@))]

\* New messages get the next UIDs.
FindMail ==
  /\ resync.op = "scanned" /\ ~ Unchanged
  /\ LET new  == Ascending(Range(resync.scan) \ Range(Trusted.keys))
         uids == Trusted.uids \o [i \in DOMAIN new |-> mbox.nextUid + i - 1]
     IN mbox' = Rebuilt([Trusted EXCEPT !.keys = @ \o new, !.uids = uids,
                                        !.nextUid = IF uids = <<>> THEN @ ELSE Last(uids) + 1])
  /\ resync' = [resync EXCEPT !.op = "noticed"]
  /\ anew' = (anew \/ (mbox.uids # <<>> /\ Trusted.uids = <<>>))
  /\ UNCHANGED <<file, born, job, running, pop, condemned, met>>

\* The new messages have been read and the clients told.
CountMail ==
  /\ resync.op = "noticed"
  /\ mbox' = [mbox EXCEPT !.num = Len(resync.scan)]
  /\ resync' = NoResync
  /\ UNCHANGED <<file, born, job, running, pop, condemned, met, anew>>

\* One of them could not be read: the exception is logged.
FindFails ==
  /\ resync.op = "noticed" /\ ~ (Range(resync.scan) \subseteq Keys)
  /\ resync' = NoResync
  /\ UNCHANGED <<file, born, mbox, job, running, pop, condemned, met, anew>>

\* Many messages, and many gaps.
WorthPacking ==
  mbox.num >= PackLimit /\ mbox.keys # <<>> /\ mbox.num * 10 <= Last(mbox.keys) * 8

\* Without messages there may be an IndexError, which is logged.
NoPack ==
  /\ resync.op = "packing" /\ ~ WorthPacking
  /\ resync' = NoResync
  /\ UNCHANGED <<file, born, mbox, job, running, pop, condemned, met, anew>>

Pack ==
  /\ resync.op = "packing" /\ WorthPacking
  /\ file' = Packed(file)
  /\ mbox' = Rebuilt([mbox EXCEPT !.keys = Ascending(DOMAIN file')])
  /\ resync' = NoResync
  /\ Meets
  /\ UNCHANGED <<born, job, running, pop, condemned, anew>>

-----------------------------------------------------------------------------
(* Mailbox.expunge *)

\* It starts with the keys ks; the messages asked for are ms.  From here on it awaits
\* nothing until the first file is being removed.
Start(w, ks, ms) ==
  /\ job' = [job EXCEPT ![w] = [on |-> TRUE, todo |-> ks, key |-> 0]]
  /\ running' = {w}
  /\ condemned' = condemned \cup ms
  /\ met' = (met \/ (w # Imap /\ ~ AtRest) \/ Quitting # {})

\* \Deleted may be on any messages that the mailbox knows.
ImapExpunge ==
  /\ ~ job[Imap].on /\ resync = NoResync
  /\ \E ks \in SUBSET (Range(mbox.keys) \cap DOMAIN mbox.keyIdx) \ {{}} :
       Start(Imap, ks, {file[k] : k \in ks \cap Keys})
  /\ UNCHANGED <<file, born, mbox, resync, pop, anew>>

Highest(w) == Max(job[w].todo)

\* A key that the tables do not have is passed over.
PassOver(w) ==
  /\ job[w].on /\ job[w].key = 0 /\ job[w].todo # {}
  /\ Highest(w) \notin DOMAIN mbox.keyIdx
  /\ job' = [job EXCEPT ![w].todo = @ \ {Highest(w)}]
  /\ running' = {w}
  /\ UNCHANGED <<file, born, mbox, resync, pop, condemned, met, anew>>

\* Out of the lists, by its position in the tables; then the file is being removed.
TakeOut(w) ==
  /\ job[w].on /\ job[w].key = 0 /\ job[w].todo # {}
  /\ LET k == Highest(w)
     IN /\ k \in DOMAIN mbox.keyIdx
        /\ mbox.keyIdx[k] <= Len(mbox.keys) /\ mbox.keyIdx[k] <= Len(mbox.uids)
        /\ mbox' = [mbox EXCEPT !.keys = RemoveAt(@, mbox.keyIdx[k]),
                                !.uids = RemoveAt(@, mbox.keyIdx[k]), !.num = @ - 1]
        /\ job' = [job EXCEPT ![w].todo = @ \ {k}, ![w].key = k]
  /\ running' = {}
  /\ UNCHANGED <<file, born, resync, pop, condemned, met, anew>>

RemoveFile(w) ==
  /\ job[w].key \in Keys
  /\ file' = [k \in Keys \ {job[w].key} |-> file[k]]
  /\ job' = [job EXCEPT ![w].key = 0]
  /\ UNCHANGED <<born, mbox, resync, running, pop, condemned, met, anew>>

\* The session goes on to pc.
Ends(w, pc) ==
  /\ job' = [job EXCEPT ![w] = NoJob]
  /\ running' = {}
  /\ pop' = [s \in Sessions |-> IF s = w THEN [pop[s] EXCEPT !.pc = pc] ELSE pop[s]]

\* Mutant: the tables are not rebuilt.
FinishWithoutTables(w) ==
  /\ job[w].on /\ job[w].key = 0 /\ job[w].todo = {}
  /\ Ends(w, "ok")
  /\ UNCHANGED <<file, born, mbox, resync, condemned, met, anew>>

Finish(w) ==
  /\ job[w].on /\ job[w].key = 0 /\ job[w].todo = {}
  /\ mbox' = Rebuilt(mbox)
  /\ Ends(w, "ok")
  /\ UNCHANGED <<file, born, resync, condemned, met, anew>>

\* The position is beyond the lists, or there is no such file.
ExpungeFails(w) ==
  /\ job[w].on
  /\ \/ /\ job[w].key = 0 /\ job[w].todo # {} /\ Highest(w) \in DOMAIN mbox.keyIdx
        /\ mbox.keyIdx[Highest(w)] > Len(mbox.keys) \/ mbox.keyIdx[Highest(w)] > Len(mbox.uids)
     \/ job[w].key # 0 /\ job[w].key \notin Keys
  /\ Ends(w, "failed")
  /\ UNCHANGED <<file, born, mbox, resync, condemned, met, anew>>

-----------------------------------------------------------------------------
(* POP3CommandHandler *)

In(s) == pop[s].pc = "transaction"

\* The message that a number of the session stands for in the folder now, or 0.
Mail(k) == IF k \in Keys THEN file[k] ELSE 0

init_session(s) ==
  /\ pop[s].pc = "new"
  /\ pop' = [pop EXCEPT ![s] = [@ EXCEPT !.pc = "transaction", !.keys = mbox.keys, !.uids = mbox.uids,
                                         !.listed = [i \in DOMAIN mbox.keys |-> Mail(mbox.keys[i])]]]
  /\ UNCHANGED <<file, born, mbox, resync, job, running, condemned, met, anew>>

_valid_msg_num(s) == DOMAIN pop[s].keys \ pop[s].deleted

\* STAT, LIST: the sizes that have not been asked for yet are computed.
do_list(s, asked) ==
  /\ In(s)
  /\ LET new == (asked \cap _valid_msg_num(s)) \ DOMAIN pop[s].sizes
     IN /\ new # {}
        /\ pop' = [pop EXCEPT ![s].sizes =
                     [n \in new \cup DOMAIN @ |-> IF n \in new THEN Mail(pop[s].keys[n]) ELSE @[n]]]
  /\ UNCHANGED <<file, born, mbox, resync, job, running, condemned, met, anew>>

\* Mutant: the number is not checked.
DeleUnchecked(s, n) ==
  /\ In(s)
  /\ pop' = [pop EXCEPT ![s].deleted = @ \cup {n}]
  /\ UNCHANGED <<file, born, mbox, resync, job, running, condemned, met, anew>>

do_dele(s, n) ==
  /\ In(s) /\ n \in _valid_msg_num(s)
  /\ pop' = [pop EXCEPT ![s].deleted = @ \cup {n}]
  /\ UNCHANGED <<file, born, mbox, resync, job, running, condemned, met, anew>>

do_rset(s) ==
  /\ In(s) /\ pop[s].deleted # {}
  /\ pop' = [pop EXCEPT ![s].deleted = {}]
  /\ UNCHANGED <<file, born, mbox, resync, job, running, condemned, met, anew>>

MarkedUids(s) == {pop[s].uids[n] : n \in pop[s].deleted}
MarkedMail(s) == {pop[s].listed[n] : n \in pop[s].deleted} \ {0}

\* Mutant: the messages are removed by the keys of the snapshot.
QuitByKey(s) ==
  /\ In(s) /\ pop[s].deleted # {} /\ pop[s].deleted \subseteq DOMAIN pop[s].uids
  /\ Start(s, {pop[s].keys[n] : n \in pop[s].deleted}, MarkedMail(s))
  /\ pop' = [pop EXCEPT ![s].pc = "quitting"]
  /\ UNCHANGED <<file, born, mbox, resync, anew>>

\* Mutant: a UID that is not in the tables anymore makes QUIT forget the rest.
QuitAllOrNone(s) ==
  /\ In(s) /\ pop[s].deleted # {} /\ pop[s].deleted \subseteq DOMAIN pop[s].uids
  /\ LET at == {mbox.uidIdx[u] : u \in IF MarkedUids(s) \subseteq DOMAIN mbox.uidIdx THEN MarkedUids(s) ELSE {}}
     IN /\ at \subseteq DOMAIN mbox.keys
        /\ Start(s, {mbox.keys[i] : i \in at}, MarkedMail(s))
  /\ pop' = [pop EXCEPT ![s].pc = "quitting"]
  /\ UNCHANGED <<file, born, mbox, resync, anew>>

\* expunge(uid_msg_set, check_deleted=False): UIDs that are not there are left out.
do_quit(s) ==
  /\ In(s) /\ pop[s].deleted # {} /\ pop[s].deleted \subseteq DOMAIN pop[s].uids
  /\ LET at == {mbox.uidIdx[u] : u \in MarkedUids(s) \cap DOMAIN mbox.uidIdx}
     IN IF at \subseteq DOMAIN mbox.keys
        THEN /\ Start(s, {mbox.keys[i] : i \in at}, MarkedMail(s))
             /\ pop' = [pop EXCEPT ![s].pc = "quitting"]
        ELSE /\ pop' = [pop EXCEPT ![s].pc = "failed"]
             /\ UNCHANGED <<job, running, condemned, met>>
  /\ UNCHANGED <<file, born, mbox, resync, anew>>

\* QUIT with nothing marked, a number that has no UID, or no QUIT at all.
Leave(s) ==
  /\ In(s)
  /\ pop' = [pop EXCEPT ![s].pc = "cut"]
  /\ UNCHANGED <<file, born, mbox, resync, job, running, condemned, met, anew>>

-----------------------------------------------------------------------------

Session(s) ==
  \/ init_session(s) \/ do_rset(s) \/ do_quit(s) \/ Leave(s)
  \/ \E n \in Mails : do_list(s, {n}) \/ do_dele(s, n)
  \/ do_list(s, Mails)

Expunge(w) == PassOver(w) \/ TakeOut(w) \/ RemoveFile(w) \/ Finish(w) \/ ExpungeFails(w)

\* Mail is delivered by other processes.
Next ==
  \/ Deliver
  \/ /\ LoopFree
     /\ \/ Scan \/ FindNothing \/ FindMail \/ CountMail \/ FindFails \/ NoPack \/ Pack
        \/ ImapExpunge
        \/ \E s \in Sessions : Session(s)
  \/ \E w \in Workers : (LoopFree \/ w \in running) /\ Expunge(w)

Spec == Init /\ [][Next]_vars

-----------------------------------------------------------------------------
(* Properties *)

Gone == (1..born) \ Range(file)

(***************************************************************************)
(* A message leaves the folder only if a QUIT or an EXPUNGE was to remove  *)
(* it: "Force expunge: expunge the messages whose UIDs are in uid_msg_set".*)
(***************************************************************************)
UnmarkedStays == Gone \subseteq condemned

\* It is so if no QUIT had anything else beside it, whatever came before and
\* after: the snapshot may be older than packs, expunges, and mail.
UnmarkedStaysAlone == ~ met => UnmarkedStays

(***************************************************************************)
(* Whatever else went on, when nothing is at work and no QUIT has had      *)
(* company, the mailbox lists no message that is not in the folder.        *)
(***************************************************************************)
NoPhantom == AtRest /\ ~ met => Range(mbox.keys) \subseteq Keys

(***************************************************************************)
(* Once a QUIT has been answered with +OK what its session had marked is   *)
(* gone, whatever became of the mailbox since the session began, provided  *)
(* no resync took the mailbox for a new one.                               *)
(***************************************************************************)
OkMeansGone ==
  \A s \in Sessions :
    pop[s].pc = "ok" /\ ~ met /\ ~ anew => MarkedMail(s) \cap Range(file) = {}
=============================================================================
