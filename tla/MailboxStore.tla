---------------------------- MODULE MailboxStore ----------------------------
(***************************************************************************)
(* Where one mailbox keeps its messages: an MH folder with a               *)
(* .mh_sequences file, a row in the database, and the Mailbox object that  *)
(* brings the two together.                                                *)
(*                                                                         *)
(* The folder belongs to the mail system too: it adds messages at any      *)
(* moment, under the lowest key above all others, and marks them unseen.   *)
(* The Mailbox notices when the whole second in which the folder was last  *)
(* changed is later than the one it has on record.  The process may die    *)
(* between any two awaits; the Mailbox that is made of the row after that  *)
(* has to find its way back to the folder.                                 *)
(*                                                                         *)
(* One command is at work at a time; which commands may run together is    *)
(* the matter of MailboxScheduler, and what they do to the numbers of the  *)
(* messages that of MailboxNumbering.  Flags are MH sequences; here these  *)
(* are `unseen', which is the opposite of \Seen, and `Deleted'.            *)
(***************************************************************************)
EXTENDS MHFolder

CONSTANTS
  InitialKeys,   \* the keys of the messages in the folder to begin with
  MaxMail,       \* bound on the messages there will ever be
  MaxTime,       \* bound on the clock, in seconds
  MaxStarts,     \* bound on how often the mailbox is activated
  PackLimit,     \* folder_size_pack_limit
  Stores         \* what STOREs may ask: a sequence, and whether to be in it

ASSUME StoreAssumption ==
  /\ IsFiniteSet(InitialKeys) /\ InitialKeys \subseteq Nat \ {0}
  /\ MaxMail \in Nat /\ Cardinality(InitialKeys) <= MaxMail
  /\ MaxTime \in Nat /\ MaxStarts \in Nat /\ PackLimit \in Nat \ {0}
  /\ Stores \subseteq [seq : {"unseen", "Deleted"}, in : BOOLEAN]

VARIABLES
  file,      \* the folder: which message is in the file with a key
  mhs,       \* the .mh_sequences file
  touched,   \* the second in which the folder or .mh_sequences was last changed
  now,       \* the clock, in seconds
  born,      \* how many messages there have been
  starts,    \* how often the mailbox was activated
  row,       \* the mailbox's row in the database, with its sequences
  mbox,      \* the Mailbox object: what the row has, index and optional_resync
  work,      \* what is under way on the mailbox, with its local variables
  owner,     \* history: the message each UID led to when it was first committed
  acked,     \* history: the flags that a STORE has reported as set or cleared
  torn,      \* history: an EXPUNGE, a pack or a resync was cut short
  lost       \* history: so was a pack, or a resync that took all messages for new

disk    == <<file, mhs, touched, now, born, starts>>
history == <<owner, acked, torn, lost>>
vars    == <<disk, row, mbox, work, history>>

-----------------------------------------------------------------------------
(* State formulae *)

Mails == 1..MaxMail

Seqs == {"unseen", "Deleted"}

NoSeqs == [s \in Seqs |-> {}]

Keys == DOMAIN file

NewKey == Above(Keys)

\* The message with the key k; 0 if there is no such file.
Mail(k) == IF k \in Keys THEN file[k] ELSE 0

\* MH.get_sequences: keys without a file do not count.
FolderSeqs == [s \in Seqs |-> mhs[s] \cap Keys]

NoMbox == <<>>
NoRow  == <<>>

\* What commit_to_db writes.
Saved(m) ==
  [keys |-> m.keys, uids |-> m.uids, nextUid |-> m.nextUid, seqs |-> m.seqs,
   mtime |-> m.mtime, num |-> m.num]

\* The Mailbox that _restore_from_db makes of a row.
Restored(r) ==
  [keys |-> r.keys, uids |-> r.uids, nextUid |-> r.nextUid, seqs |-> r.seqs,
   mtime |-> r.mtime, num |-> r.num, index |-> Index(r.keys), optional |-> TRUE]

Down == [op |-> "down"]
Idle == [op |-> "idle"]
At(op) == work.op = op

\* What follows a resync: a look at whether to pack, or nothing.
After(next, anyNew) ==
  IF next = "start" \/ (next = "poll" /\ ~ anyNew) THEN [op |-> "packing", next |-> next] ELSE Idle

\* A resync takes every message for new: each gets its flags from the folder.
AllNew == At("noticed") /\ Range(work.new) = Range(work.scan)

\* An EXPUNGE has removed a message already.
Underway == At("expunging") /\ work.todo # work.victims

\* Mutant: the time is rounded up.
TouchRoundsUp == touched' = now + 1

\* The folder or .mh_sequences is written to; get_actual_mtime sees whole seconds.
Touch == touched' = now

\* The messages that the UIDs of m lead to.
Leads(m) ==
  LET good == {i \in DOMAIN m.uids : i \in DOMAIN m.keys /\ m.keys[i] \in Keys}
  IN [u \in {m.uids[i] : i \in good} |-> file[m.keys[CHOOSE i \in good : m.uids[i] = u]]]

\* The history of the UIDs goes on with what those of m lead to.
Recorded(m) ==
  owner' = [u \in DOMAIN owner \cup DOMAIN Leads(m) |->
             IF u \in DOMAIN owner THEN owner[u] ELSE Leads(m)[u]]

\* commit_to_db
Commit(m) ==
  /\ row' = Saved(m)
  /\ Recorded(m)

-----------------------------------------------------------------------------
StoreInit ==
  /\ file = [k \in InitialKeys |-> Rank(InitialKeys, k)]
  /\ mhs = [NoSeqs EXCEPT !["unseen"] = InitialKeys]
  /\ touched = 0 /\ now = 0
  /\ born = Cardinality(InitialKeys) /\ starts = 0
  /\ row = NoRow
  /\ mbox = NoMbox
  /\ work = Down
  /\ owner = <<>> /\ acked = {} /\ torn = FALSE /\ lost = FALSE

(* The world outside *)

Tick ==
  /\ now < MaxTime
  /\ now' = now + 1
  /\ UNCHANGED <<file, mhs, touched, born, starts, row, mbox, work, history>>

\* The mail system adds a message and marks it unseen.
Deliver ==
  /\ born < MaxMail
  /\ born' = born + 1
  /\ file' = Added(file, born + 1)
  /\ mhs' = [FolderSeqs EXCEPT !["unseen"] = @ \cup {NewKey}]
  /\ Touch
  /\ UNCHANGED <<now, starts, row, mbox, work, history>>

\* The process dies.
Crash ==
  /\ ~ At("down")
  /\ work' = Down /\ mbox' = NoMbox
  /\ torn' = (torn \/ At("packed") \/ Underway)
  /\ lost' = (lost \/ At("packed"))
  /\ UNCHANGED <<disk, row, owner, acked>>

(* A Mailbox comes and goes *)

\* A row with UIDs but no keys gets the first keys of the folder.
Migrated ==
  IF row.keys = <<>> /\ row.uids # <<>>
  THEN LET keys == SubSeq(Ascending(Keys), 1, Min({Cardinality(Keys), Len(row.uids)}))
       IN [row EXCEPT !.keys = keys, !.num = Len(keys)]
  ELSE row

\* Mailbox.new and _restore_from_db; `marked' is whether \Marked was on record.
Activate(marked) ==
  /\ At("down")
  /\ starts < MaxStarts /\ starts' = starts + 1
  /\ IF row = NoRow
       THEN LET fresh == [keys |-> <<>>, uids |-> <<>>, nextUid |-> 1, seqs |-> FolderSeqs,
                          mtime |-> touched, num |-> 0]
            IN /\ row' = [fresh EXCEPT !.num = Cardinality(Keys)]
               /\ mbox' = Restored(fresh)
               /\ work' = [op |-> "restored", optional |-> FALSE]
       ELSE /\ mbox' = Restored(Migrated)
            /\ work' = [op |-> "restored", optional |-> ~ marked]
            /\ UNCHANGED row
  /\ UNCHANGED <<file, mhs, touched, now, born, history>>

\* Mailbox.shutdown
Stop ==
  /\ At("idle")
  /\ Commit(mbox)
  /\ mbox' = NoMbox /\ work' = Down
  /\ UNCHANGED <<disk, acked, torn, lost>>

(* check_new_msgs_and_flags *)

\* Up to its first await after reading the keys.
Check(next, optional) ==
  /\ IF touched <= mbox.mtime /\ mbox.optional /\ optional
       THEN /\ work' = After(next, FALSE)
            /\ UNCHANGED mbox
       ELSE /\ work' = [op |-> "scanned", next |-> next, scan |-> Ascending(Keys),
                        start |-> touched]
            /\ mbox' = [mbox EXCEPT !.optional = TRUE]
  /\ UNCHANGED <<disk, row, history>>

CheckAtStart       == At("restored") /\ Check("start", work.optional)
CheckInPoll        == At("idle") /\ Check("poll", TRUE)
CheckBeforeCommand == At("idle") /\ Check("command", TRUE)
CheckInAppend      == At("appended") /\ Check("append", FALSE)

\* Nothing is new: the mtime is recorded, the rest if \Marked has changed.
FindNothing(full) ==
  /\ At("scanned")
  /\ work.scan = mbox.keys /\ Len(mbox.uids) = mbox.num
  /\ mbox' = [mbox EXCEPT !.mtime = work.start]
  /\ IF full THEN Commit(mbox')
             ELSE row' = [row EXCEPT !.mtime = work.start] /\ UNCHANGED owner
  /\ work' = After(work.next, FALSE)
  /\ UNCHANGED <<disk, acked, torn, lost>>

\* Mutant: nothing is too odd to go on with.
TrustedAlways == mbox

\* The mailbox as the rest of the resync takes it.  With fewer messages in the
\* folder, or not a UID for every key, it is treated as a new mailbox; of too
\* many UIDs the last ones are kept, or all of them if there are no keys.
Trusted ==
  IF Len(work.scan) < mbox.num \/ Len(mbox.uids) < Len(mbox.keys)
  THEN [mbox EXCEPT !.keys = <<>>, !.uids = <<>>, !.num = 0, !.seqs = NoSeqs,
                    !.mtime = work.start]
  ELSE [mbox EXCEPT !.uids = IF mbox.keys = <<>> THEN @
                             ELSE SubSeq(@, Len(@) - Len(mbox.keys) + 1, Len(@))]

\* Mutant: UIDs are counted on from the messages that are left.
FindMailCounting ==
  /\ At("scanned")
  /\ ~ (work.scan = mbox.keys /\ Len(mbox.uids) = mbox.num)
  /\ LET new     == Ascending(Range(work.scan) \ Range(Trusted.keys))
         first   == Len(Trusted.uids) + 1
         newUids == [i \in DOMAIN new |-> first + i - 1]
         keys    == Trusted.keys \o new
     IN /\ mbox' = [Trusted EXCEPT !.keys = keys, !.uids = @ \o newUids, !.index = Index(keys),
                                   !.nextUid = first + Len(new)]
        /\ work' = [op |-> "noticed", next |-> work.next, scan |-> work.scan,
                    new |-> new, marks |-> FolderSeqs]
  /\ UNCHANGED <<disk, row, history>>

\* New messages get the next UIDs; their sequences are read from the folder.
FindMail ==
  /\ At("scanned")
  /\ ~ (work.scan = mbox.keys /\ Len(mbox.uids) = mbox.num)
  /\ LET new     == Ascending(Range(work.scan) \ Range(Trusted.keys))
         newUids == [i \in DOMAIN new |-> mbox.nextUid + i - 1]
         keys    == Trusted.keys \o new
         uids    == Trusted.uids \o newUids
     IN /\ mbox' = [Trusted EXCEPT !.keys = keys, !.uids = uids, !.index = Index(keys),
                                   !.nextUid = IF uids = <<>> THEN @ ELSE Last(uids) + 1]
        /\ work' = [op |-> "noticed", next |-> work.next, scan |-> work.scan,
                    new |-> new, marks |-> FolderSeqs]
  /\ UNCHANGED <<disk, row, history>>

\* mbox with the sequences of the first n new messages.
Marked(n) ==
  LET done == {work.new[i] : i \in 1..n}
  IN [mbox EXCEPT !.seqs = [s \in Seqs |-> (@[s] \ done) \cup (work.marks[s] \cap done)]]

\* The sequences of all of them are known, and .mh_sequences is written.
MarkMail ==
  /\ At("noticed")
  /\ mbox' = Marked(Len(work.new))
  /\ mhs' = mbox'.seqs /\ Touch
  /\ work' = [op |-> "written", next |-> work.next, scan |-> work.scan]
  /\ UNCHANGED <<file, now, born, starts, row, history>>

\* The clients have been told; the mtime is read again.
Noted == [mbox EXCEPT !.num = Len(work.scan), !.mtime = touched]

CommitMail ==
  /\ At("written")
  /\ mbox' = Noted
  /\ Commit(mbox')
  /\ work' = After(work.next, TRUE)
  /\ UNCHANGED <<disk, acked, torn, lost>>

\* How far a resync is when it ends before its commit.
CutCheck ==
  \/ At("noticed") /\ \E n \in 0..Len(work.new) : mbox' = Marked(n)
  \/ At("written") /\ mbox' = [mbox EXCEPT !.num = Len(work.scan)]
  \/ ~ At("noticed") /\ UNCHANGED mbox

\* A message cannot be read, or the clients not be told.  A Mailbox that is
\* only being made is given up; any other goes on with what it has.
CheckFails ==
  /\ work.op \in {"noticed", "written"}
  /\ IF work.next = "start"
       THEN mbox' = NoMbox /\ work' = Down /\ UNCHANGED <<torn, lost>>
       ELSE CutCheck /\ work' = Idle /\ torn' = TRUE /\ lost' = (lost \/ AllNew)
  /\ UNCHANGED <<disk, row, owner, acked>>

(* _pack_if_necessary *)

TooSmall == mbox.num < PackLimit

NoPack ==
  /\ At("packing")
  /\ TooSmall \/ (mbox.keys # <<>> /\ mbox.num * 10 > Last(mbox.keys) * 8)
  /\ work' = Idle
  /\ UNCHANGED <<disk, row, mbox, history>>

\* IndexError: caught in a poll, the end of a task that is only starting.
PackRaises ==
  /\ At("packing")
  /\ ~ TooSmall /\ mbox.keys = <<>>
  /\ work' = IF work.next = "poll" THEN Idle ELSE [op |-> "dead"]
  /\ UNCHANGED <<disk, row, mbox, history>>

\* Mutant: the sequences keep the keys from before.
PackKeepsKeys ==
  /\ At("packing")
  /\ ~ TooSmall /\ mbox.keys # <<>> /\ mbox.num * 10 <= Last(mbox.keys) * 8
  /\ file' = Packed(file)
  /\ Touch
  /\ mhs' = [s \in Seqs |-> mbox.seqs[s] \cap DOMAIN file']
  /\ mbox' = [mbox EXCEPT !.keys = Ascending(DOMAIN file'), !.seqs = mhs',
                          !.index = Index(Ascending(DOMAIN file'))]
  /\ work' = [op |-> "packed"]
  /\ UNCHANGED <<now, born, starts, row, history>>

Pack ==
  /\ At("packing")
  /\ ~ TooSmall /\ mbox.keys # <<>> /\ mbox.num * 10 <= Last(mbox.keys) * 8
  /\ file' = Packed(file)
  /\ mhs' = [s \in Seqs |-> {Rank(Keys, k) : k \in mbox.seqs[s] \cap Keys}]
  /\ Touch
  /\ mbox' = [mbox EXCEPT !.keys = Ascending(DOMAIN file'), !.seqs = mhs',
                          !.index = Index(Ascending(DOMAIN file'))]
  /\ work' = [op |-> "packed"]
  /\ UNCHANGED <<now, born, starts, row, history>>

Repacked == [mbox EXCEPT !.mtime = touched]

CommitPack ==
  /\ At("packed")
  /\ mbox' = Repacked
  /\ Commit(mbox')
  /\ work' = Idle
  /\ UNCHANGED <<disk, acked, torn, lost>>

(* STORE *)

\* The message with the key k is put into, or taken out of, the sequence s.
Store(k, s, in) ==
  /\ At("idle")
  /\ [seq |-> s, in |-> in] \in Stores
  /\ k \in Range(mbox.keys)
  /\ mbox' = [mbox EXCEPT !.seqs[s] = IF in THEN @ \cup {k} ELSE @ \ {k}]
  /\ mhs' = mbox'.seqs /\ Touch
  /\ work' = [op |-> "stored", flag |-> [mail |-> Mail(k), seq |-> s, in |-> in]]
  /\ acked' = {a \in acked : a.mail # Mail(k) \/ a.seq # s}
  /\ UNCHANGED <<file, now, born, starts, row, owner, torn, lost>>

CommitStore ==
  /\ At("stored")
  /\ Commit(mbox)
  /\ acked' = acked \cup {work.flag}
  /\ work' = Idle
  /\ UNCHANGED <<disk, mbox, torn, lost>>

(* APPEND *)

\* The message is added, and .mh_sequences written with what mbox knows.
AppendMail ==
  /\ At("idle")
  /\ born < MaxMail
  /\ born' = born + 1
  /\ file' = Added(file, born + 1)
  /\ mbox' = [mbox EXCEPT !.seqs["unseen"] = @ \cup {NewKey}]
  /\ mhs' = mbox'.seqs /\ Touch
  /\ work' = [op |-> "appended"]
  /\ UNCHANGED <<now, starts, row, owner, acked, torn, lost>>

(* EXPUNGE *)

StartExpunge ==
  /\ At("idle")
  /\ LET victims == mbox.seqs["Deleted"]
     IN /\ victims # {}
        /\ \A k \in victims : k \in DOMAIN mbox.index /\ mbox.index[k] <= Len(mbox.uids)
        /\ work' = [op |-> "expunging", victims |-> victims, todo |-> victims]
  /\ UNCHANGED <<disk, row, mbox, history>>

\* The message leaves the lists by its position in the index.
Dropped(k) ==
  [mbox EXCEPT !.keys = RemoveAt(@, mbox.index[k]), !.uids = RemoveAt(@, mbox.index[k]),
               !.num = @ - 1]

\* The next message, from the highest key, goes.
ExpungeOne ==
  /\ At("expunging") /\ work.todo # {}
  /\ LET k == Max(work.todo)
     IN /\ mbox.index[k] <= Len(mbox.keys) /\ mbox.index[k] <= Len(mbox.uids)
        /\ k \in Keys
        /\ mbox' = Dropped(k)
        /\ file' = [j \in Keys \ {k} |-> file[j]]
        /\ acked' = {a \in acked : a.mail # file[k]}
        /\ work' = [work EXCEPT !.todo = @ \ {k}]
  /\ Touch
  /\ UNCHANGED <<mhs, now, born, starts, row, owner, torn, lost>>

\* The index is out of step, or there is no such file: the command fails.
ExpungeFails ==
  /\ At("expunging") /\ work.todo # {}
  /\ LET k == Max(work.todo)
     IN IF mbox.index[k] > Len(mbox.keys) \/ mbox.index[k] > Len(mbox.uids)
          THEN UNCHANGED mbox
          ELSE k \notin Keys /\ mbox' = Dropped(k)
  /\ work' = Idle
  /\ UNCHANGED <<disk, row, history>>

Expunged ==
  [mbox EXCEPT !.index = Index(mbox.keys), !.optional = FALSE,
               !.seqs = [s \in Seqs |-> @[s] \ work.victims]]

FinishExpunge ==
  /\ At("expunging") /\ work.todo = {}
  /\ mbox' = Expunged
  /\ Commit(mbox')
  /\ work' = Idle
  /\ UNCHANGED <<disk, acked, torn, lost>>

(* commit_to_db, half-way *)

\* What is committed when the step under way ends.
Due ==
  CASE At("written")   -> Noted
    [] At("packed")    -> Repacked
    [] At("expunging") -> Expunged
    [] OTHER           -> mbox

\* Sequences that have become empty are deleted from the row in a commit of
\* their own, together with the lists; the others follow in the next one.  (The
\* commits of a shutdown, and of a resync that finds nothing, are one step.)
CommitHalf ==
  /\ At("written") \/ At("packed") \/ At("stored") \/ (At("expunging") /\ work.todo = {})
  /\ \E s \in Seqs : row.seqs[s] # {} /\ Due.seqs[s] = {}
  /\ row' = [Saved(Due) EXCEPT !.seqs = [s \in Seqs |-> IF @[s] = {} THEN {} ELSE row.seqs[s]]]
  /\ Recorded(Due)
  /\ UNCHANGED <<disk, mbox, work, acked, torn, lost>>

(* COMMAND_TIMEOUT *)

\* A command is cancelled where it awaits something.
Cancel ==
  /\ \/ At("stored") \/ At("appended") \/ At("expunging")
     \/ work.op \in {"scanned", "noticed", "written"} /\ work.next = "append"
  /\ CutCheck
  /\ torn' = (torn \/ At("noticed") \/ At("written") \/ Underway)
  /\ lost' = (lost \/ AllNew)
  /\ work' = Idle
  /\ UNCHANGED <<disk, row, owner, acked>>

-----------------------------------------------------------------------------
CheckSteps ==
  \/ CheckAtStart \/ CheckInPoll \/ CheckBeforeCommand \/ CheckInAppend
  \/ \E full \in BOOLEAN : FindNothing(full)
  \/ FindMail \/ MarkMail \/ CommitMail \/ CheckFails

CommandSteps ==
  \/ \E k \in 1..MaxMail, s \in Seqs, in \in BOOLEAN : Store(k, s, in)
  \/ CommitStore
  \/ AppendMail
  \/ StartExpunge \/ ExpungeOne \/ ExpungeFails \/ FinishExpunge
  \/ Cancel

StoreNext ==
  \/ Tick \/ Deliver \/ Crash
  \/ \E marked \in BOOLEAN : Activate(marked)
  \/ Stop
  \/ CheckSteps
  \/ NoPack \/ PackRaises \/ Pack \/ CommitPack
  \/ CommandSteps
  \/ CommitHalf

StoreSpec == StoreInit /\ [][StoreNext]_vars

-----------------------------------------------------------------------------
(* Properties *)

Lists == [keys : Seq(Nat), uids : Seq(Nat), nextUid : Nat, seqs : [Seqs -> SUBSET Nat],
          mtime : Nat, num : Int]

StoreTypeOK ==
  /\ Keys \subseteq Nat /\ Range(file) \subseteq Mails
  /\ mhs \in [Seqs -> SUBSET Nat]
  /\ touched \in 0..now /\ now \in 0..MaxTime /\ born \in 0..MaxMail
  /\ row = NoRow \/ row \in Lists
  /\ IF At("down") THEN mbox = NoMbox
     ELSE Saved(mbox) \in Lists /\ Range(mbox.index) \subseteq Nat /\ mbox.optional \in BOOLEAN
  /\ Range(owner) \subseteq 0..MaxMail /\ torn \in BOOLEAN /\ lost \in BOOLEAN
  /\ \A a \in acked : a.mail \in 0..MaxMail /\ a.seq \in Seqs /\ a.in \in BOOLEAN

\* The message a UID of the mailbox leads to is the one it was committed for.
UidsLeadToOwners ==
  \A i \in 1..Len(mbox.uids) :
    i <= Len(mbox.keys) /\ mbox.keys[i] \in Keys /\ mbox.uids[i] \in DOMAIN owner =>
      owner[mbox.uids[i]] = file[mbox.keys[i]]

(***************************************************************************)
(* A UID means the same message for ever, through deliveries, packs,       *)
(* cancelled commands, crashes and restarts, as long as no EXPUNGE, pack   *)
(* or resync was cut short.                                                *)
(***************************************************************************)
UidMeansOneMessage == ~ At("down") /\ ~ torn => UidsLeadToOwners

(***************************************************************************)
(* A flag that a STORE has reported as set or cleared stays so for as long *)
(* as the message is there, whatever deliveries, resyncs, packs, EXPUNGEs, *)
(* crashes, failures and cancelled commands come after it.  Two cases are  *)
(* excepted (`lost'), and in both the code may move or lose such a flag: a *)
(* process that dies between a pack and its commit leaves a row with the   *)
(* keys from before the pack, and a resync that takes all messages for new *)
(* and is cut short leaves them without flags.                             *)
(***************************************************************************)
AckedFlagsStay ==
  At("idle") /\ ~ lost =>
    \A a \in acked, k \in Keys :
      file[k] = a.mail => (k \in mbox.seqs[a.seq] <=> a.in)

(***************************************************************************)
(* "At the end of this method call self.msg_keys will be up to date,       *)
(* self.uids will be up to date": after a resync that found something the  *)
(* lists are those of the folder, if neither an EXPUNGE nor a pack nor a   *)
(* resync was ever cut short.  After one that was, what the docstring says *)
(* need not hold: a row that an EXPUNGE has left with the keys of files    *)
(* that are gone keeps them, or has them out of order once new mail takes  *)
(* such keys.  Nor does this speak of mail that a resync does not look for *)
(* because it came in the second of the last one.                          *)
(***************************************************************************)
UpToDateAfterResync ==
  At("written") /\ ~ torn =>
    mbox.keys = work.scan /\ Len(mbox.uids) = Len(mbox.keys)

=============================================================================
