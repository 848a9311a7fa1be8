# A TLA+ model of asimap

asimap is an IMAP and POP3 server in Python (asyncio) whose messages live in
MH folders that the mail system writes to at the same time. This directory
models its concurrency: who is let in and gets a server process, how bytes
become commands, which commands run together on a mailbox, what message numbers
and UIDs mean while they do, what the clients are told of it, how mailboxes come
and go, and how the folder, the database and the program's memory are kept
together through deliveries, cancelled commands and crashes. TLC checks the
models on small instances; TLAPS proves the safety properties of the scheduler, the
message numbers, the store, the registry, the command reader, the read/write
lock, the front server's processes and the logins for any number of commands,
messages, crashes, names and connections.

File and line references are to `src/asimap/` unless another path is given.

## 1. The system

### Processes and tasks

`asimapd.py` starts one **front server** (`server.py`, `pop3_server.py`). It
takes connections, authenticates (`auth.py`, `hashers.py`, `throttle.py`) and
relays each session to a **user process** (`asimapd_user.py`, `user_server.py`),
one per user, through a local socket. In a process everything runs in one
asyncio event loop:

| process | task | one per | where |
|---|---|---|---|
| front | client task | connection | `server.py` IMAPClient, `pop3_server.py` |
| front | relay | session | `msgs_to_client` |
| front | watcher | user process | `subprocess_wait` |
| user | client task | session | `user_server.py` IMAPClientProxy, `client.py`, `pop3_client.py` |
| user | management task | active mailbox | `mbox.py` `management_task` |
| user | folder scan, expiry | process | `user_server.py` |

Tasks change places at `await` only, so code between two awaits is atomic. Two
awaits do not give way either: `Queue.get` on a queue that is not empty and an
asyncio lock that is free. The folder and the password file, by contrast, may
change at any moment, by the hand of another process.

### Components

| component | state | operations | talks to |
|---|---|---|---|
| **Login** (`auth.py`, `throttle.py`, `server.py` 811-870, `pop3_server.py`) | failures by user and address, `USERS` and its time stamp | `check_allow`, `login_failed`, `authenticate`, `set_password` | password file |
| **Process pool and lock** (`server.py` 100-260, 339-371, 900-1074, `utils.py` 110-266) | `USER_IMAP_SUBPROCESSES`, an upgradeable read/write lock, relays | find, start, watch, connect, relay, terminate | user processes |
| **Command framing** (`server.py` 494-661, `user_server.py` 200-320) | `ibuffer`, sizes, what is awaited | lines, literals, refusals, frames | client, user process |
| **Client session** (`client.py`) | state, selected mailbox, idling, `pending_notifications` | the IMAP commands, IDLE, timeouts | mailbox |
| **Notifications** (`mbox.py` 941-993, 1252, `client.py` 380-400) | `mbox.clients` | push, pend, send what is pending, select, unselect | client sockets |
| **Command scheduling** of a mailbox (`mbox.py` 345-823, `parse.py` 387-479) | `task_queue`, `executing_tasks`, `mgmt_task`, `deleted`; a command's `ready`, `completed`, `msg_set_as_set` | `ready_and_okay`, `would_conflict`, `command_can_proceed`, `management_task`, `shutdown` | client tasks, through the queue and the event |
| **Message numbers and UIDs** (`mbox.py` 995-1275, 1983-2800) | `msg_keys`, `uids`, `next_uid`, `_msg_key_to_idx`, `_uid_to_idx`, the Deleted sequence | resync, EXPUNGE, MOVE, COPY, STORE, APPEND, FETCH | scheduler; clients |
| **Persistence** (`mbox.py` 1338-1745, `mh.py`, `db.py`) | the folder, `.mh_sequences`, the rows, mtimes | activation, resync, pack, commit, STORE, APPEND, EXPUNGE | mail system; SQLite |
| **Registry of active mailboxes** (`user_server.py` 900-1290, `mbox.py` 286-372, 2833-3518) | `active_mailboxes`, activation events, the UID validity counter | `get_mailbox`, CREATE, DELETE, RENAME, scans, expiry, `__del__` | database, folders |
| **POP3 session** (`pop3_client.py`) | snapshot of INBOX, marked messages | STAT LIST RETR DELE RSET QUIT | INBOX |
| **Message sets and search** (`utils.py` 533-612, `search.py`, `mbox.py` `msg_set_to_msg_seq_set`) | none | resolve a set, match a key, COPYUID | the commands |
| **Fetch**, **parser**, **entry points** | none of their own | formatting, parsing, start-up | |

### What is hard

* Commands from several clients overlap on one mailbox by a table of conflicts
  that is looked at from the newcomer's side only.
* A message number is a position in a list that EXPUNGE shortens step by step,
  with awaits between the steps, while other commands hold positions, POP3
  sessions hold a snapshot, and clients have yet to be told.
* What a command works on is computed when it is taken off the queue, not when
  it runs.
* Three copies of the same facts (folder, database, memory) are updated one
  after the other, with awaits in between at which the process may die or the
  command be cancelled; the folder is changed by others, and changes are found
  through mtimes of whole seconds.
* Walking over clients with an await per client, while clients come and go and
  some do not read.
* Mailboxes that are activated, expire, are deleted and made again while others
  wait for them, with a finalizer that acts whenever the last reference goes.
* User processes that die while sessions are handed to them, or are started
  while the front server stops.
* A failure of the one management task of a mailbox is every client's problem.

`PROJECT.json` lists forty such hazards, each at its line, with the properties
that cover it or the reason why none does.

## 2. The modules

| module | models | lines of the code it is about | verification |
|---|---|---|---|
| `MessageLocks` | abstract: claims on a mailbox, held without clashing | | checked |
| `MailboxScheduler` | queue, management task, ready events, conflicts, shutdown | `mbox.py`, `parse.py` | checked, proved |
| `MailboxNumbering` | extends the scheduler with UIDs, tables and the commands | `mbox.py`, `client.py` | checked, proved |
| `MHFolder` | no state: a folder's keys, one file more, packed; a table of positions | `mbox.py` | proved about; checked within those below |
| `MailboxStore` | folder, `.mh_sequences`, row; crash and restart | `mbox.py`, `mh.py` | checked, proved |
| `ClientSession` | sessions on one mailbox, what each is told and makes of it | `client.py`, `mbox.py`, `user_server.py` | checked, proved |
| `MailboxRegistry` | names, folders, rows and Mailbox objects | `user_server.py`, `mbox.py` | checked, proved |
| `Pop3Session` | POP3 beside EXPUNGE, resync, pack and delivery | `pop3_client.py`, `mbox.py` | checked, proved |
| `CommandReader` | from bytes to frames to commands | `server.py`, `user_server.py` | checked, proved |
| `Selection` | message sets, search keys, COPYUID | `utils.py`, `search.py`, `parse.py`, `mbox.py` | checked against a reference definition |
| `Login` | throttling and the cached password file | `throttle.py`, `auth.py` | checked, proved |
| `ReadWriteLock` | the upgradeable lock | `utils.py` | proved; checked within `FrontServer` |
| `FrontServer` | one user's process, the sessions relayed to it, the stop | `server.py`, `pop3_server.py` | checked, proved |
| `...Proofs` | the theorems about a module (`MailboxProofs`: about the scheduler and the numbering; `SessionProofs`: about the sessions and the command reader; `FrontServerProofs`: about the lock, too; `MHFolderProofs`: lemmas) | | |
| `MC...` | requests and constants for TLC | | |

`MailboxNumbering` EXTENDS `MailboxScheduler`: each of its actions carries a scheduler
action along or is a step of a running command. `FrontServer` INSTANCEs
`ReadWriteLock` with its connections and the stopping server as the tasks, and so
runs the lock's own actions. `MailboxScheduler` INSTANCEs `MessageLocks` for the refinement.
`MailboxStore` and `Pop3Session` EXTEND `MHFolder`.
The other modules take what they need of a neighbour as nondeterminism, in a
wider sense than the neighbour has it, as their headers say: `ClientSession`, for one,
lets sharing commands run together whatever their messages.

### MailboxScheduler and MessageLocks

An element of `Cmds` is an `IMAPClientCommand`. `phase` is where its client
task is: waiting in `ready_and_okay`, running its body, or completed. `pc[t]` is
where a management task stands: `start` (before the loop), `get` (in
`task_queue.get()`), `conflict` (polling in `command_can_proceed`), `resync`
(in `check_new_msgs_and_flags`), `done`. Each action is the code between two
awaits:

| action | code |
|---|---|
| `Issue` | `task_queue.put_nowait`, then wait for `ready` |
| `Wake`, `Refuse` | after the wait: run, or raise NoSuchMailbox if `deleted` |
| `Complete`, `Timeout` | the `finally` of `ready_and_okay` that sets `completed` |
| `Take`, `TakeBad` | the queue gave a command: resolve its set, or Bad |
| `Join` | no conflict and others run: append and signal |
| `BeginResync`, `EndResync`, `ResyncFails` | nobody runs: resync, then append and signal; an exception is logged and the command in hand forgotten |
| `Poll` | `queue.get()` times out |
| `TaskReturns` | the exceptions on which the task returns for good |
| `Shutdown`, `MakeNoselect`, `Recreate` | `shutdown`, DELETE and CREATE of a `\Noselect` mailbox |

The message set a command resolves to and whether anything is `\Deleted` are
free inputs here, which is why the theorems hold whatever the commands do.
`WouldConflict` is the match statement of `would_conflict`, arm by arm.

`MessageLocks` says the same in five lines: a holder is granted a claim that
clashes with none that is held. Its `Clash` is symmetric by definition, while
the code looks at the table from one side; that one implements the other is
the content of `ImplementsMessageLocks`. The mapping takes the commands in
`executing_tasks` that have not completed as the holders.

### MailboxNumbering

A message is its UID. The tables `_uid_to_idx` and `_msg_key_to_idx` always
change together and are one variable, `index`. EXPUNGE is `Begin` (compute
`to_delete`), one `ExpungeOne` per message (there is an await after each) and
`Finish` (rebuild, drop the flags). MOVE copies as a solitary command, gives the
mailbox up, and sends an EXPUNGE for what it copied (`SendMoveExpunge`). FETCH
and the reading half of COPY go message by message. `CheckNew` is the resync: new
UIDs go on from the last of the list, as in the code, not from `next_uid`. In
`ExpungeFails` the removal of a file or a push to a client raises: the message is off
the list, tables and flags stay as they were. `cut` remembers it; whom the next
EXPUNGE then removes, or that it raises, follows from the stale tables (`ToDelete`, `LookedUp`).

### MailboxStore

One command at a time, but all of its awaits: `work` holds what is under way
and its local variables. The folder is `file` (key to message) and `mhs`
(`.mh_sequences`); `touched` is the whole second of its last change, which is all
that `get_actual_mtime` sees. `row` is what the database has, `mbox` what the
object has. `Deliver`, `Tick` and `Crash` may happen at any step. A delivery is
that of MH tools: the key above the highest, and the `unseen` sequence read,
extended and written back. Of the flags there are `unseen` and `Deleted`.
In `CheckFails` a resync, be it an APPEND's, raises between what it noticed and what it writes,
and in `CommitHalf` a commit stops at the half that `commit_to_db` makes permanent. `owner` remembers
which message a UID led to when the database first recorded it, `acked` which
flags a STORE has committed, `torn` whether an EXPUNGE, a pack or a resync was cut in two, `lost`
whether that was one of the two cuts that cost flags: between a pack and its commit, and in a
resync that takes every message for new.

### ClientSession

`req` and `stage` are the command of a session and where its client task is: it
waits for the mailbox, works, walks over the clients, or blocks in `drain()`.
`walks` holds each walk over `mbox.clients`, of a session or of the management
task, with whom it has been at (`done`) and the two counts of a dict's iterator
(`size`, `left`): it raises when the dict has another size, and also when it
finds an entry though it expects none, as after one session left and another
came in. `pending` is
`pending_notifications`, `sent` what of it is already written when `drain()`
blocks. What a client believes is not in the code: `view` is the list of
messages that follows from the responses so far, `Unknown` where a UID was not
told. `Hear` shortens and lengthens it as a client would. A client to whom
something was pushed past its pending EXPUNGEs, or was not told at all, becomes
`adrift`, at the very lines that do it.

### MailboxRegistry

A Mailbox is an object of `Objects`, taken when it is constructed and given back
by `Collect` when nothing refers to it, which runs `Mailbox.__del__`. `proc` is
where each task is in `get_mailbox` (as owner of the activation event or as a
waiter), in CREATE, DELETE, RENAME, or in one of the two scans. RENAME is
followed through its directory link: `link`, `rename`, `switch`, `unlink`. CREATE, DELETE
and RENAME then get the mailboxes of the parents (`Parent`), which may activate them
(`Made`, `Moved`, `Unregister`). RENAME is the one to keep `active_mailboxes_lock` over an
await (`Locked`): a new mailbox whose management task has begun waits for it
(`registering`), and so does everyone who strikes a mailbox off. A mailbox that the check of the
folders finds gone is removed (`stale`), whether it is active or the activation says NoSuchMailbox.
`disputed` marks the names with which a RENAME, the check for vanished folders
or a finalizer has meddled.

### Pop3Session

A session copies `msg_keys` and `uids` in `init_session`; `do_quit` calls
`Mailbox.expunge` with the UIDs it marked. The resync is cut at its awaits
(`Scan`, `FindMail`, `CountMail`, then `Pack` or `NoPack`), and so is `expunge` (`Start`, `TakeOut`,
`RemoveFile`, `Finish`), which runs for QUIT and, through the queue, for IMAP. What the code does
between two awaits goes to its end first: `running` is who is on such a stretch, as from
`Start`, where `to_delete` is computed, to the first removal, and nobody else moves (`LoopFree`).
RETR, TOP and UIDL change nothing. `condemned` is what was to be removed, `met` whether a
QUIT had anything beside it, `anew` whether a resync gave messages that had
UIDs others.

### CommandReader

A byte, a CRLF and the prefix of a literal are units of the wire. `reader` is
what `IMAPClient.start` awaits: a line, a literal, or the rest of a refused line
(`drain`). The client sends a command line by line, literals of either kind
included, waits for "+" where it must, and may hang up anywhere. A line beyond the
`StreamReader`'s limit (`StreamLimit`) raises, and the connection is closed without a word (`LineTooLong`). `pipe` is the
frames to the user process.

### Selection

A request and its answer per step, on a mailbox that is given. The operators
follow `sequence_set_to_list`, the parser's `_p_search_key` and the `_match`
methods of `IMAPSearch`; `Meant` and `InSet` say independently, from the meaning
of the words, what should be found.

### Login, ReadWriteLock, FrontServer

`Login` cuts an attempt where it awaits: the ten seconds for who failed too often, the
`stat` of the password file, its opening and reading, the hash; an OSError there ends the
connection (`FileFails`). A version of the file stands for contents and mtime: each write is
taken to have a later mtime than those before it. `ReadWriteLock` has one action per stretch
between two awaits of `read_lock` and `write_lock`; `writer` holds the lock of
the condition while it writes, which is what keeps others out. In `FrontServer` a process
is a number (its port); `handle` is the `IMAPSubprocess`; `conn` has for each
connection the point in `get_and_connect_subprocess`, its relay, and whether each
end is open. `Start` and `Spawn` are the two sides of the await of
`create_subprocess_exec`, so that only the lock keeps two logins from starting two.

## 3. The runs

Every passing run completes; each property was confronted with a mutated
definition (the operators commented `Mutant`) that breaks it.

| run | question | instance |
|---|---|---|
| `scheduler_safety` | `Exclusion`, `NobodyOnDeleted`, the inductive `SchedulerInv` (with types), the refinement `ImplementsMessageLocks`, under every failure of the management task and a DELETE | 3 commands of 8 sorts, 2 messages, 1 task |
| `scheduler_liveness` | `NothingForgotten`, `LetInOnce`, `Answered`, with a DELETE to `\Noselect` and a CREATE that starts a second management task | 3 commands, 2 sorts, 2 tasks |
| `numbering` | `TablesInStep`, `GrowsAlone`, `RemovesItsVictims`, the inductive `NumberingInv`; EXPUNGEs may fail half-way | 3 commands, 2 messages, 3 UIDs |
| `store` | `UidMeansOneMessage`, `AckedFlagsStay`, `UpToDateAfterResync`, with crashes, failures and cancellations | 3 messages, 2 seconds, 3 activations, packs from 1 message on |
| `sessions` | `InStep`, `RightMessage`, `ExpungesInPlace` | 2 clients, 18 commands to choose from, 3 reads, 3 UIDs |
| `registry` | `OneMailboxPerName`, `ServedIsRegistered`, `NobodyForgotten` | 2 tasks, 3 calls, 3 names, 3 objects |
| `pop3` | `UnmarkedStaysAlone`, `NoPhantom`, `OkMeansGone` | 1 session, an IMAP EXPUNGE, 3 messages, of which one is there at first, above a gap; packs from 1 on |
| `pop3_quit` | refutes `UnmarkedStays` | the same, but all three messages are there at first, with keys 1, 2, 3 |
| `commands` | `WholeCommands`, `FitsFrame`, `Answered` | 2 commands of up to 2 literals of 0, 2 or 5 bytes, limit 4; stretches of text of up to 2, limit on a line 2 |
| `selection` | `FindsWhatIsMeant` | 19 mailboxes of up to 3 messages, sets of up to 2 elements, keys of depth 2 and some of 3 |
| `login` | `FailuresBounded`, `CacheNotAhead`, `CheckedByFile` | IMAP and POP3 from one address, 2 users, 2 versions of the file, limits 1 and 2 |
| `frontserver` | `OneServerPerUser`, `NoOrphan`, `Settles` | 1 IMAP and 2 POP3 connections, 2 logins, 2 processes |

Each module's type invariant is in its run as well.

### What the properties say

* `Exclusion`: no two commands that clash run together. `NobodyOnDeleted`: who is let in
  on a mailbox that is gone does not work on it. `NothingForgotten`: while the mailbox
  lasts, a waiting command is on the queue, in a hand, or signalled. `LetInOnce`: two
  management tasks on one queue do not both let one in. `Answered`: a command gets
  its answer, unless the mailbox is deleted under it.
* `TablesInStep`: positions looked up are right, except while an EXPUNGE is at work
  and once one has failed half-way.
  `GrowsAlone`: messages appear only when nothing but an APPEND runs.
  `RemovesItsVictims`: each removal takes one of the messages EXPUNGE set out to
  remove, though the list shortens under its positions, until an EXPUNGE fails half-way.
* `UidMeansOneMessage`: through deliveries, packs, crashes and restarts, unless something was
  `torn`. `AckedFlagsStay`: what a STORE has reported is not undone by a resync, a pack, a
  crash, a failure or a cancelled command, save by the two that are `lost`: a crash between a pack and its
  commit moves such flags to other messages, and a resync that takes every message for new loses them if it is cut short.
  `UpToDateAfterResync`: as the docstring of `check_new_msgs_and_flags` has it, but only while
  nothing was `torn`: a row that a cut EXPUNGE, pack or resync left may list what the folder
  has not, or in another order, and then the docstring is wrong. Mail that came in the second of the last
  look is not looked for, and the property does not speak of it.
* `InStep`: what a client has been told, with what it is owed, gives the mailbox's
  list, and no response contradicts an earlier one. `RightMessage`: FETCH, STORE and
  SEARCH by number work on the message that the *client* has under the number, unless an EXPUNGE of
  it, or of a lower number, became pending for the client while the command waited: they look for pending EXPUNGEs
  before they wait (`client.py` 1428, 1514, 1381) and not after, and then work on another message.
  `ExpungesInPlace`: EXPUNGE is sent only where IMAP allows it to be.
* `OneMailboxPerName`: two objects never hand out UIDs for one name.
  `ServedIsRegistered`: a mailbox that is served can be found, under its name only, unless the
  name is `disputed` or its activation still waits for the lock that RENAME keeps.
  `NobodyForgotten`: who waits for an activation waits for a task that is at it.
* `UnmarkedStaysAlone`: QUIT by itself removes only what was marked, however old its
  snapshot. `NoPhantom`: after it the mailbox lists no message that is not there.
  `OkMeansGone`: after +OK what was marked is gone, unless QUIT had company or all
  messages were given new UIDs.
* `WholeCommands`: a frame is one whole command of the client. `FitsFrame`: what the front
  server lets pass, the user process accepts; the two count differently.
  `Answered` (of `CommandReader`): reader and client never wait for each other: the client is heard or
  hung up on.
* `FindsWhatIsMeant`: a search finds what its keys mean, a set is resolved or refused
  rightly, and COPYUID pairs each message with its own copy.
* `FailuresBounded`: attempts that are under way while others fail do not get past the
  limit by more than there are connections. `CacheNotAhead`, `CheckedByFile`: nobody is
  let in by a password or a name that was gone when the attempt began, if mtimes grow with each write.
* `OneServerPerUser`; `NoOrphan`: no process outlives the front server. `Settles`: every
  login comes to an end, and a session whose process died is closed.

### Bounds

A conflict is between two commands, and a third is needed for one that
completes or joins in between; the rows of the table differ only in whether two
message sets meet, for which two messages suffice. APPEND, CHECK, MOVE and
RENAME are treated by the scheduler as DELETE is, CLOSE as EXPUNGE, STATUS,
SELECT and EXAMINE as NOOP, so one of each stands for the rest (the proofs
cover all kinds). Three UIDs let a message arrive, one be removed and one stay.
In the store, one key with a gap below it lets the folder be packed at once; of
three messages one is known, one unnoticed and one appended; two seconds let a
change share, or not share, the second of the last look. Two runs have a constraint, `MCFollowed`, on what
follows a failure. In `store`, what was `lost` is followed no further, and what was `torn` for two activations
and with a flag reported: what is claimed there is `AckedFlagsStay`. In `numbering`, after an EXPUNGE
has failed half-way one command is in progress at a time and no MOVE is pending: only
`NumberingInv`'s UIDs and types are claimed there, but the failures of the next EXPUNGE are part of the model.
Of two sessions one mostly watches and one mostly changes the mailbox; three
commands are a SELECT or IDLE, a change, and a command under way
meanwhile. Two tasks race for one name; three objects are a mailbox, its
successor and a nested one; the counter of UID validities goes to 4. POP3: a message to mark, above a gap
so that it may be packed, and two that arrive. In `pop3_quit` EXPUNGE has one to remove, QUIT has one
marked, and a third is there to be hit. Commands: 5 exceeds the limit of 4, 0 and 2 do not by themselves; two literals make
a synchronizing one follow another kind; text of 2 and a prefix, or the body of a refused literal, is a
line over the stream's limit of 2. Logins: the limits are small enough
that both are passed. Two logins and two processes: one to die and one to be
started instead, and two logins to race for it.

`CHECK_DEADLOCK FALSE` is there because bounded instances stop: a task may have
returned, a client be gone, or a bound be reached. `scheduler_liveness`, `login` and
`selection` do check.

### Fairness

*Scheduler*: weak fairness of each task's steps, as the event loop runs a task that
can run; that a running command completes is COMMAND_TIMEOUT's doing. Nothing
is asked of clients, and no fault is made to happen. `Answered` relies on the queue
being first in, first out and on the management task holding on to the command
in its hand: newcomers wait behind it and those before it run out.
*Command reader*: the two servers go on, and a client reads what it is sent;
it need not send.
*Front server*: each connection's own steps and the stop are fair; the
process is not asked to serve or to die (`start` and `has_port.wait()` have
timeouts of their own, which is why `StartFails` and `HasPort` may happen at any time),
nor the client to do anything.

### Disagreements between the code and what it says

`pop3_quit` is a run of its own and in `PROJECT.json` under `findings`, with the line it
contradicts: QUIT calls `Mailbox.expunge` outside the queue of commands. The trace: an
EXPUNGE has taken the first of three messages off the lists and waits for its file to be removed;
the tables are not rebuilt yet. QUIT, with that message marked, finds it in them at the first position, where
the second message is by now, and removes that one's file.

The models have more behaviours that contradict a comment or what a client may
expect. The properties above name what they set aside for them (`torn`, `lost`, `cut`, `adrift`,
`disputed`, `met`, `anew`, `late`, `overrun`).

*Scheduling and numbers.*
CREATE on a `\Noselect` mailbox starts a second management task on the same queue, and
each lets in what conflicts with the other's (`mbox.py` 2873; `parse.py` 210: a resync is done
"since they are the sole task executing against a mailbox").
`shutdown` signals the commands on the queue but not the one in the task's
hand, which waits for its timeout.
A number beyond the mailbox raises Bad in the management task, which forgets
the command (814).
A UID command taken off the queue while an EXPUNGE runs keeps the numbers of
before (768).
EXPUNGE is let in beside others if nothing is `\Deleted`, and removes what a
running STORE flags right after (429, against 2079 "Since the expunge must operate alone").
UID EXPUNGE passes sequence numbers where UIDs are due, and no restriction at
all if there are none (`client.py` 1344, `mbox.py` 2001).
An EXPUNGE that fails half-way, in `aremove` or in a push to a client (2096-2098), leaves the look-up tables and
the Deleted sequence as they were: the next one removes another message, or raises IndexError.
`time.time()` is compared with `time.monotonic()`, so overlapping commands put the
check for mail off for ever (589, 1038).

*Persistence.*
A process that dies between a pack and the commit after it leaves a row with the keys from before:
flags move to other messages, reported ones included, and UIDs lead elsewhere. A resync
that takes every message for new and is cut short has emptied the sequences in memory. After an EXPUNGE, a pack or
a resync that was cut, lists need not be "up to date" after the next resync (1015-1018).
Pack, resync, STORE and APPEND write the sequences in memory over those on disk: mail
that was not noticed yet is no longer unseen (1369, 2551).
An APPEND cut between writing the sequences and updating `num_msgs` lets
`next_uid` fall back to a UID that was used.
A crash before the first commit of a resync leaves a row with a count and no
keys, on which pack raises and the management task ends (1355).
A pack takes the key of mail that was not noticed yet into `msg_keys`, but gives it no UID
(1376). Once more mail arrives the resync finds more keys than UIDs, and takes the mailbox
for a new one: every message gets a new UID, under the same UID validity.

*Sessions.*
`do_fetch`, `do_store` and `do_search` look for pending EXPUNGEs before they wait for the mailbox
(`client.py` 1428, 1514, 1381) and not after it (1450, 1536, 1387): with one that came meanwhile they work on
another message than the client named.
`do_fetch` by number sends pending EXPUNGEs before its tagged answer (`client.py`
1477, against the comments at 388 and 712).
COPY and MOVE by number send pending EXPUNGEs and then act on other messages than
were meant (1597). `do_move` idles without sending what became pending meanwhile.
EXISTS is pushed past pending EXPUNGEs (`mbox.py` 1252).
A client that comes or goes during a walk, or does not read, raises in the
walker, and if that is the management task it ends. STORE, and FETCH without PEEK, change flags in a
mailbox that was EXAMINEd. A SELECT cut during its push leaves the session in `mbox.clients` without
a mailbox. DELETE leaves the session SELECTED with no mailbox, which later
ends in a BYE. The handlers of MailboxInconsistency in `do_store` and `do_search` set
`optional_resync` on the command handler instead of the mailbox. A syntax error ends the
connection (`user_server.py` 300).

*Registry.*
Two first activations may get one UID validity (`user_server.py` 926). The finalizer of a
deleted mailbox unregisters its successor (`mbox.py` 300). A failed activation
leaves its event for ever (1026), and a waiter that is woken may find the mailbox gone
again (1015). An activation through the link of a RENAME, or under the old
name, makes a second Mailbox; a RENAME that fails after the link leaves it. RENAME awaits the database
with `active_mailboxes_lock` held (3377-3381), so that a mailbox may be at work and not be found. RENAME
of INBOX replaces `msg_keys` and `uids` and leaves the look-up tables as they were (3449).
`copy` tidies the `executing_tasks` of the source where it waits for the destination's (2764).

*POP3.*
RETR, TOP and LIST use the keys of the snapshot: after a pack they show another
message. Mail between a resync's scan and its pack makes `msg_keys` longer than
`uids`; after the next resync the UIDs of the snapshot are nobody's, and QUIT leaves them out
and answers +OK (`anew`). A vanished message has size 0 for good.

*Front server.*
The throttle locks out after the fifth failure, the comment says four (`throttle.py` 47). A
`start` that fails after the process was made leaves `is_alive` set and `has_port` unset, or stale from an
earlier process, until that one ends; `has_port` is never cleared. The handle keeps the PWUser of the first login.
LOGIN's OK is sent before there is a process. A POP3 login that finishes after
the front server has terminated the processes starts one that stays (`late`).
A relay cancelled before its first step never closes its stream. `_want_write` stays raised if a
task is cancelled in `wait_for` (`utils.py` 248; nothing cancels one there now). The docstring of
`write_pwfile` says maildirs are relative, the code writes them as they are.

*Commands and sets.*
After a refused literal, a line is drained "so we stay in sync" (`server.py` 558) although its
terminator was read: the client's next command is lost. If the client sends a refused LITERAL+ all the same, its
body is read as part of that line. A line longer than `StreamReader`'s limit of 64 KiB closes the
connection without an answer (`server.py` 645). SEARCH takes
`4:2` for nothing and fails on `*:2`, while FETCH and STORE take either order
(`search.py` 420, `utils.py` 533). The grammar has UNDRAFT, the parser has not. COPY from
an empty mailbox raises IndexError.

## 4. What is proved

All by TLAPS, from the assumptions on constants that the modules state.

### The scheduler

`MailboxProofs`: for any finite or infinite `Cmds`, `MsgNums`,
`Requests` and, but for what the table says, any `Faults` and `Tasks`. `OneTask` is that
the mailbox has one management task.

| theorem | statement | provided |
|---|---|---|
| `InvariantHolds` | `Spec => []SchedulerInv` | `OneTask` |
| `TypeCorrect` | `Spec => []TypeOK` | `OneTask` |
| `ExclusionHolds` | `Spec => []Exclusion` | `OneTask`: two do break it |
| `ResyncAloneHolds` | `Spec => []ResyncAlone` | `OneTask` |
| `ImplementsLocks` | `Spec => ImplementsMessageLocks` | `OneTask` |
| `NobodyOnDeletedHolds` | `Spec => []NobodyOnDeleted` | `OneTask`, and the user's server does not stop: then commands do run on |
| `WaitingHolds` | `Spec => []WaitingInv` | |
| `LetInOnceHolds` | `Spec => []LetInOnce` | |
| `NothingForgottenHolds` | `Spec => []NothingForgotten` | none of `LossyFaults`, the exceptions on which the task drops what it has in hand |

`Exclusion` is not inductive: a command that runs must be known to be in
`executing_tasks`, since that is all that newcomers are compared with.
`SchedulerInv` adds to the types

* `LetInExecute`: who runs, or has been signalled and will run, is in
  `executing_tasks`;
* `ExecutingApart`: the uncompleted of `executing_tasks` do not clash;
* `QuietResync`: during a resync `executing_tasks` is empty;
* `OnePlace`: a command is on the queue once, or in a hand, or executing, never
  two of these, so that resolving the set of the command in hand changes the
  claim of nobody who executes;
* `HandFull`, `StartedTask`: bookkeeping on the program counter.

The proof has a lemma per action. The hard step is `Join`: from
`~ WouldConflict` for the newcomer it has to follow that no claim clashes in
either order, which is where the asymmetric table is found to be enough. The
refinement follows from the invariant: `Admit` is a `Grant`, completion of an
executing command a `Release`, everything else leaves the claims alone.

`NobodyOnDeleted` needs no strengthening but `SchedulerInv`: only a DELETE that runs
takes the mailbox away, it holds the claim `alone`, and so, by `Exclusion`, nobody else runs
(`DeleteRunsAlone`). The rest must not rest on `SchedulerInv`, which two tasks break.
`WaitingInv` says that a command is on the queue once or in one hand, not both, and not
signalled while it is there; that is inductive for any number of tasks because the
queue gives each command to one. That a waiting command is in one of these places or
signalled (`NothingForgotten`) is then kept by every step but the faulty ones.

### The message numbers

`MailboxProofs`, for any `Cmds` and `Requests`, any number of messages
and any `MaxUid` (`NumberingAssumption`), again with `OneTask`:

| theorem | statement |
|---|---|
| `NumberingSchedules` | `NumberingSpec => Spec` (no `OneTask` needed) |
| `NumberingInvHolds` | `NumberingSpec => []NumberingInv` |
| `UidsAscendHolds` | `NumberingSpec => []UidsAscend` |
| `TablesInStepHolds` | `NumberingSpec => []TablesInStep` |
| `GrowsAloneHolds` | `NumberingSpec => GrowsAlone` |
| `RemovesItsVictimsHolds` | `NumberingSpec => RemovesItsVictims` |

`NumberingSchedules` carries `SchedulerInv` over: whatever the commands do to the
messages, they are let in as the scheduler lets them in. On that rests the
rest, since the code relies on who runs beside whom: an EXPUNGE works with
positions it looked up once, which is right only if no second EXPUNGE and no
new mail gets in between. `NumberingInv` says what an EXPUNGE at work can count
on:

* `VictimsOfExpunge`: only a running EXPUNGE has victims, what it has yet to
  remove is among them, and they are flagged or were copied by its MOVE;
* `PositionsAhead`: the positions of the messages it has *yet* to remove are
  right in the shortened list, though those of messages that are gone are not;
  a flag is for a message that is there or one it has removed;
* `InStepAtRest`: without victims, table and flags are in step;
* `UidsAscend` and `RoomForUids`: the UIDs ascend and are below `next_uid`, and the bound leaves room for what arrived.

Once an EXPUNGE has failed half-way (`cut`), `UidsAscend`, `RoomForUids` and the types are what is left of
it, and what the positions are good for is no longer claimed. The step that matters is `ExpungeOne`. It removes from the highest UID down, so
every message still to be removed has a lower UID, by `UidsAscend` a lower
position, and keeps it; counting upwards (`ExpungeOneUpwards`) breaks
`PositionsAhead` at the second message. `ExpungeFailsNumbering` is the step that fails: positions taken
from stale tables may be anyone's, but what is left is still in order (`ExpungeShortens`). That two EXPUNGEs never work at once, and
that an APPEND finds nobody else at work, follows from `ExecutingApart`
(`OneExpunge`, `AppendAlone`). The lemmas on lists (`RemovedAt`,
`RemovedSorted`, `RebuiltLeads`) and on least and greatest elements are proved
in the same module.

### The store

`MailboxStoreProofs`, for any folder to begin with, any number of messages, seconds
and activations, any pack limit and any STOREs, and crashes at any step
(`StoreAssumption` is all):

| theorem | statement |
|---|---|
| `StoreTyped` | `StoreSpec => []StoreTypeOK` |
| `UidMeansOneMessageHolds` | `StoreSpec => []UidMeansOneMessage` |
| `UpToDateAfterResyncHolds` | `StoreSpec => []UpToDateAfterResync` |
| `AckedFlagsStayHolds` | `StoreSpec => []AckedFlagsStay` |

None is inductive: a UID that leads to the right message in memory may lead to
another after a crash. `StoreInv`, whose parts TLC checked on the instance of the run first, is in
three layers. `TypeInv` holds always, `ListInv` until something is `torn`, `FlagInv` until something is
`lost`: so the flags stay right with rows and lists that are not.

* `ListInv`: the lists of the Mailbox and those of the row, each by itself, are `Sound`:
  their keys are the *lowest* of the folder, in order, so that what the folder has more
  can only be new; their UIDs ascend and are below `next_uid`, and so is every UID
  ever committed; a UID that was committed leads to the message it led to
  then. `Counted`, that `num_msgs` is the number of UIDs or there is no list at all, is
  what keeps a resync that starts afresh from setting `next_uid` back. `ScanInv` has
  the same of what a resync has read, `ExpungeInv` that the positions of the
  messages yet to be removed are right, because the highest goes first.
* `FlagInv`: a flag that was reported is right in three places: in `.mh_sequences`, in
  the row, and with the Mailbox or in what a resync has read for it. Each may be
  what the Mailbox is next made of.

The row may be behind only during a pack and an EXPUNGE that has removed something
(`RowBehind`), and those are among the moments at which a crash makes the execution
`torn`: without that the row of the old keys would be `Sound` for another folder. A crash before the commit
of a pack makes it `lost` as well, since the row's flags are then those of other messages; the theorems
say nothing after it, as the code has nothing to offer there.
The hard steps are `Pack`, which renumbers all keys and with them every flag
(`Rank` is one to one on the keys, and keeps their order), and `FindMail` on a Mailbox that
it does not trust.

### The registry

`MailboxRegistryProofs`, for any tasks, objects, bounds and faults, and any tree of
finitely many names (`RegistryAssumption`).
`RegistryTyped`, `OneMailboxPerNameHolds`, `ServedIsRegisteredHolds`,
`NobodyForgottenHolds`, all from `RegistryInv`, which says what each task relies on over its
awaits (`TaskInv`): what it refers to is alive and has the name it was asked for by (`Refers`);
there is an event while it waits (`Waits`); what it makes is registered nowhere and known to nobody
(`Makes`); what RENAME and the finalizers meddle with is in `disputed` (`Meddles`);
what DELETE takes away is what it was let in by (`Deletes`). `PairInv` is about
two tasks: never do two activate one name, or hold one mailbox. An activation that waits for the lock
holds its mailbox as before, but `ServedIsRegistered` excepts it: it has a management task and is not registered. The proof has
to show that a name keeps all that without being disputed, step by step, for each of the
code's ways to stop in the middle of CREATE, DELETE and RENAME.

### The sessions

`SessionProofs`, for any finite number of clients and any commands, messages, limits and faults
(`SessionAssumption`):

| theorem | statement |
|---|---|
| `ClientsInStep` | `SessionSpec => []InStep` |
| `WorksOnTheRightMessage` | `SessionSpec => []RightMessage` |
| `ExpungesWhereAllowed` | `SessionSpec => ExpungesInPlace` |
| `SessionsTyped` | `SessionSpec => []SessionTypeOK` |

`InStep` is not inductive. It adds up what is pending for a client and what every walk has
yet to bring it, in one order; when a walk reaches the client, the order may change, and
nothing in `InStep` says that the result does not. `SessionInv` says it:

* `RightWalk`, of each walk: it brings one EXISTS, and then flags of just the new messages
  (`MailWalk`), flags only, under the numbers of now (`FlagWalk`), or one EXPUNGE (`ExpungeWalk`).
* `Alone`: a walk that tells of messages that came or went is of a command that
  nothing shares the mailbox with, or of the management task while nothing runs. So there is
  one at most, and whoever is before it has only notes of the old list to hear.
* `Abreast(c)`: where no such walk is ahead of a client that was not misled, what was pushed and
  what is pending give the list of now; where one is, the list of *before* (`Before`: without the
  new messages, or with the removed one put back). A walk reaching the client
  takes it from the second case to the first. A session that comes, goes or
  selects anew during a walk changes cases, too; so does the failure of a walk, which leaves
  `adrift` those it had not reached.
* `Pendable(c)`: pending are only FETCH with a UID and EXPUNGE. It is why a client without
  a pending EXPUNGE has the mailbox's numbers, though flags are pending.
* `Place(c)`, what the client task's position says of `pending`, `idling` and the rest; `Meant(c)`: from
  being read to being done, a command by number means what the client now has there. `RightMessage` is
  `Meant` and, as the command works only while nothing renumbers, `Abreast`: an EXPUNGE of a higher number
  that became pending while it waited leaves the lower ones alone (`KnownBefore`); one of this number or a lower is
  what the property sets aside.

What a client makes of its responses (`HearAll`) is a recursive function over the list of
them. The lemmas about it (`NumberedFollows`, `FollowsNumbered`, `LaterFollows`, ...) go by induction over the
prefixes: `Climb` says that a *set* of numbers with 0 that with each has the next holds all up to
a bound; it comes from the well-foundedness of < and has no operator as its parameter. The
hard steps are SELECT of the mailbox anew, whose session leaves and
returns at the end of the dict, and `Visit`, which reaches several clients at once, one of which blocks.

### The command reader

`SessionProofs` again, for any limits, lengths, literals and commands
(`ReaderAssumption`: there is a command at all). `ReaderTyped` and `FitsFrameHolds` follow from
`SizesInv`: `ibuffer_size` is the length of what will be sent, the CRLFs put back
included. `WholeCommandsHolds` needs the history of the stream. `WholeInv` says: until a
command overruns a limit, there are places in what the client has said (`heads`) at which a line
ends in the prefix of a literal; every other CRLF is inside a literal or ends the command
(`Marked`); and the reader has read up to one of these places or to the end of a literal
(`HasRead`). So it cannot take a CRLF in a literal for the end of the command, nor two commands
for one. `Handed` is the rest of the cycle: a command that was passed on is answered once.

### The front server

`FrontServerProofs`, for any connections, logins and processes: `FrontTyped`,
`OneServerPerUserHolds` and `NoOrphanHolds`. Between the look at `is_alive` and its setting there is an await, so the
property is about the lock: `StartsInLock` says that who starts a process writes,
`HolderWrites` that there is one writer. `OnlyTheLast` says processes are numbered as
they come and only the last may live, `NoneUnlessAlive` that a handle that says no is
right, so that a start finds none alive. `PortKnown` and `GoneForGood` are for
the types: a connection is made to a port that was read.

`UsesLock` shows that the front server implements `ReadWriteLock` without cancellations: each step is
one of the lock's, by a connection or by the server that stops, or leaves the
lock alone. `LoginsWriteAlone` and `WantIsCountHolds` are then facts about the lock
alone, for any finite number of tasks. `LockInv` says that `_readers` and `_want_write` are the
numbers of the tasks inside `read_lock()` and in `wait_for`, and that the writer is who
holds the condition's lock. A task goes on to write when the two numbers agree; the
tasks that wait are a subset of those inside, so equal numbers mean equal
sets (`AllWait`), and every other reader waits. With `Cancel` the second count would be wrong and
the argument, like the code, would fail.

`NoOrphan` needs two facts about the stop. `ClientsGone`: from when the server asks for the lock
its IMAP clients are gone and none comes any more. `OnlyLate`: once it has had the lock, who lives
was started by a POP3 login after that. The moment between is the lock's: while the server
terminates the process no login is starting one, by `StartsInLock` and `HolderWrites`.

### Logins

`LoginProofs`, for any users, addresses, connections and versions: `LoginTyped`,
`CacheNotAheadHolds`, `CheckedByFileHolds`, `FailuresBoundedHolds`. The first three rest on `AuthInv`:
each attempt carries a `stat` no newer than what it opens and reads, and no older than when it
began, so the slowest of several readers cannot leave `USERS` older than its time stamp.
`FailuresBounded` counts: an attempt that is let through adds one to those under way, a
failure moves one from there to the count. Its proof is about cardinalities of a set
that gains or loses one connection a step.

### POP3

`Pop3SessionProofs`, for any number of sessions, any folder, deliveries and pack limit
(`Pop3Assumption`):

| theorem | statement |
|---|---|
| `Pop3Typed` | `Spec => []Pop3TypeOK` |
| `UnmarkedStaysAloneHolds` | `Spec => []UnmarkedStaysAlone` |
| `NoPhantomHolds` | `Spec => []NoPhantom` |
| `OkMeansGoneHolds` | `Spec => []OkMeansGone` |

`Pop3Inv`, whose parts TLC checked on the instance of the run first, is in three layers.

* `TypeInv` holds always, also when a QUIT meets a resync or an EXPUNGE.
* `AloneInv` holds until a QUIT has company (`met`). Then one `expunge()` runs at a
  time and nothing resyncs beside it; the lists are `Sound`, as those of the store,
  with respect to the files it will leave behind, and a UID leads to the message that each
  session has listed under it, if it leads anywhere (`ListsInv`); the tables are in
  order when no `expunge()` runs. Each key it has still to remove is `Placed` where
  the tables say, because the highest goes first, and was asked for (`Orderly`).
* `PromiseInv` holds until a resync gives UIDs anew besides (`anew`): what a session has listed
  is gone, or leaving, or still listed under its UID; what it marked is, from its QUIT on, gone or
  among what is yet to be removed; and after +OK it is gone.

The invariant had to allow for mailboxes with fewer UIDs than keys, which a pack makes of
mail that no resync has seen: there `expunge()` fails over the first key
it looks up, before it has changed anything, or not at all. The hard steps are
`Pack`, which renumbers what the sessions have listed, and `TakeOut`, after which lists and
tables are out of step until `Finish`.

The lemmas on folders and lists (`MHFolderProofs`) are those of the store's proof:
`Grown`, what a delivery does to the keys; `FilesPacked`, that a pack keeps order and
messages; `SoundPacked`, that it keeps `Sound` lists sound; `RemovedRising`, what
is left of a list.

### Model-checked only

Liveness (`Answered` twice, `Settles`), which is beyond the prover, and `FindsWhatIsMeant`:
`Selection` is recursive over search keys, that is over data of any depth, for which neither the
induction theorems nor the SMT backend can be used. All other properties of the passing
runs are proved. TLC's instances still matter where a proof assumes less than one sees: that the
interesting cases happen.

## 5. What is not modelled

* Of numbering: ranges and `*` (they are in `Selection`), the order of
  notifications (in `ClientSession`); a running command is not cancelled there (it is
  in `MailboxStore`). A file whose removal failed stays in the folder unlisted, and with the tables: `MailboxStore` has files,
  `MailboxNumbering` none. One mailbox only: COPY between two is its reading half and an APPEND.
* Of persistence: COPY into the folder, create, delete, rename, the shared SQL
  connection, on which one mailbox commits another's half-done updates. The commit of a shutdown and of a
  resync that finds nothing is one step; the others have the half-way commit.
* Of the registry: RENAME of a mailbox that has inferior ones, which it renames one after the other
  (`mbox.py` 3403-3418); `disputed` names would cover what happens to them meanwhile.
* Of logins: two writes of the password file within one tick of its mtime, or a write with an older mtime, after
  which the old contents are used until the next write.
* Of sessions: commands that touch neither the mailbox nor what is pending are one
  (LIST); a running command is not cut by COMMAND_TIMEOUT, one that waits is.
* Of the scheduler's safety run: a second management task (`scheduler_liveness` has it, and `Exclusion` is not
  claimed with two). Of the lock within `frontserver`: cancellation, which the front server does not do.
* Of POP3: the responses of RETR, TOP, UIDL, CAPA.
* Of search: header, text, size and date tests are opaque.
* TLS, sockets, file locks (off by default), password hashes.
* The parser and the generation of FETCH responses: recursive descent over
  characters and formatting, without state. Tracing, logging, start-up.

## 6. Plan

*Done*: all modules of section 2.

*Next*, in this order:

1. Two mailboxes: COPYs in both directions, each the reading half of a command here
   and an APPEND there; that neither waits for the other.
2. The shared SQL connection, under `MailboxStore` with two mailboxes.
3. COMMAND_TIMEOUT for a running command in `ClientSession`.
