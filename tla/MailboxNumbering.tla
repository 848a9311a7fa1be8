-------------------------- MODULE MailboxNumbering --------------------------
(***************************************************************************)
(* The commands that MailboxScheduler lets in, at work on the messages of  *)
(* the mailbox: which message a sequence number or a UID means while other *)
(* commands expunge messages and new mail arrives.                         *)
(*                                                                         *)
(* Mailbox.uids is the list of the messages; the position of a message in  *)
(* it is its IMAP sequence number.  _uid_to_idx and _msg_key_to_idx are    *)
(* look-up tables from a message to its position that are rebuilt when     *)
(* messages come or have gone, not while they go.  Here a message is its   *)
(* UID, so the two tables are one, `index'.                                *)
(*                                                                         *)
(* STORE sets the \Deleted flag; other flags do not matter to the numbers. *)
(* An APPEND stands for the writing half of a COPY or MOVE too, which runs *)
(* as an APPEND of the destination.  Here no running command is cancelled, *)
(* and a resync always sees that the folder has changed; but an EXPUNGE    *)
(* may fail after any of its removals, on which the tables and the flags   *)
(* stay as they are until something rebuilds them.                         *)
(***************************************************************************)
EXTENDS MailboxScheduler, FiniteSets, SequencesExt

CONSTANTS InitialMail,   \* how many messages there are to begin with
          MaxUid         \* bound on the UIDs given out

ASSUME NumberingAssumption ==
  /\ InitialMail \in Nat /\ MaxUid \in Nat /\ InitialMail <= MaxUid
  /\ MsgNums = 1..MaxUid
  /\ \A r \in Requests : r.by \in {"none", "num", "uid", "move"} /\ r.msgs \subseteq MsgNums

VARIABLES
  uids,      \* mbox.uids
  index,     \* mbox._uid_to_idx and mbox._msg_key_to_idx
  nextUid,   \* mbox.next_uid
  flagged,   \* mbox.sequences["Deleted"]
  arrived,   \* how many messages of the folder the mailbox does not know of
  todo,      \* what a running command has yet to do: numbers, or UIDs to expunge
  victims,   \* to_delete of a running EXPUNGE
  touched,   \* the messages a FETCH or COPY has read, a STORE has changed
  moved,     \* the source UIDs of the MOVEs whose messages are yet to be expunged
  cut        \* an EXPUNGE has failed half-way, at some time

mailVars == <<uids, index, nextUid, flagged, arrived>>
workVars == <<todo, victims, touched, moved>>
allVars  == <<vars, mailVars, workVars, cut>>

NumberingTypeOK ==
  /\ TypeOK
  /\ uids \in Seq(1..MaxUid)
  /\ DOMAIN index \subseteq 1..MaxUid
  /\ nextUid \in 1..MaxUid + 1
  /\ flagged \subseteq 1..MaxUid
  /\ arrived \in 0..MaxUid
  /\ todo \in [Cmds -> SUBSET (1..MaxUid + 1)]
  /\ victims \in [Cmds -> SUBSET (1..MaxUid)]
  /\ touched \in [Cmds -> SUBSET (1..MaxUid)]
  /\ moved \subseteq SUBSET (1..MaxUid)
  /\ cut \in BOOLEAN

-----------------------------------------------------------------------------
(* State formulae *)

Known == Range(uids)

\* _rebuild_index_dicts for the list us
Rebuilt(us) ==
  [u \in Range(us) |-> CHOOSE i \in DOMAIN us : us[i] = u]

AskedUids(c) == IF req[c].by = "uid" THEN req[c].msgs ELSE {}

\* msg_set_to_msg_seq_set: UIDs that are not there are left out ...
Resolve(c, table) ==
  IF req[c].by = "num" THEN req[c].msgs
  ELSE {table[u] : u \in AskedUids(c) \cap DOMAIN table}

\* ... and a number beyond the last message raises Bad.
BeyondEnd(c, us) == req[c].by = "num" /\ \E n \in req[c].msgs : n > Len(us)

\* What expunge() looks up in the table.
LookedUp(c) == IF req[c].by = "move" THEN req[c].msgs \cap DOMAIN index ELSE flagged

\* What it is asked to remove: nothing, if the table leads it astray and it fails.
\* do_expunge hands the numbers that UID EXPUNGE's set resolved to over as
\* uid_msg_set; an empty set is no set.
ToDelete(c) ==
  IF      \E u \in LookedUp(c) : u \notin DOMAIN index \/ index[u] > Len(uids) THEN {}
  ELSE IF req[c].by = "move"                THEN {uids[index[u]] : u \in LookedUp(c)}
  ELSE IF req[c].by = "uid" /\ set[c] # {} THEN {u \in LookedUp(c) : uids[index[u]] \in set[c]}
  ELSE LookedUp(c)

-----------------------------------------------------------------------------
NumberingInit ==
  /\ Init
  /\ uids = [i \in 1..InitialMail |-> i]
  /\ index = Rebuilt(uids)
  /\ nextUid = InitialMail + 1
  /\ flagged = {}
  /\ arrived = 0
  /\ todo = [c \in Cmds |-> {}]
  /\ victims = [c \in Cmds |-> {}]
  /\ touched = [c \in Cmds |-> {}]
  /\ moved = {}
  /\ cut = FALSE

\* A mail transfer agent drops a message into the folder.
Deliver ==
  /\ nextUid + arrived <= MaxUid
  /\ arrived' = arrived + 1
  /\ UNCHANGED <<vars, uids, index, nextUid, flagged, workVars>>

\* check_new_msgs_and_flags: what is new goes to the end of the list.
CheckNew ==
  IF arrived = 0 THEN UNCHANGED mailVars
  ELSE /\ uids' = uids \o [i \in 1..arrived |-> nextUid + i - 1]
       /\ index' = Rebuilt(uids')
       /\ nextUid' = Last(uids') + 1
       /\ arrived' = 0
       /\ UNCHANGED flagged

(* The management task, with the message sets it computes *)

TaskTakes(t) ==
  /\ pc[t] = "get" /\ queue # << >>
  /\ IF BeyondEnd(Head(queue), uids)
       THEN TakeBad(t)
       ELSE Take(t, Resolve(Head(queue), index))
  /\ UNCHANGED <<mailVars, workVars>>

TaskProceeds(t) ==
  /\ Join(t, flagged # {}) \/ BeginResync(t)
  /\ UNCHANGED <<mailVars, workVars>>

\* The set is resolved anew only if the resync has found something.
TaskResyncs(t) ==
  /\ pc[t] = "resync"
  /\ CheckNew
  /\ IF arrived = 0                       THEN EndResync(t, set[taken[t]])
     ELSE IF BeyondEnd(taken[t], uids')   THEN ResyncFails(t)
     ELSE EndResync(t, Resolve(taken[t], index'))
  /\ UNCHANGED workVars

\* Mutant: the poll does not look whether anything is executing.
TaskPollsAnyway(t) == Poll(t) /\ CheckNew /\ UNCHANGED workVars

TaskPolls(t) ==
  /\ Poll(t)
  /\ IF Uncompleted = {} THEN CheckNew ELSE UNCHANGED mailVars
  /\ UNCHANGED workVars

TaskStarts(t) == StartTask(t) /\ UNCHANGED <<mailVars, workVars>>

(* The commands *)

Send(c, r) ==
  /\ r.by # "move"
  /\ Issue(c, r)
  /\ touched' = [touched EXCEPT ![c] = {}]
  /\ UNCHANGED <<mailVars, todo, victims, moved>>

\* copy() resolves its message set itself; it fails as a whole if it fails.
CopySet(c) ==
  IF BeyondEnd(c, uids) \/ uids = << >> THEN {Len(uids) + 1} ELSE Resolve(c, index)

\* FETCH, COPY and MOVE go through their messages one by one.
BeginReading(c) ==
  /\ Wake(c)
  /\ req[c].kind \in {"COPY", "FETCH", "MOVE"}
  /\ todo' = [todo EXCEPT ![c] = IF Is(c, "FETCH") THEN set[c] ELSE CopySet(c)]
  /\ UNCHANGED <<mailVars, victims, touched, moved>>

\* APPEND has put its message into the folder.
BeginAppend(c) ==
  /\ Wake(c)
  /\ Is(c, "APPEND") /\ nextUid + arrived <= MaxUid
  /\ arrived' = arrived + 1
  /\ UNCHANGED <<uids, index, nextUid, flagged, workVars>>

\* EXPUNGE has looked up what it will remove.
BeginExpunge(c) ==
  /\ Wake(c)
  /\ Is(c, "EXPUNGE")
  /\ todo' = [todo EXCEPT ![c] = ToDelete(c)]
  /\ victims' = [victims EXCEPT ![c] = ToDelete(c)]
  /\ UNCHANGED <<mailVars, touched, moved>>

\* STORE has set the flag of all its messages.
BeginStore(c) ==
  /\ Wake(c)
  /\ Is(c, "STORE") /\ set[c] \subseteq 1..Len(uids)
  /\ flagged' = flagged \cup {uids[n] : n \in set[c]}
  /\ touched' = [touched EXCEPT ![c] = {uids[n] : n \in set[c]}]
  /\ UNCHANGED <<uids, index, nextUid, arrived, todo, victims, moved>>

\* A command of another kind, a STORE to a number without a message, or an
\* APPEND beyond the bound, changes nothing.
BeginIdly(c) ==
  /\ Wake(c)
  /\ req[c].kind \notin {"COPY", "EXPUNGE", "FETCH", "MOVE"}
  /\ Is(c, "STORE") => ~ (set[c] \subseteq 1..Len(uids))
  /\ Is(c, "APPEND") => nextUid + arrived > MaxUid
  /\ UNCHANGED <<mailVars, workVars>>

\* The body of a command up to its first await.
Begin(c) == BeginReading(c) \/ BeginAppend(c) \/ BeginExpunge(c) \/ BeginStore(c) \/ BeginIdly(c)

\* fetch, and the reading half of copy: the next message, by its number.
FetchOne(c) ==
  /\ phase[c] = "running" /\ todo[c] # {}
  /\ req[c].kind \in {"COPY", "FETCH", "MOVE"}
  /\ LET n == Min(todo[c]) IN
       /\ n <= Len(uids)
       /\ touched' = [touched EXCEPT ![c] = @ \cup {uids[n]}]
       /\ todo' = [todo EXCEPT ![c] = @ \ {n}]
  /\ UNCHANGED <<vars, mailVars, victims, moved>>

\* A number without a message: the command fails.
FetchBeyondEnd(c) ==
  /\ phase[c] = "running" /\ todo[c] # {}
  /\ req[c].kind \in {"COPY", "FETCH", "MOVE"}
  /\ Min(todo[c]) > Len(uids)
  /\ Complete(c)
  /\ todo' = [todo EXCEPT ![c] = {}]
  /\ UNCHANGED <<mailVars, victims, touched, moved>>

\* Mutant: the messages are removed from the lowest.
ExpungeOneUpwards(c) ==
  /\ phase[c] = "running" /\ todo[c] # {}
  /\ Is(c, "EXPUNGE")
  /\ LET u == Min(todo[c]) IN
       /\ todo' = [todo EXCEPT ![c] = @ \ {u}]
       /\ IF u \in DOMAIN index /\ index[u] <= Len(uids)
            THEN uids' = RemoveAt(uids, index[u]) ELSE UNCHANGED uids
  /\ UNCHANGED <<vars, index, nextUid, flagged, arrived, victims, touched, moved>>

\* expunge: the next message, from the highest, by the position in the table.
ExpungeOne(c) ==
  /\ phase[c] = "running" /\ todo[c] # {}
  /\ Is(c, "EXPUNGE")
  /\ LET u == Max(todo[c]) IN
       /\ u \in DOMAIN index => index[u] <= Len(uids)
       /\ todo' = [todo EXCEPT ![c] = @ \ {u}]
       /\ IF u \in DOMAIN index THEN uids' = RemoveAt(uids, index[u]) ELSE UNCHANGED uids
  /\ UNCHANGED <<vars, index, nextUid, flagged, arrived, victims, touched, moved>>

\* The file was not there, or a client could not be told: the message is off the
\* list, and that is all.  Or there is no message at the position.
ExpungeFails(c) ==
  /\ Complete(c) /\ todo[c] # {}
  /\ Is(c, "EXPUNGE")
  /\ LET u == Max(todo[c]) IN
       /\ u \in DOMAIN index
       /\ uids' = IF index[u] <= Len(uids) THEN RemoveAt(uids, index[u]) ELSE uids
  /\ todo' = [todo EXCEPT ![c] = {}]
  /\ victims' = [victims EXCEPT ![c] = {}]
  /\ cut' = TRUE
  /\ UNCHANGED <<index, nextUid, flagged, arrived, touched, moved>>

\* Mutant: the tables are not rebuilt.
FinishExpungeStale(c) ==
  /\ Complete(c) /\ todo[c] = {}
  /\ victims[c] # {}
  /\ flagged' = flagged \ victims[c]
  /\ victims' = [victims EXCEPT ![c] = {}]
  /\ UNCHANGED <<uids, index, nextUid, arrived, todo, touched, moved>>

\* An EXPUNGE that had something to remove rebuilds the table and drops the flags.
FinishExpunge(c) ==
  /\ Complete(c) /\ todo[c] = {}
  /\ victims[c] # {}
  /\ index' = Rebuilt(uids)
  /\ flagged' = flagged \ victims[c]
  /\ victims' = [victims EXCEPT ![c] = {}]
  /\ UNCHANGED <<uids, nextUid, arrived, todo, touched, moved>>

\* An APPEND looks for its message.
FinishAppend(c) ==
  /\ Complete(c) /\ Is(c, "APPEND")
  /\ CheckNew
  /\ UNCHANGED workVars

\* A MOVE has copied its messages; the others have nothing left to do.
FinishReading(c) ==
  /\ Complete(c) /\ todo[c] = {}
  /\ victims[c] = {} /\ ~ Is(c, "APPEND")
  /\ moved' = IF Is(c, "MOVE") THEN moved \cup {touched[c]} ELSE moved
  /\ UNCHANGED <<mailVars, todo, victims, touched>>

\* The end of a command that succeeds.
Finish(c) == FinishExpunge(c) \/ FinishAppend(c) \/ FinishReading(c)

\* Phase 3 of MOVE: a phony EXPUNGE for the messages that were copied.
SendMoveExpunge(c, r) ==
  /\ r.by = "move" /\ r.msgs \in moved
  /\ Issue(c, r)
  /\ moved' = moved \ {r.msgs}
  /\ touched' = [touched EXCEPT ![c] = {}]
  /\ UNCHANGED <<mailVars, todo, victims>>

GiveUp(c) == Timeout(c) /\ UNCHANGED <<mailVars, workVars>>

-----------------------------------------------------------------------------
TaskActs(t) ==
  TaskStarts(t) \/ TaskTakes(t) \/ TaskProceeds(t) \/ TaskResyncs(t) \/ TaskPolls(t)

CommandActs(c) ==
  Begin(c) \/ FetchOne(c) \/ FetchBeyondEnd(c) \/ ExpungeOne(c) \/ Finish(c)

Uncut ==
  \/ Deliver
  \/ \E c \in Cmds, r \in Requests : Send(c, r) \/ SendMoveExpunge(c, r)
  \/ \E c \in Cmds : CommandActs(c) \/ GiveUp(c)
  \/ \E t \in Tasks : TaskActs(t)

NumberingNext == (Uncut /\ UNCHANGED cut) \/ \E c \in Cmds : ExpungeFails(c)

NumberingSpec == NumberingInit /\ [][NumberingNext]_allVars

-----------------------------------------------------------------------------
(* Properties *)

(***************************************************************************)
(* UIDs ascend along the list and stay below next_uid, so that none is     *)
(* ever given out twice, whatever is expunged and delivered in between.    *)
(***************************************************************************)
UidsAscend ==
  /\ \A i, j \in DOMAIN uids : i < j => uids[i] < uids[j]
  /\ \A i \in DOMAIN uids : uids[i] < nextUid

(***************************************************************************)
(* The look-up tables and the Deleted sequence may only be out of step     *)
(* with the list of messages while an EXPUNGE that has not yet rebuilt     *)
(* them is at work; afterwards no flag is left over for a message that is  *)
(* gone, and every position is the right one.  Not so once an EXPUNGE has  *)
(* failed half-way: it rebuilds nothing, and no resync does until mail     *)
(* comes.                                                                  *)
(***************************************************************************)
TablesInStep ==
  \/ cut
  \/ \E c \in Cmds : Running(c) /\ victims[c] # {}
  \/ index = Rebuilt(uids) /\ flagged \subseteq Known

(***************************************************************************)
(* A message number may not come into being under a running command: new   *)
(* messages are put on the list when nothing runs, or by the APPEND that   *)
(* runs alone ("those commands running will not see these messages").      *)
(***************************************************************************)
GrowsAlone ==
  [][Len(uids') > Len(uids) => \A c \in Cmds : Running(c) => Is(c, "APPEND")]_allVars

(***************************************************************************)
(* EXPUNGE removes messages by positions it looked up before it removed    *)
(* the first one.  All the same, what goes is what it set out to remove:   *)
(* messages flagged \Deleted, or the ones its MOVE has copied.  An EXPUNGE *)
(* after one that has failed half-way uses that one's positions: it is set *)
(* aside.                                                                  *)
(***************************************************************************)
RemovesItsVictims ==
  [][cut \/ \A u \in Known \ Known' :
       \E c \in Cmds : Running(c) /\ u \in victims[c]
                       /\ (u \in flagged \/ (req[c].by = "move" /\ u \in req[c].msgs))]_allVars

(***************************************************************************)
(* The inductive invariant behind these, together with SchedulerInv.  What *)
(* it says of UIDs and of the types holds after an EXPUNGE that has failed *)
(* half-way, too.                                                          *)
(***************************************************************************)
\* There is a UID for each message that arrived.
RoomForUids ==
  /\ Len(uids) < nextUid
  /\ nextUid + arrived <= MaxUid + 1
  /\ \A u \in DOMAIN index : index[u] \in 1..MaxUid

\* Only an EXPUNGE that runs has victims: flagged, or copied by its MOVE.
VictimsOfExpunge ==
  \A c \in Cmds :
    /\ victims[c] # {} => Running(c) /\ Is(c, "EXPUNGE")
    /\ Running(c) /\ Is(c, "EXPUNGE") => todo[c] \subseteq victims[c]
    /\ cut \/ victims[c] \subseteq flagged \/ (req[c].by = "move" /\ victims[c] \subseteq req[c].msgs)

\* The positions it looked up are right for the messages it has yet to remove.
PositionsAhead ==
  cut \/ \A c \in Cmds : victims[c] # {} =>
    /\ flagged \subseteq Known \cup (victims[c] \ todo[c])
    /\ \A u \in todo[c] \cap DOMAIN index : index[u] \in DOMAIN uids /\ uids[index[u]] = u

\* While there are no victims the tables are in step.
InStepAtRest ==
  ~ cut /\ (\A c \in Cmds : victims[c] = {}) => index = Rebuilt(uids) /\ flagged \subseteq Known

NumberingInv ==
  /\ NumberingTypeOK /\ UidsAscend /\ RoomForUids
  /\ VictimsOfExpunge /\ PositionsAhead /\ InStepAtRest

=============================================================================
