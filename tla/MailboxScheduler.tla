-------------------------- MODULE MailboxScheduler --------------------------
(***************************************************************************)
(* How one Mailbox decides which IMAP commands run on it at the same time. *)
(*                                                                         *)
(* A client's task puts its IMAPClientCommand on the mailbox's task_queue  *)
(* and waits for the command's `ready' event (ready_and_okay).  The        *)
(* mailbox's management_task takes commands off the queue one by one,      *)
(* waits until the command in its hand conflicts with none of              *)
(* executing_tasks, resyncs the mailbox when nothing is executing, adds    *)
(* the command to executing_tasks and sets its event.  The client's task   *)
(* marks the command `completed' on its way out, whatever happened.        *)
(*                                                                         *)
(* asyncio switches tasks only at an await, so an action is the code       *)
(* between two awaits.  What a command does to the mailbox is left to      *)
(* MailboxNumbering; here the message set a command resolves to and        *)
(* whether any message is \Deleted are arbitrary inputs.                   *)
(*                                                                         *)
(* An element of Cmds is an IMAPClientCommand object.  Once it has         *)
(* completed and the mailbox has dropped its last reference to it, the     *)
(* element stands for the next command some client sends.                  *)
(***************************************************************************)
EXTENDS Naturals, Sequences

CONSTANTS Cmds,      \* IMAPClientCommand objects
          NoCmd,     \* no command
          Tasks,     \* the management tasks that may ever be started
          MsgNums,   \* message sequence numbers
          Requests,  \* what a client may ask: records with a kind and a peek
          Faults     \* which of AllFaults may happen

Kinds == {"APPEND", "CHECK", "CLOSE", "COPY", "DELETE", "EXPUNGE", "FETCH",
          "MOVE", "NOOP", "RENAME", "SEARCH", "STORE"}

AllFaults == {"timeout",     \* the COMMAND_TIMEOUT of a waiting command expires
              "badset",      \* a sequence number is beyond the mailbox's size
              "exit",        \* the folder is gone, or a resync raises a RuntimeError
              "error",       \* a resync raises some other exception
              "stop",        \* the user's server shuts down
              "recreate"}    \* a \Noselect mailbox is created again

ASSUME CmdsAssumption == NoCmd \notin Cmds
ASSUME RequestsAssumption ==
  Requests # {} /\ \A r \in Requests : r.kind \in Kinds /\ r.peek \in BOOLEAN
ASSUME FaultsAssumption == Faults \subseteq AllFaults

VARIABLES
  queue,      \* mbox.task_queue
  pc,         \* where each management task is
  mgmtTask,   \* mbox.mgmt_task, the one created last
  taken,      \* the command in the hand of each management task
  executing,  \* mbox.executing_tasks
  req,        \* what each command asks
  set,        \* cmd.msg_set_as_set (None and the empty set are alike)
  phase,      \* of the client's task: waiting, running or completed
  ready,      \* cmd.ready.is_set()
  deleted,    \* mbox.deleted
  noselect    \* "\Noselect" in mbox.attributes

cmdVars  == <<req, set, phase, ready>>
mboxVars == <<mgmtTask, deleted, noselect>>
vars     == <<queue, pc, mgmtTask, taken, executing, req, set, phase, ready, deleted,
              noselect>>

TypeOK ==
  /\ queue \in Seq(Cmds)
  /\ pc \in [Tasks -> {"off", "start", "get", "conflict", "resync", "done"}]
  /\ mgmtTask \in Tasks
  /\ taken \in [Tasks -> Cmds \cup {NoCmd}]
  /\ executing \subseteq Cmds
  /\ req \in [Cmds -> Requests]
  /\ set \in [Cmds -> SUBSET MsgNums]
  /\ phase \in [Cmds -> {"waiting", "running", "completed"}]
  /\ ready \in [Cmds -> BOOLEAN]
  /\ deleted \in BOOLEAN
  /\ noselect \in BOOLEAN

-----------------------------------------------------------------------------
(* State formulae *)

Queued(c) == \E i \in 1..Len(queue) : queue[i] = c

\* The mailbox still holds a reference to the command.
Referenced(c) == Queued(c) \/ c \in executing \/ \E t \in Tasks : taken[t] = c

\* executing_tasks after _cleanup_executing_tasks
Uncompleted == {c \in executing : phase[c] # "completed"}

\* CONFLICTING_COMMANDS
Conflicting == {"APPEND", "CHECK", "CLOSE", "DELETE", "EXPUNGE", "MOVE", "RENAME"}

\* CONFLICTING_COMMANDS that wait for everybody else before they run.
Solitary == Conflicting \ {"CLOSE", "EXPUNGE"}

\* Commands that come with a message set.
WithSet == {"COPY", "EXPUNGE", "FETCH", "MOVE", "STORE"}

Is(c, kind) == req[c].kind = kind
MarksSeen(c) == Is(c, "FETCH") /\ ~ req[c].peek
Peeks(c)     == Is(c, "FETCH") /\ req[c].peek
Intersect(c, d) == set[c] \cap set[d] # {}

\* Mutant: only the newcomer's side of the table is looked at.
WouldConflictOneSided(c, running, anyDeleted) ==
  running # {} /\ (req[c].kind \in Solitary \/ anyDeleted)

(***************************************************************************)
(* would_conflict: c is about to run, anyDeleted says whether the mailbox  *)
(* has a message in its Deleted sequence.  The rules are the arms of its   *)
(* match statement; a command of another kind never conflicts.             *)
(***************************************************************************)
WouldConflict(c, running, anyDeleted) ==
  \/ \E d \in running : req[d].kind \in Conflicting
  \/ running # {} /\ req[c].kind \in Solitary
  \/ running # {} /\ req[c].kind \in {"CLOSE", "EXPUNGE"} /\ anyDeleted
  \/ \E d \in running :
       \/ Is(c, "COPY")   /\ (Is(d, "STORE") \/ MarksSeen(d)) /\ Intersect(c, d)
       \/ MarksSeen(c)    /\ Is(d, "SEARCH")
       \/ MarksSeen(c)    /\ req[d].kind \in {"COPY", "FETCH", "STORE"} /\ Intersect(c, d)
       \/ Peeks(c)        /\ Is(d, "STORE") /\ Intersect(c, d)
       \/ Is(c, "SEARCH") /\ (Is(d, "STORE") \/ MarksSeen(d))
       \/ Is(c, "STORE")  /\ Is(d, "SEARCH")
       \/ Is(c, "STORE")  /\ req[d].kind \in {"COPY", "FETCH", "STORE"} /\ Intersect(c, d)

\* What a message set may resolve to; only some commands have one.
Resolutions(c) == IF req[c].kind \in WithSet THEN SUBSET MsgNums ELSE {{}}

-----------------------------------------------------------------------------
\* What an object that has not been used yet holds does not matter.
AnyRequest == CHOOSE r \in Requests : TRUE

(***************************************************************************)
(* Mailbox.new has just created the management task of the mailbox.        *)
(***************************************************************************)
Init ==
  /\ queue = << >>
  /\ mgmtTask \in Tasks
  /\ pc = [t \in Tasks |-> IF t = mgmtTask THEN "start" ELSE "off"]
  /\ taken = [t \in Tasks |-> NoCmd]
  /\ executing = {}
  /\ req = [c \in Cmds |-> AnyRequest]
  /\ set = [c \in Cmds |-> {}]
  /\ phase = [c \in Cmds |-> "completed"]
  /\ ready = [c \in Cmds |-> FALSE]
  /\ deleted = FALSE
  /\ noselect = FALSE

(* The client's task: ready_and_okay *)

\* A new command goes on the queue.
Issue(c, r) ==
  /\ ~ deleted
  /\ phase[c] = "completed" /\ ~ Referenced(c)
  /\ queue' = Append(queue, c)
  /\ req' = [req EXCEPT ![c] = r]
  /\ set' = [set EXCEPT ![c] = {}]
  /\ phase' = [phase EXCEPT ![c] = "waiting"]
  /\ ready' = [ready EXCEPT ![c] = FALSE]
  /\ UNCHANGED <<pc, taken, executing, mboxVars>>

\* Mutant: mbox.deleted is not looked at after the wait.
WakeRegardless(c) ==
  /\ phase[c] = "waiting" /\ ready[c]
  /\ phase' = [phase EXCEPT ![c] = "running"]
  /\ UNCHANGED <<queue, pc, taken, executing, req, set, ready, mboxVars>>

\* The event is set and the mailbox is there: the command starts to run.
Wake(c) ==
  /\ phase[c] = "waiting" /\ ready[c] /\ ~ deleted
  /\ phase' = [phase EXCEPT ![c] = "running"]
  /\ UNCHANGED <<queue, pc, taken, executing, req, set, ready, mboxVars>>

\* The event is set because the mailbox has gone: NoSuchMailbox is raised.
Refuse(c) ==
  /\ phase[c] = "waiting" /\ ready[c] /\ deleted
  /\ phase' = [phase EXCEPT ![c] = "completed"]
  /\ UNCHANGED <<queue, pc, taken, executing, req, set, ready, mboxVars>>

\* The command has done its work, or failed, or run into its timeout.
Complete(c) ==
  /\ phase[c] = "running"
  /\ phase' = [phase EXCEPT ![c] = "completed"]
  /\ UNCHANGED <<queue, pc, taken, executing, req, set, ready, mboxVars>>

\* The command is cancelled while it waits for its event.
Timeout(c) ==
  /\ "timeout" \in Faults
  /\ phase[c] = "waiting"
  /\ phase' = [phase EXCEPT ![c] = "completed"]
  /\ UNCHANGED <<queue, pc, taken, executing, req, set, ready, mboxVars>>

(* The management task *)

\* The opportunistic pack, and an empty executing_tasks.
StartTask(t) ==
  /\ pc[t] = "start"
  /\ pc' = [pc EXCEPT ![t] = "get"]
  /\ executing' = {}
  /\ UNCHANGED <<queue, taken, cmdVars, mboxVars>>

\* queue.get() times out: forget who has completed; with nobody left, resync.
Poll(t) ==
  /\ pc[t] = "get" /\ queue = << >>
  /\ executing' = Uncompleted
  /\ UNCHANGED <<queue, pc, taken, cmdVars, mboxVars>>

\* Mutant: the command is looked at, but stays on the queue.
TakePeeks(t, S) ==
  /\ pc[t] = "get" /\ queue # << >>
  /\ S \in Resolutions(Head(queue))
  /\ taken' = [taken EXCEPT ![t] = Head(queue)]
  /\ set' = [set EXCEPT ![Head(queue)] = S]
  /\ pc' = [pc EXCEPT ![t] = "conflict"]
  /\ UNCHANGED <<queue, executing, req, phase, ready, mboxVars>>

\* Mutant: a command with an empty message set is taken and dropped.
TakeDropsEmpty(t, S) ==
  /\ pc[t] = "get" /\ queue # << >>
  /\ S \in Resolutions(Head(queue))
  /\ queue' = Tail(queue)
  /\ set' = [set EXCEPT ![Head(queue)] = S]
  /\ IF S = {} THEN UNCHANGED <<taken, pc>>
     ELSE /\ taken' = [taken EXCEPT ![t] = Head(queue)]
          /\ pc' = [pc EXCEPT ![t] = "conflict"]
  /\ UNCHANGED <<executing, req, phase, ready, mboxVars>>

\* Mutant: the newest command is taken first.
TakeNewest(t, S) ==
  /\ pc[t] = "get" /\ queue # << >>
  /\ LET newest == queue[Len(queue)] IN
       /\ S \in Resolutions(newest)
       /\ taken' = [taken EXCEPT ![t] = newest]
       /\ set' = [set EXCEPT ![newest] = S]
  /\ queue' = SubSeq(queue, 1, Len(queue) - 1)
  /\ pc' = [pc EXCEPT ![t] = "conflict"]
  /\ UNCHANGED <<executing, req, phase, ready, mboxVars>>

\* Take a command whose message set resolves to S.
Take(t, S) ==
  /\ pc[t] = "get" /\ queue # << >>
  /\ S \in Resolutions(Head(queue))
  /\ queue' = Tail(queue)
  /\ taken' = [taken EXCEPT ![t] = Head(queue)]
  /\ set' = [set EXCEPT ![Head(queue)] = S]
  /\ pc' = [pc EXCEPT ![t] = "conflict"]
  /\ UNCHANGED <<executing, req, phase, ready, mboxVars>>

\* msg_set_to_msg_seq_set raises Bad; the task logs it and takes the next one.
TakeBad(t) ==
  /\ "badset" \in Faults
  /\ pc[t] = "get" /\ queue # << >>
  /\ req[Head(queue)].kind \in WithSet
  /\ queue' = Tail(queue)
  /\ UNCHANGED <<pc, taken, executing, cmdVars, mboxVars>>

\* Mutant: the command is signalled without joining executing_tasks.
AdmitUnrecorded(t, S, others) ==
  /\ executing' = others
  /\ set' = [set EXCEPT ![taken[t]] = S]
  /\ ready' = [ready EXCEPT ![taken[t]] = TRUE]
  /\ taken' = [taken EXCEPT ![t] = NoCmd]
  /\ pc' = [pc EXCEPT ![t] = "get"]
  /\ UNCHANGED <<queue, req, phase, mboxVars>>

\* Signal the command in hand.
Admit(t, S, others) ==
  /\ executing' = others \cup {taken[t]}
  /\ set' = [set EXCEPT ![taken[t]] = S]
  /\ ready' = [ready EXCEPT ![taken[t]] = TRUE]
  /\ taken' = [taken EXCEPT ![t] = NoCmd]
  /\ pc' = [pc EXCEPT ![t] = "get"]
  /\ UNCHANGED <<queue, req, phase, mboxVars>>

\* No conflict, others are executing: the command joins them.
Join(t, anyDeleted) ==
  /\ pc[t] = "conflict"
  /\ Uncompleted # {}
  /\ ~ WouldConflict(taken[t], Uncompleted, anyDeleted)
  /\ Admit(t, set[taken[t]], Uncompleted)

\* Nobody is executing: resync before the command is let in.
BeginResync(t) ==
  /\ pc[t] = "conflict"
  /\ Uncompleted = {}
  /\ executing' = {}
  /\ pc' = [pc EXCEPT ![t] = "resync"]
  /\ UNCHANGED <<queue, taken, cmdVars, mboxVars>>

\* check_new_msgs_and_flags is done; S is the set, resolved anew if it changed.
EndResync(t, S) ==
  /\ pc[t] = "resync"
  /\ S \in Resolutions(taken[t])
  /\ Admit(t, S, executing)

\* check_new_msgs_and_flags raises: logged, the command in hand is forgotten.
ResyncFails(t) ==
  /\ "error" \in Faults
  /\ pc[t] = "resync"
  /\ pc' = [pc EXCEPT ![t] = "get"]
  /\ taken' = [taken EXCEPT ![t] = NoCmd]
  /\ UNCHANGED <<queue, executing, cmdVars, mboxVars>>

\* NoSuchMailboxError from lock_folder, or a RuntimeError (as when a client
\* leaves while mbox.clients is walked over): the task returns for good.
TaskReturns(t) ==
  /\ "exit" \in Faults
  /\ pc[t] \in {"start", "get", "resync"}
  /\ pc[t] = "get" => queue = << >> /\ Uncompleted = {}
  /\ pc' = [pc EXCEPT ![t] = "done"]
  /\ taken' = [taken EXCEPT ![t] = NoCmd]
  /\ UNCHANGED <<queue, executing, cmdVars, mboxVars>>

(* The mailbox goes away, or comes back *)

\* Mailbox.shutdown, by a DELETE that is running or by the server's shutdown.
Shutdown ==
  /\ ~ deleted
  /\ "stop" \in Faults \/ \E c \in Cmds : phase[c] = "running" /\ Is(c, "DELETE")
  /\ deleted' = TRUE
  /\ ready' = [c \in Cmds |-> ready[c] \/ Queued(c)]
  /\ queue' = << >>
  /\ pc' = [pc EXCEPT ![mgmtTask] = "done"]
  /\ taken' = [taken EXCEPT ![mgmtTask] = NoCmd]
  /\ UNCHANGED <<executing, req, set, phase, mgmtTask, noselect>>

\* DELETE of a mailbox with children or a subscriber: it stays, \Noselect.
MakeNoselect(c) ==
  /\ "recreate" \in Faults
  /\ phase[c] = "running" /\ Is(c, "DELETE") /\ ~ deleted /\ ~ noselect
  /\ noselect' = TRUE
  /\ UNCHANGED <<queue, pc, mgmtTask, taken, executing, cmdVars, deleted>>

\* CREATE of a \Noselect mailbox starts a management task.
Recreate(t) ==
  /\ noselect /\ ~ deleted
  /\ pc[t] = "off"
  /\ noselect' = FALSE
  /\ mgmtTask' = t
  /\ pc' = [pc EXCEPT ![t] = "start"]
  /\ UNCHANGED <<queue, taken, executing, cmdVars, deleted>>

-----------------------------------------------------------------------------
ClientStep(c) == Wake(c) \/ Refuse(c) \/ Complete(c) \/ Timeout(c) \/ MakeNoselect(c)

TaskStep(t) ==
  \/ StartTask(t) \/ Poll(t) \/ TakeBad(t) \/ BeginResync(t) \/ ResyncFails(t) \/ TaskReturns(t)
  \/ \E S \in SUBSET MsgNums : Take(t, S) \/ EndResync(t, S)
  \/ \E anyDeleted \in BOOLEAN : Join(t, anyDeleted)

Next ==
  \/ \E c \in Cmds, r \in Requests : Issue(c, r)
  \/ \E c \in Cmds : ClientStep(c)
  \/ \E t \in Tasks : TaskStep(t) \/ Recreate(t)
  \/ Shutdown

Spec == Init /\ [][Next]_vars

(***************************************************************************)
(* The event loop runs every task that can run.  That a running command    *)
(* completes is what its COMMAND_TIMEOUT makes sure of.  Nothing is        *)
(* assumed of the clients, and none of the faults has to happen.           *)
(***************************************************************************)
Fairness ==
  /\ \A c \in Cmds : WF_vars(Wake(c)) /\ WF_vars(Refuse(c)) /\ WF_vars(Complete(c))
  /\ \A t \in Tasks :
       /\ WF_vars(StartTask(t))
       /\ WF_vars(TakeBad(t) \/ \E S \in SUBSET MsgNums : Take(t, S))
       /\ WF_vars(BeginResync(t) \/ \E anyDeleted \in BOOLEAN : Join(t, anyDeleted))
       /\ WF_vars(ResyncFails(t) \/ \E S \in SUBSET MsgNums : EndResync(t, S))

FairSpec == Spec /\ Fairness

-----------------------------------------------------------------------------
(* Properties *)

\* The claim a command holds on the mailbox, in the words of MessageLocks.
Mode(c) ==
  IF      req[c].kind \in Solitary             THEN "alone"
  ELSE IF req[c].kind \in {"CLOSE", "EXPUNGE"} THEN "expunge"
  ELSE IF Is(c, "STORE")                       THEN "flags"
  ELSE IF MarksSeen(c)                         THEN "body"
  ELSE IF Is(c, "COPY")                        THEN "read"
  ELSE IF Peeks(c)                             THEN "peek"
  ELSE IF Is(c, "SEARCH")                      THEN "scan"
  ELSE "watch"

Claim(c) == [mode |-> Mode(c), msgs |-> set[c]]

Running(c) == phase[c] = "running"

Unclaimed == [mode |-> "none", msgs |-> {}]

\* The commands that are executing hold their claims, the others none.
Locks == INSTANCE MessageLocks WITH
  Holders  <- Cmds,
  Messages <- MsgNums,
  held     <- [c \in Cmds |-> IF c \in Uncompleted THEN Claim(c) ELSE Unclaimed]

(***************************************************************************)
(* No two commands that clash run at the same time.  The table of          *)
(* would_conflict is consulted for the newcomer only, against              *)
(* executing_tasks as it was left by the last clean-up; that this is       *)
(* enough for every pair, in either order of arrival, is the promise.      *)
(***************************************************************************)
Exclusion ==
  \A c, d \in Cmds :
    c # d /\ Running(c) /\ Running(d) => ~ Locks!Clash(Claim(c), Claim(d))

(***************************************************************************)
(* check_new_msgs_and_flags "is only called by the mailbox management task *)
(* before a set of commands are allowed to run": while the task resyncs,   *)
(* no command runs whose message numbers could shift under it.             *)
(***************************************************************************)
ResyncAlone == \A t \in Tasks : pc[t] = "resync" => \A c \in Cmds : ~ Running(c)

(***************************************************************************)
(* A command that waits without having been signalled is on the queue or   *)
(* in the hand of a management task: somebody will still set its event.    *)
(* Not so when the mailbox is deleted, as the command in the hand of the   *)
(* task that is cancelled is told nothing.                                 *)
(***************************************************************************)
NothingForgotten ==
  ~ deleted =>
    \A c \in Cmds : phase[c] = "waiting" /\ ~ ready[c] =>
      Queued(c) \/ \E t \in Tasks : taken[t] = c

(***************************************************************************)
(* Once a DELETE has shut the mailbox down nothing but the DELETE works on *)
(* it: no command is at work on a folder that is being removed, and none   *)
(* that was let in before starts after.                                    *)
(***************************************************************************)
NobodyOnDeleted ==
  deleted => \A c \in Cmds : Running(c) => Is(c, "DELETE")

(***************************************************************************)
(* A command waits in one place, and in none once it has been signalled:   *)
(* however many management tasks serve the queue, it is let in only once.  *)
(***************************************************************************)
LetInOnce ==
  \A c \in Cmds :
    LET places == {<<"queue", i>> : i \in {j \in 1..Len(queue) : queue[j] = c}}
                    \cup {<<"taken", t>> : t \in {s \in Tasks : taken[s] = c}}
    IN /\ \A p, q \in places : p = q
       /\ ready[c] => places = {}

(***************************************************************************)
(* The inductive invariant behind Exclusion and the refinement, for a      *)
(* mailbox with one management task.                                       *)
(***************************************************************************)
HandFull == \A t \in Tasks : pc[t] \in {"conflict", "resync"} => taken[t] \in Cmds

StartedTask == pc[mgmtTask] # "off"

LetInExecute ==
  \A c \in Cmds : Running(c) \/ (phase[c] = "waiting" /\ ready[c] /\ ~ deleted)
                    => c \in executing

QuietResync == \A t \in Tasks : pc[t] \in {"start", "resync"} => executing = {}

OnePlace ==
  /\ \A i \in 1..Len(queue) : queue[i] \notin executing
  /\ \A i, j \in 1..Len(queue) : queue[i] = queue[j] => i = j
  /\ \A t \in Tasks : taken[t] \notin executing
  /\ \A t \in Tasks : \A i \in 1..Len(queue) : queue[i] # taken[t]

ExecutingApart ==
  \A c, d \in Uncompleted : c # d => ~ Locks!Clash(Claim(c), Claim(d))

SchedulerInv ==
  TypeOK /\ HandFull /\ StartedTask /\ LetInExecute /\ QuietResync /\ OnePlace /\ ExecutingApart

\* Refinement: executing_tasks is a set of claims that never clash.
ImplementsMessageLocks == Locks!LocksSpec

\* A re-created mailbox has two management tasks.
SecondTask == \E t \in Tasks \ {mgmtTask} : pc[t] # "off"

(***************************************************************************)
(* Every command that is sent gets to run and to its end without a         *)
(* timeout, if the mailbox is not deleted.  Of two management tasks one    *)
(* may let commands in for ever that conflict with the one in the hand of  *)
(* the other.                                                              *)
(***************************************************************************)
Answered ==
  \A c \in Cmds : phase[c] = "waiting" ~> phase[c] = "completed" \/ deleted \/ SecondTask
=============================================================================
