-------------------------- MODULE MailboxRegistry --------------------------
(***************************************************************************)
(* The mailboxes of one user by name: MH folders, rows of the database and *)
(* Mailbox objects (IMAPUserServer.active_mailboxes), through activation,  *)
(* CREATE, DELETE, RENAME, the scans of the server and the finalizer of    *)
(* Mailbox.                                                                *)
(*                                                                         *)
(* A task runs until it awaits; `pc' is where it does.  Messages are left  *)
(* out, but for the folder they are in.  An object of Python goes away     *)
(* with its last reference: nothing else happens before.                   *)
(*                                                                         *)
(* RENAME keeps active_mailboxes_lock while it waits for the database, and *)
(* whoever registers a mailbox or strikes one off waits for it.            *)
(***************************************************************************)
EXTENDS Integers, FiniteSets, Functions

CONSTANTS Tasks,     \* tasks of clients, and of the server's scans
          Names,     \* of mailboxes
          Inbox,     \* the one that is not created, deleted or moved
          Kept,      \* those with inferior or subscribed mailboxes
          Parent,    \* of those that have one: the mailbox they are in
          Objects,   \* Mailbox objects, as many as can be about
          MaxVv,     \* bound on the UID validity counter
          MaxCalls,  \* bound on the calls made
          Offered,   \* subset of the operations below
          Faults     \* {"fail"}: an activation may fail for no reason seen here

None == "none"

Nested == DOMAIN Parent

\* The counter can reach the row that an earlier run has left.
ASSUME RegistryAssumption ==
  /\ Inbox \in Names /\ Kept \subseteq Names /\ IsFiniteSet(Names)
  /\ Nested \subseteq Names /\ \A n \in Nested : Parent[n] \in Kept
  /\ None \notin Objects
  /\ MaxVv \in Nat \ {0} /\ MaxCalls \in Nat
  /\ Offered \subseteq {"SELECT", "CREATE", "DELETE", "RENAME", "SCAN", "CHECK"}

VARIABLES
  folders,     \* names there is a directory for; during RENAME one has two
  row,         \* the row of the database with that name, or none
  uid_vv,      \* the counter
  active,      \* active_mailboxes
  activating,  \* activating_mailboxes: whether there is an event, and its fate
  mbox,        \* the Mailbox objects
  proc,        \* where each task is
  calls,
  disputed     \* names that a RENAME, a check of a vanished folder or the
               \* finalizer of a predecessor has meddled with

vars == <<folders, row, uid_vv, active, activating, mbox, proc, calls, disputed>>

Row   == [id : 0..Cardinality(Names), vv : 0..MaxVv, noselect : BOOLEAN]
NoRow == [id |-> 0, vv |-> 0, noselect |-> FALSE]
Object == [alive : BOOLEAN, name : Names, id : 0..Cardinality(Names), vv : 0..MaxVv,
           noselect : BOOLEAN, deleted : BOOLEAN, served : BOOLEAN]
Fresh(n) == [alive |-> TRUE, name |-> n, id |-> 0, vv |-> 0, noselect |-> FALSE,
             deleted |-> FALSE, served |-> FALSE]

\* held: the mailbox whose queue let the task in; obj: what get_mailbox gave;
\* then: where the task goes with it.
Idle == [op |-> None, name |-> Inbox, to |-> Inbox, pc |-> "idle", then |-> None,
         held |-> None, obj |-> None]
Points == {"idle", "get", "waiting", "woken", "activating", "counting", "checking", "queued",
           "registering", "selected", "exists", "mkdir", "made", "delete", "recount", "stopping",
           "forgetting", "unregister", "link", "rename", "switch", "unlink", "move", "moved",
           "done", "stale", "pop"}
Activating == {"activating", "counting", "checking", "registering"}

\* Every variable has its type; ids are unique in the table.
RegistryTypeOK ==
  /\ folders \subseteq Names
  /\ row \in [Names -> Row]
  /\ \A n, m \in Names : row[n].id = row[m].id => n = m \/ row[n] = NoRow
  /\ uid_vv \in 0..MaxVv /\ calls \in 0..MaxCalls
  /\ active \in [Names -> Objects \cup {None}]
  /\ activating \in [Names -> {"no", "yes", "failed"}]
  /\ mbox \in [Objects -> Object]
  /\ proc \in [Tasks -> [op : Offered \cup {None}, name : Names, to : Names, pc : Points,
                         then : Points \cup {None}, held : Objects \cup {None},
                         obj : Objects \cup {None}]]
  /\ disputed \subseteq Names

-----------------------------------------------------------------------------
(* References to objects *)

Referenced(o) ==
  \/ mbox[o].served                \* by its management task
  \/ \E n \in Names : active[n] = o
  \/ \E t \in Tasks : o \in {proc[t].held, proc[t].obj}

Garbage == {o \in Objects : mbox[o].alive /\ ~ Referenced(o)}

\* __del__: whoever is registered under the name goes, too.
Collect(o) ==
  /\ o \in Garbage
  /\ active' = [active EXCEPT ![mbox[o].name] = None]
  /\ disputed' = IF active[mbox[o].name] = None THEN disputed ELSE disputed \cup {mbox[o].name}
  /\ mbox' = [mbox EXCEPT ![o] = [Fresh(Inbox) EXCEPT !.alive = FALSE]]
  /\ UNCHANGED <<folders, row, uid_vv, activating, proc, calls>>

-----------------------------------------------------------------------------
(* Getting a mailbox *)

At(t, pc) == proc[t].pc = pc /\ Garbage = {}
Goto(t, pc) == proc' = [proc EXCEPT ![t].pc = pc]
Ends(t) == proc' = [proc EXCEPT ![t] = Idle]

\* A call of get_mailbox(n), to go on at `then'.
Gets(t, n, then) == proc' = [proc EXCEPT ![t] = [@ EXCEPT !.name = n, !.pc = "get", !.then = then]]

\* NoSuchMailbox: welcome to CREATE, the first time; a check takes the folder
\* for gone.
AfterNoSuch(p) ==
  CASE p.then = "exists" -> [p EXCEPT !.pc = "mkdir"]
    [] p.op = "CHECK"    -> [p EXCEPT !.pc = "stale"]
    [] OTHER             -> Idle
NoSuch(t) == proc' = [proc EXCEPT ![t] = AfterNoSuch(@)]

\* Handed a registered mailbox, or the refusal to hand out a deleted one.
HandedWith(ps, t, o) ==
  [ps EXCEPT ![t] =
     IF ~ mbox[o].deleted THEN [@ EXCEPT !.pc = ps[t].then, !.obj = o]
     ELSE AfterNoSuch(@)]

GetMissing(t) ==
  /\ At(t, "get") /\ proc[t].name \notin folders
  /\ NoSuch(t)
  /\ UNCHANGED <<folders, row, uid_vv, active, activating, mbox, calls, disputed>>

GetActive(t) ==
  LET n == proc[t].name IN
  /\ At(t, "get") /\ n \in folders /\ active[n] # None
  /\ proc' = HandedWith(proc, t, active[n])
  /\ UNCHANGED <<folders, row, uid_vv, active, activating, mbox, calls, disputed>>

GetWaits(t) ==
  LET n == proc[t].name IN
  /\ At(t, "get") /\ n \in folders /\ active[n] = None /\ activating[n] # "no"
  /\ Goto(t, "waiting")
  /\ UNCHANGED <<folders, row, uid_vv, active, activating, mbox, calls, disputed>>

\* Which object is next makes no difference.
Unborn == LET dead == {o \in Objects : ~ mbox[o].alive}
          IN  IF dead = {} THEN {} ELSE {CHOOSE o \in dead : TRUE}

\* Mutant: a mailbox that is being activated is activated once more.
GetActivatesTwice(t) ==
  LET n == proc[t].name IN
  /\ At(t, "get") /\ n \in folders /\ active[n] = None /\ activating[n] # "failed"
  /\ \E o \in Unborn :
       /\ mbox' = [mbox EXCEPT ![o] = Fresh(n)]
       /\ proc' = [proc EXCEPT ![t] = [@ EXCEPT !.obj = o, !.pc = "activating"]]
  /\ activating' = [activating EXCEPT ![n] = "yes"]
  /\ UNCHANGED <<folders, row, uid_vv, active, calls, disputed>>

GetActivates(t) ==
  LET n == proc[t].name IN
  /\ At(t, "get") /\ n \in folders /\ active[n] = None /\ activating[n] = "no"
  /\ \E o \in Unborn :
       /\ mbox' = [mbox EXCEPT ![o] = Fresh(n)]
       /\ proc' = [proc EXCEPT ![t] = [@ EXCEPT !.obj = o, !.pc = "activating"]]
  /\ activating' = [activating EXCEPT ![n] = "yes"]
  /\ UNCHANGED <<folders, row, uid_vv, active, calls, disputed>>

\* The event was set; the comment in the code has it that the mailbox is there.
Woken(t) ==
  LET o == active[proc[t].name] IN
  /\ At(t, "woken")
  /\ IF o = None THEN Ends(t) ELSE proc' = HandedWith(proc, t, o)
  /\ UNCHANGED <<folders, row, uid_vv, active, activating, mbox, calls, disputed>>

(* Activation: Mailbox.new *)

RestoreRow(t) ==
  LET r == row[proc[t].name] IN
  /\ At(t, "activating") /\ r # NoRow
  /\ mbox' = [mbox EXCEPT ![proc[t].obj] = [@ EXCEPT !.id = r.id, !.vv = r.vv,
                                                     !.noselect = r.noselect]]
  /\ Goto(t, "checking")
  /\ UNCHANGED <<folders, row, uid_vv, active, activating, calls, disputed>>

\* get_next_uid_vv counts, then awaits the database, then reads the counter.
CountUidVv(t) ==
  /\ At(t, "activating") /\ row[proc[t].name] = NoRow
  /\ uid_vv < MaxVv
  /\ uid_vv' = uid_vv + 1
  /\ Goto(t, "counting")
  /\ UNCHANGED <<folders, row, active, activating, mbox, calls, disputed>>

\* The database gives the row an id that no other row has.
FreeId == CHOOSE i \in 1..Cardinality(Names) : \A n \in Names : row[n].id # i

\* Names are unique in the table.
InsertRow(t) ==
  LET n == proc[t].name IN
  /\ At(t, "counting") /\ row[n] = NoRow
  /\ row' = [row EXCEPT ![n] = [id |-> FreeId, vv |-> uid_vv, noselect |-> FALSE]]
  /\ mbox' = [mbox EXCEPT ![proc[t].obj] = [@ EXCEPT !.id = FreeId, !.vv = uid_vv]]
  /\ Goto(t, "checking")
  /\ UNCHANGED <<folders, uid_vv, active, activating, calls, disputed>>

\* An exception: the event stays, never to be set.  A check of the server takes
\* the one of a folder that is gone (ENOENT) as it takes NoSuchMailbox.
ActivationFails(t) ==
  LET n == proc[t].name IN
  /\ \/ At(t, "activating") /\ "fail" \in Faults
     \/ At(t, "counting") /\ row[n] # NoRow
     \/ At(t, "checking") /\ n \notin folders
  /\ activating' = [activating EXCEPT ![n] = "failed"]
  /\ IF At(t, "checking") THEN NoSuch(t) ELSE Ends(t)
  /\ UNCHANGED <<folders, row, uid_vv, active, mbox, calls, disputed>>

(* active_mailboxes_lock *)

\* RENAME has it while the database renames the row.  Who is next of those that
\* wait for it is left open.
Locked == \E u \in Tasks : proc[u].pc = "switch"

\* Mutant: those that came while the mailbox was checked are not told.
RegisterForgetting(t) ==
  LET n == proc[t].name  o == proc[t].obj IN
  /\ active' = [active EXCEPT ![n] = o]
  /\ activating' = [activating EXCEPT ![n] = "no"]
  /\ proc' = HandedWith(proc, t, o)

\* The mailbox is registered; whoever waits is woken.
Register(t) ==
  LET n == proc[t].name  o == proc[t].obj IN
  /\ active' = [active EXCEPT ![n] = o]
  /\ activating' = [activating EXCEPT ![n] = "no"]
  /\ proc' = HandedWith([u \in Tasks |-> IF proc[u].pc = "waiting" /\ proc[u].name = n
                                         THEN [proc[u] EXCEPT !.pc = "woken"] ELSE proc[u]], t, o)

\* The mailbox has a management task, unless it is \Noselect.
Checked(t) ==
  LET o == proc[t].obj IN
  /\ At(t, "checking") /\ proc[t].name \in folders
  /\ mbox' = [mbox EXCEPT ![o].served = ~ mbox[o].noselect]
  /\ UNCHANGED <<folders, row, uid_vv, calls, disputed>>

Activate(t) == Checked(t) /\ ~ Locked /\ Register(t)
WaitToRegister(t) == Checked(t) /\ Locked /\ Goto(t, "registering") /\ UNCHANGED <<active, activating>>
ActivateLate(t) ==
  /\ At(t, "registering") /\ ~ Locked
  /\ Register(t)
  /\ UNCHANGED <<folders, row, uid_vv, mbox, calls, disputed>>

-----------------------------------------------------------------------------
(* The queue of a mailbox, in brief: MailboxScheduler is about it *)

Busy(o) == \E t \in Tasks : proc[t].held = o /\ proc[t].pc # "queued"

\* SELECT, DELETE and RENAME queue for the mailbox they got.
Enqueue(t) ==
  /\ At(t, "queued") /\ proc[t].held = None
  /\ proc' = [proc EXCEPT ![t].held = proc[t].obj]
  /\ UNCHANGED <<folders, row, uid_vv, active, activating, mbox, calls, disputed>>

LetIn(t) ==
  LET o == proc[t].held IN
  /\ At(t, "queued") /\ o # None
  /\ mbox[o].served /\ ~ mbox[o].deleted /\ ~ Busy(o)
  /\ CASE proc[t].op = "SELECT" -> proc' = [proc EXCEPT ![t] = [@ EXCEPT !.pc = "selected", !.held = None]]
       [] proc[t].op = "DELETE" -> Gets(t, proc[t].name, "delete")
       [] proc[t].op = "RENAME" -> Gets(t, proc[t].name, "link")
  /\ UNCHANGED <<folders, row, uid_vv, active, activating, mbox, calls, disputed>>

\* The mailbox was deleted, or nobody serves it and COMMAND_TIMEOUT is up.
TurnedAway(t) ==
  LET o == proc[t].held IN
  /\ At(t, "queued") /\ o # None
  /\ mbox[o].deleted \/ ~ mbox[o].served
  /\ Ends(t)
  /\ UNCHANGED <<folders, row, uid_vv, active, activating, mbox, calls, disputed>>

Unselect(t) ==
  /\ At(t, "selected")
  /\ Ends(t)
  /\ UNCHANGED <<folders, row, uid_vv, active, activating, mbox, calls, disputed>>

-----------------------------------------------------------------------------
(* CREATE *)

\* The name is taken, unless by what a DELETE has left.
CreateExists(t) ==
  /\ At(t, "exists") /\ ~ mbox[proc[t].obj].noselect
  /\ Ends(t)
  /\ UNCHANGED <<folders, row, uid_vv, active, activating, mbox, calls, disputed>>

\* commit_to_db updates the row by its id.
RowOf(o) == {n \in Names : row[n] # NoRow /\ row[n].id = mbox[o].id}

CreateRevives(t) ==
  LET o == proc[t].obj IN
  /\ At(t, "exists") /\ mbox[o].noselect
  /\ mbox' = [mbox EXCEPT ![o] = [@ EXCEPT !.noselect = FALSE, !.served = TRUE]]
  /\ row' = [n \in Names |-> IF n \in RowOf(o) THEN [row[n] EXCEPT !.noselect = FALSE] ELSE row[n]]
  /\ Goto(t, "mkdir")
  /\ UNCHANGED <<folders, uid_vv, active, activating, calls, disputed>>

\* A name with those of the mailboxes that it is in.
Lineage(n) ==
  {m \in Names : \A S \in SUBSET Names :
     n \in S /\ (\A x \in S \cap Nested : Parent[x] \in S) => m \in S}

MakeFolder(t) ==
  LET n == proc[t].name IN
  /\ At(t, "mkdir")
  /\ folders' = folders \cup Lineage(n)
  /\ Gets(t, n, "made")
  /\ UNCHANGED <<row, uid_vv, active, activating, mbox, calls, disputed>>

\* From the mailbox up to the one that is in no other, each is told whether it
\* has children.
Made(t) ==
  LET n == proc[t].name IN
  /\ At(t, "made")
  /\ IF n \in Nested THEN Gets(t, Parent[n], "made") ELSE Ends(t)
  /\ UNCHANGED <<folders, row, uid_vv, active, activating, mbox, calls, disputed>>

\* Where a scan ends, and whoever had a parent told.
Done(t) ==
  /\ At(t, "done")
  /\ Ends(t)
  /\ UNCHANGED <<folders, row, uid_vv, active, activating, mbox, calls, disputed>>

-----------------------------------------------------------------------------
(* DELETE *)

\* Sessions that have the mailbox selected lose it.
WithoutClients(ps, o) ==
  [u \in Tasks |-> IF ps[u].pc = "selected" /\ ps[u].obj = o THEN Idle ELSE ps[u]]

DeleteRefused(t) ==
  /\ At(t, "delete") /\ proc[t].name \in Kept /\ mbox[proc[t].obj].noselect
  /\ Ends(t)
  /\ UNCHANGED <<folders, row, uid_vv, active, activating, mbox, calls, disputed>>

DeleteKeeps(t) ==
  LET o == proc[t].obj IN
  /\ At(t, "delete") /\ proc[t].name \in Kept /\ ~ mbox[o].noselect
  /\ uid_vv < MaxVv
  /\ uid_vv' = uid_vv + 1
  /\ mbox' = [mbox EXCEPT ![o].noselect = TRUE]
  /\ proc' = [WithoutClients(proc, o) EXCEPT ![t].pc = "recount"]
  /\ UNCHANGED <<folders, row, active, activating, calls, disputed>>

CommitNoselect(t) ==
  LET o == proc[t].obj IN
  /\ At(t, "recount")
  /\ mbox' = [mbox EXCEPT ![o].vv = uid_vv]
  /\ row' = [n \in Names |-> IF n \in RowOf(o) THEN [row[n] EXCEPT !.vv = uid_vv, !.noselect = TRUE]
                             ELSE row[n]]
  /\ Ends(t)
  /\ UNCHANGED <<folders, uid_vv, active, activating, calls, disputed>>

\* Mailbox.shutdown: from here on nobody is let in; the management task ends.
DeleteShutsDown(t) ==
  LET o == proc[t].obj IN
  /\ At(t, "delete") /\ proc[t].name \notin Kept
  /\ mbox' = [mbox EXCEPT ![o].deleted = TRUE]
  /\ proc' = [WithoutClients(proc, o) EXCEPT ![t].pc = "stopping"]
  /\ UNCHANGED <<folders, row, uid_vv, active, activating, calls, disputed>>

\* remove_folder raises if the folder is not there.
RemoveFolder(t) ==
  LET n == proc[t].name IN
  /\ At(t, "stopping")
  /\ mbox' = [mbox EXCEPT ![proc[t].obj].served = FALSE]
  /\ folders' = folders \ {n}
  /\ IF n \notin folders THEN Ends(t) ELSE Goto(t, "forgetting")
  /\ UNCHANGED <<row, uid_vv, active, activating, calls, disputed>>

\* The rows of this id ...
Forget(t) ==
  /\ At(t, "forgetting")
  /\ row' = [m \in Names |-> IF m \in RowOf(proc[t].obj) THEN NoRow ELSE row[m]]
  /\ Goto(t, "unregister")
  /\ UNCHANGED <<folders, uid_vv, active, activating, mbox, calls, disputed>>

\* ... and whatever is registered under the name; then the parent is told.
Unregister(t) ==
  LET n == proc[t].name IN
  /\ At(t, "unregister") /\ ~ Locked
  /\ active' = [active EXCEPT ![n] = None]
  /\ IF n \in Nested THEN Gets(t, Parent[n], "done") ELSE Ends(t)
  /\ UNCHANGED <<folders, row, uid_vv, activating, mbox, calls, disputed>>

-----------------------------------------------------------------------------
(* RENAME *)

\* The new name is taken, or there is no directory to put the link in.
RenameRefused(t) ==
  LET m == proc[t].to IN
  /\ At(t, "link")
  /\ m \in folders \/ (proc[t].name # Inbox /\ m \in Nested /\ Parent[m] \notin folders)
  /\ Ends(t)
  /\ UNCHANGED <<folders, row, uid_vv, active, activating, mbox, calls, disputed>>

\* The messages of INBOX are moved to a new mailbox.
RenameInbox(t) ==
  /\ At(t, "link") /\ proc[t].to \notin folders /\ proc[t].name = Inbox
  /\ Gets(t, proc[t].to, "exists")
  /\ UNCHANGED <<folders, row, uid_vv, active, activating, mbox, calls, disputed>>

\* A symbolic link, so that the folder is found under both names.
LinkNewName(t) ==
  LET n == proc[t].name  m == proc[t].to IN
  /\ At(t, "link") /\ m \notin folders /\ n # Inbox /\ (m \in Nested => Parent[m] \in folders)
  /\ folders' = IF n \in folders THEN folders \cup {m} ELSE folders
  /\ disputed' = disputed \cup {n, m}
  /\ IF row[n] = NoRow THEN Goto(t, "unlink") ELSE Gets(t, n, "rename")
  /\ UNCHANGED <<row, uid_vv, active, activating, mbox, calls>>

\* Mutant: the row is written under the new name, and the old one stays.
RenameRowTwice(t) ==
  LET n == proc[t].name  m == proc[t].to IN
  /\ At(t, "rename") /\ ~ Locked
  /\ IF row[m] = NoRow
       THEN row' = [row EXCEPT ![m] = row[n]] /\ Goto(t, "switch")
       ELSE UNCHANGED row /\ Ends(t)
  /\ UNCHANGED <<folders, uid_vv, active, activating, mbox, calls, disputed>>

\* Names are unique in the table: the command fails, and the link stays.
RenameRow(t) ==
  LET n == proc[t].name  m == proc[t].to IN
  /\ At(t, "rename") /\ ~ Locked
  /\ IF row[m] = NoRow
       THEN row' = [row EXCEPT ![m] = row[n], ![n] = NoRow] /\ Goto(t, "switch")
       ELSE UNCHANGED row /\ Ends(t)
  /\ UNCHANGED <<folders, uid_vv, active, activating, mbox, calls, disputed>>

\* Mutant: the object keeps its old name.
SwitchNamelessly(t) ==
  LET n == proc[t].name  m == proc[t].to  o == active[n] IN
  /\ At(t, "switch") /\ o # None
  /\ active' = [active EXCEPT ![n] = None, ![m] = o]
  /\ Goto(t, "unlink")
  /\ UNCHANGED <<folders, row, uid_vv, activating, mbox, calls, disputed>>

SwitchName(t) ==
  LET n == proc[t].name  m == proc[t].to  o == active[n] IN
  /\ At(t, "switch") /\ o # None
  /\ mbox' = [mbox EXCEPT ![o].name = m]
  /\ active' = [active EXCEPT ![n] = None, ![m] = o]
  /\ Goto(t, "unlink")
  /\ UNCHANGED <<folders, row, uid_vv, activating, calls, disputed>>

SwitchFails(t) ==
  /\ At(t, "switch") /\ active[proc[t].name] = None
  /\ Ends(t)
  /\ UNCHANGED <<folders, row, uid_vv, active, activating, mbox, calls, disputed>>

Unlink(t) ==
  /\ At(t, "unlink")
  /\ folders' = folders \ {proc[t].to}
  /\ Goto(t, "move")
  /\ UNCHANGED <<row, uid_vv, active, activating, mbox, calls, disputed>>

\* os.rename: over a folder that someone has made meanwhile, if it is empty.
\* The parent of the old name is told, and then that of the new one.
MoveFolder(t) ==
  LET n == proc[t].name IN
  /\ At(t, "move")
  /\ IF n \notin folders THEN UNCHANGED folders /\ Ends(t)
     ELSE /\ folders' = (folders \cup {proc[t].to}) \ {n}
          /\ IF n \in Nested THEN Gets(t, Parent[n], "moved") ELSE Goto(t, "moved")
  /\ UNCHANGED <<row, uid_vv, active, activating, mbox, calls, disputed>>

Moved(t) ==
  LET m == proc[t].to IN
  /\ At(t, "moved")
  /\ IF m \in Nested THEN Gets(t, Parent[m], "done") ELSE Ends(t)
  /\ UNCHANGED <<folders, row, uid_vv, active, activating, mbox, calls, disputed>>

-----------------------------------------------------------------------------
(* The server's own tasks *)

\* check_folder found that the folder is gone.
RemoveStaleRow(t) ==
  LET n == proc[t].name IN
  /\ At(t, "stale")
  /\ row' = [row EXCEPT ![n] = NoRow]
  /\ disputed' = disputed \cup {n}
  /\ Goto(t, "pop")
  /\ UNCHANGED <<folders, uid_vv, active, activating, mbox, calls>>

PopStale(t) ==
  /\ At(t, "pop") /\ ~ Locked
  /\ active' = [active EXCEPT ![proc[t].name] = None]
  /\ Ends(t)
  /\ UNCHANGED <<folders, row, uid_vv, activating, mbox, calls, disputed>>

-----------------------------------------------------------------------------
(* Calls *)

Start(t, op, n, m, pc, then) ==
  /\ At(t, "idle") /\ op \in Offered /\ calls < MaxCalls
  /\ calls' = calls + 1
  /\ proc' = [proc EXCEPT ![t] = [Idle EXCEPT !.op = op, !.name = n, !.to = m, !.pc = pc, !.then = then]]
  /\ UNCHANGED <<folders, row, uid_vv, active, activating, mbox, disputed>>

\* Mailboxes that are moved with others in them: not here.
Outer == {Parent[n] : n \in Nested} \ {Inbox}

Call(t) ==
  \/ \E n \in Names : Start(t, "SELECT", n, n, "get", "queued")
  \/ \E n \in Names \ {Inbox} : Start(t, "CREATE", n, n, "get", "exists")
  \/ \E n \in Names \ {Inbox} : Start(t, "DELETE", n, n, "get", "queued")
  \/ \E n \in Names \ Outer, m \in Names \ {Inbox} : n # m /\ Start(t, "RENAME", n, m, "get", "queued")
  \/ \E n \in folders : row[n] = NoRow /\ Start(t, "SCAN", n, n, "get", "done")
  \/ \E n \in Names : row[n] # NoRow /\ active[n] = None /\
       Start(t, "CHECK", n, n, IF n \in folders THEN "get" ELSE "stale", "done")

Getting(t) ==
  \/ GetMissing(t) \/ GetActive(t) \/ GetWaits(t) \/ GetActivates(t) \/ Woken(t)
  \/ RestoreRow(t) \/ CountUidVv(t) \/ InsertRow(t) \/ ActivationFails(t)
  \/ Activate(t) \/ WaitToRegister(t) \/ ActivateLate(t)
Creating(t) == CreateExists(t) \/ CreateRevives(t) \/ MakeFolder(t) \/ Made(t) \/ Done(t)
Deleting(t) ==
  \/ DeleteRefused(t) \/ DeleteKeeps(t) \/ CommitNoselect(t)
  \/ DeleteShutsDown(t) \/ RemoveFolder(t) \/ Forget(t) \/ Unregister(t)
Renaming(t) ==
  \/ RenameRefused(t) \/ RenameInbox(t) \/ LinkNewName(t) \/ RenameRow(t)
  \/ SwitchName(t) \/ SwitchFails(t) \/ Unlink(t) \/ MoveFolder(t)
  \/ Moved(t)
Checking(t) == RemoveStaleRow(t) \/ PopStale(t)
Queueing(t) == Enqueue(t) \/ LetIn(t) \/ TurnedAway(t)

Step(t) == Getting(t) \/ Creating(t) \/ Deleting(t) \/ Renaming(t) \/ Checking(t) \/ Queueing(t)

\* A start of the server: the folders are all there or INBOX only, and what the
\* database of an earlier run knows of them.
Init ==
  /\ folders \in {{Inbox}, Names}
  /\ \E known \in {{}} \cup {{n} : n \in Nested} :
       /\ row = [n \in Names |-> IF n \in known THEN [id |-> 1, vv |-> 1, noselect |-> FALSE] ELSE NoRow]
       /\ uid_vv = Cardinality(known)
  /\ calls = 0
  /\ active = [n \in Names |-> None]
  /\ activating = [n \in Names |-> "no"]
  /\ mbox = [o \in Objects |-> [Fresh(Inbox) EXCEPT !.alive = FALSE]]
  /\ proc = [t \in Tasks |-> Idle]
  /\ disputed = {}

Next ==
  \/ \E o \in Objects : Collect(o)
  \/ \E t \in Tasks : Call(t) \/ Step(t) \/ Unselect(t)

Spec == Init /\ [][Next]_vars

-----------------------------------------------------------------------------
(* Properties *)

\* One folder, one Mailbox: two objects that hand out UIDs for one name would
\* give the same UIDs to different messages.  Not so for disputed names.
AtWork(o) ==
  \/ mbox[o].served /\ ~ mbox[o].deleted
  \/ \E t \in Tasks : proc[t].obj = o /\ proc[t].pc \in Activating

OneMailboxPerName ==
  \A o1, o2 \in Objects : o1 # o2 /\ AtWork(o1) /\ AtWork(o2) /\ mbox[o1].name = mbox[o2].name
    => mbox[o1].name \in disputed

\* A mailbox that is served can be found under its name, and under no other:
\* unless the name is disputed, or its activation waits, with the management
\* task at work already, for the lock that RENAME kept over its await.
ServedIsRegistered ==
  \A o \in Objects : mbox[o].served =>
    /\ active[mbox[o].name] = o \/ mbox[o].name \in disputed
       \/ \E t \in Tasks : proc[t].pc = "registering" /\ proc[t].obj = o
    /\ \A n \in Names : active[n] = o => n = mbox[o].name

\* Whoever waits for a mailbox waits for a task that is activating it, or for one
\* that failed to.
NobodyForgotten ==
  \A t \in Tasks : proc[t].pc = "waiting" /\ activating[proc[t].name] # "failed" =>
    \E u \in Tasks : proc[u].name = proc[t].name /\ proc[u].pc \in Activating

=============================================================================
