---------------------------- MODULE FrontServer ----------------------------
(***************************************************************************)
(* The front server for one user: connections over IMAP and POP3 that have *)
(* logged in get the user's server process (server.py: IMAPSubprocess,     *)
(* get_and_connect_subprocess), started at need under the read/write lock, *)
(* and a relay of its own to it; the process may die, give up for want of  *)
(* clients, or be terminated when the front server stops.                  *)
(*                                                                         *)
(* Logging in itself is module Login.  A process is known by a number, which *)
(* stands for its port, too.                                               *)
(***************************************************************************)
EXTENDS Integers, FiniteSets

CONSTANTS Conns, Pop3,
          Main,      \* IMAPServer.run, when it stops
          Nobody,
          MaxProcs,  \* bound on the processes started
          MaxLogins  \* bound on the logins

ASSUME FrontAssumption == /\ IsFiniteSet(Conns) /\ Pop3 \subseteq Conns /\ Main \notin Conns
                          /\ Nobody \notin Conns \cup {Main}
                          /\ MaxProcs \in Nat \ {0} /\ MaxLogins \in Nat

VARIABLES
  at, writer, _readers, _want_write,  \* USER_IMAP_SUBPROCESSES_LOCK
  procs,   \* the processes: what each one is at
  handle,  \* the IMAPSubprocess of the user
  conn,    \* the connections
  phase,   \* how far the front server is with stopping
  logins,
  late     \* processes started by POP3 after IMAPServer.run went through them

lock == <<at, writer, _readers, _want_write>>
vars == <<lock, procs, handle, conn, phase, logins, late>>

LOCK == INSTANCE ReadWriteLock WITH Tasks <- Conns \cup {Main}, LockFaults <- {}

Ids    == 1..MaxProcs
Live   == {p \in Ids : procs[p] \in {"booting", "serving"}}
Newest == Cardinality({p \in Ids : procs[p] # "none"})

\* link: the process it is connected to, or 0; up: that end has not closed it;
\* open: the client is connected; in: authenticated, or `transaction'.
Conn == [pc : {"client", "locking", "spawning", "booting", "leaving", "failing", "port", "connect", "ending", "gone"},
         in : BOOLEAN, relay : {"none", "new", "running", "closing"},
         link : 0..MaxProcs, up : BOOLEAN, open : BOOLEAN]
NewConn == [pc |-> "client", in |-> FALSE, relay |-> "none", link |-> 0, up |-> FALSE, open |-> TRUE]

\* Every variable has its type; a relay has a process that it relays for.
FrontTypeOK ==
  /\ LOCK!LockTypeOK
  /\ procs \in [Ids -> {"none", "booting", "serving", "dead"}]
  /\ handle \in [is_alive : BOOLEAN, has_port : BOOLEAN, port : 0..MaxProcs]
  /\ conn \in [Conns -> Conn]
  /\ \A c \in Conns : conn[c].relay \in {"new", "running"} => conn[c].link # 0
  /\ phase \in {"up", "closing", "locking", "waiting", "done"}
  /\ logins \in 0..MaxLogins /\ late \subseteq Ids

Is(c, pc) == conn[c].pc = pc
Goto(c, pc) == conn' = [conn EXCEPT ![c].pc = pc]

-----------------------------------------------------------------------------
(* The process of the user, as the front server sees it *)

\* run() prints the port once the folders have been found.
Serve(p) ==
  /\ procs[p] = "booting"
  /\ procs' = [procs EXCEPT ![p] = "serving"]
  /\ UNCHANGED <<lock, handle, conn, phase, logins, late>>

\* It crashes, or has had no clients for half an hour.
Die(p) ==
  /\ p \in Live
  /\ procs' = [procs EXCEPT ![p] = "dead"]
  /\ conn' = [c \in Conns |-> IF conn[c].link = p THEN [conn[c] EXCEPT !.up = FALSE] ELSE conn[c]]
  /\ UNCHANGED <<lock, handle, phase, logins, late>>

subprocess_wait ==
  /\ handle.is_alive /\ Newest # 0 /\ procs[Newest] = "dead"
  /\ handle' = [handle EXCEPT !.is_alive = FALSE]
  /\ UNCHANGED <<lock, procs, conn, phase, logins, late>>

\* LOGOUT, BYE or QUIT: the process closes this connection.
Dismiss(c) ==
  /\ conn[c].link # 0 /\ conn[c].up
  /\ conn' = [conn EXCEPT ![c].up = FALSE]
  /\ UNCHANGED <<lock, procs, handle, phase, logins, late>>

-----------------------------------------------------------------------------
(* get_and_connect_subprocess *)

\* The client is authenticated.  IMAP says so before there is a process.
LogIn(c) ==
  /\ Is(c, "client") /\ ~ conn[c].in /\ logins < MaxLogins
  /\ logins' = logins + 1
  /\ conn' = [conn EXCEPT ![c] = [@ EXCEPT !.pc = "locking", !.in = c \notin Pop3]]
  /\ LOCK!ReadLock(c)
  /\ UNCHANGED <<procs, handle, phase, late>>

\* The steps of the lock.
InLock(c) ==
  /\ conn[c].pc \in {"locking", "leaving", "failing"}
  /\ LOCK!LockStep(c)
  /\ UNCHANGED <<procs, handle, conn, phase, logins, late>>

GoesOn(c) ==
  /\ \/ Is(c, "locking") /\ LOCK!WriteLock(c)
     \/ conn[c].pc \in {"leaving", "failing"} /\ LOCK!ReadUnlock(c)
  /\ UNCHANGED <<procs, handle, conn, phase, logins, late>>

Alive(c) ==
  /\ Is(c, "locking") /\ at[c] = "writing" /\ handle.is_alive
  /\ Goto(c, "leaving")
  /\ LOCK!WriteUnlock(c)
  /\ UNCHANGED <<procs, handle, phase, logins, late>>

\* Mutant: the lock for reading is all that a start takes.
StartShared(c) ==
  /\ Is(c, "locking") /\ at[c] \in {"reading", "writing"} /\ ~ handle.is_alive
  /\ Newest < MaxProcs
  /\ Goto(c, "spawning")
  /\ UNCHANGED <<lock, procs, handle, phase, logins, late>>

\* IMAPSubprocess.start, up to the await of create_subprocess_exec.
Start(c) ==
  /\ Is(c, "locking") /\ at[c] = "writing" /\ ~ handle.is_alive
  /\ Newest < MaxProcs
  /\ Goto(c, "spawning")
  /\ UNCHANGED <<lock, procs, handle, phase, logins, late>>

\* There is a process: has_port and port stay as an earlier one left them.
Spawn(c) ==
  /\ Is(c, "spawning")
  /\ procs' = [procs EXCEPT ![Newest + 1] = "booting"]
  /\ handle' = [handle EXCEPT !.is_alive = TRUE]
  /\ late' = IF c \in Pop3 /\ phase \in {"waiting", "done"} THEN late \cup {Newest + 1} ELSE late
  /\ Goto(c, "booting")
  /\ UNCHANGED <<lock, phase, logins>>

ReadPort(c) ==
  /\ Is(c, "booting") /\ procs[Newest] = "serving"
  /\ handle' = [handle EXCEPT !.port = Newest, !.has_port = TRUE]
  /\ Goto(c, "leaving")
  /\ LOCK!WriteUnlock(c)
  /\ UNCHANGED <<procs, phase, logins, late>>

\* No process can be made; or there is nothing to read from it, as it has died or
\* takes longer than five minutes.
StartFails(c) ==
  /\ Is(c, "spawning") \/ (Is(c, "booting") /\ procs[Newest] # "serving")
  /\ Goto(c, "failing")
  /\ LOCK!WriteUnlock(c)
  /\ UNCHANGED <<procs, handle, phase, logins, late>>

OutOfLock(c) ==
  /\ at[c] = "out"
  /\ \/ Is(c, "leaving") /\ Goto(c, "port")
     \/ Is(c, "failing") /\ Goto(c, "ending")
  /\ UNCHANGED <<lock, procs, handle, phase, logins, late>>

\* has_port.wait(), five minutes at most.
HasPort(c) ==
  /\ Is(c, "port")
  /\ Goto(c, IF handle.has_port THEN "connect" ELSE "ending")
  /\ UNCHANGED <<lock, procs, handle, phase, logins, late>>

Connect(c) ==
  /\ Is(c, "connect") /\ procs[handle.port] = "serving"
  /\ conn' = [conn EXCEPT ![c] = [@ EXCEPT !.pc = "client", !.in = TRUE, !.relay = "new",
                                           !.link = handle.port, !.up = TRUE]]
  /\ UNCHANGED <<lock, procs, handle, phase, logins, late>>

ConnectionRefused(c) ==
  /\ Is(c, "connect") /\ procs[handle.port] # "serving"
  /\ Goto(c, "ending")
  /\ UNCHANGED <<lock, procs, handle, phase, logins, late>>

-----------------------------------------------------------------------------
(* The relay: msgs_to_client, and IMAPClient.start *)

RelayBegins(c) ==
  /\ conn[c].relay = "new"
  /\ conn' = [conn EXCEPT ![c].relay = "running"]
  /\ UNCHANGED <<lock, procs, handle, phase, logins, late>>

\* Mutant: the task goes on after the end of file.
RelayEndless(c) ==
  /\ conn[c].relay = "running" /\ (~ conn[c].up \/ ~ conn[c].open)
  /\ conn' = [conn EXCEPT ![c] = [@ EXCEPT !.link = 0, !.up = FALSE, !.open = FALSE]]
  /\ UNCHANGED <<lock, procs, handle, phase, logins, late>>

\* The process has closed its end, or the client cannot be written to.
RelayEnds(c) ==
  /\ conn[c].relay = "running" /\ (~ conn[c].up \/ ~ conn[c].open)
  /\ conn' = [conn EXCEPT ![c] = [@ EXCEPT !.relay = "closing", !.link = 0, !.up = FALSE,
                                           !.open = FALSE]]
  /\ UNCHANGED <<lock, procs, handle, phase, logins, late>>

\* msgs_to_client_done: IMAP is back to before LOGIN, POP3 is not.
RelayDone(c) ==
  /\ conn[c].relay = "closing"
  /\ conn' = [conn EXCEPT ![c] = [@ EXCEPT !.relay = "none", !.in = conn[c].in /\ c \in Pop3]]
  /\ UNCHANGED <<lock, procs, handle, phase, logins, late>>

HangUp(c) ==
  /\ conn[c].pc # "gone" /\ conn[c].open
  /\ conn' = [conn EXCEPT ![c].open = FALSE]
  /\ UNCHANGED <<lock, procs, handle, phase, logins, late>>

\* End of file; a command for a process that is gone; or LOGOUT before LOGIN.
StopReading(c) ==
  /\ Is(c, "client") /\ (~ conn[c].open \/ ~ conn[c].in \/ conn[c].link = 0)
  /\ Goto(c, "ending")
  /\ UNCHANGED <<lock, procs, handle, phase, logins, late>>

\* A relay that has not begun is cancelled without closing anything.
EndConn(c) ==
  /\ Is(c, "ending")
  /\ conn' = [conn EXCEPT ![c] =
       IF @.relay = "new" THEN [@ EXCEPT !.pc = "gone", !.relay = "none", !.open = FALSE]
       ELSE [NewConn EXCEPT !.pc = "gone", !.open = FALSE]]
  /\ UNCHANGED <<lock, procs, handle, phase, logins, late>>

\* The stream to the process goes with the last reference to it.
Collected(c) ==
  /\ Is(c, "gone") /\ conn[c].link # 0
  /\ conn' = [conn EXCEPT ![c] = [@ EXCEPT !.link = 0, !.up = FALSE]]
  /\ UNCHANGED <<lock, procs, handle, phase, logins, late>>

NewClient(c) ==
  /\ Is(c, "gone") /\ conn[c].link = 0 /\ phase = "up" /\ logins < MaxLogins
  /\ conn' = [conn EXCEPT ![c] = NewConn]
  /\ UNCHANGED <<lock, procs, handle, phase, logins, late>>

-----------------------------------------------------------------------------
(* The end of IMAPServer.run, and of POP3Server.run *)

\* Both close the connections of their clients.
Stop ==
  /\ phase = "up"
  /\ phase' = "closing"
  /\ conn' = [c \in Conns |-> [conn[c] EXCEPT !.open = FALSE]]
  /\ UNCHANGED <<lock, procs, handle, logins, late>>

\* Mutant: the tasks of the clients are not waited for.
StopAtOnce ==
  /\ phase = "closing"
  /\ phase' = "locking"
  /\ LOCK!ReadLock(Main)
  /\ UNCHANGED <<procs, handle, conn, logins, late>>

\* The tasks of the IMAP clients have ended.
StopClients ==
  /\ phase = "closing" /\ \A c \in Conns \ Pop3 : Is(c, "gone")
  /\ phase' = "locking"
  /\ LOCK!ReadLock(Main)
  /\ UNCHANGED <<procs, handle, conn, logins, late>>

StopInLock ==
  /\ \/ phase \in {"locking", "waiting"} /\ LOCK!LockStep(Main)
     \/ phase = "locking" /\ LOCK!WriteLock(Main)
     \/ phase = "waiting" /\ LOCK!ReadUnlock(Main)
  /\ UNCHANGED <<procs, handle, conn, phase, logins, late>>

Terminate ==
  /\ phase = "locking" /\ at[Main] = "writing"
  /\ phase' = "waiting"
  /\ LOCK!WriteUnlock(Main)
  /\ procs' = [p \in Ids |-> IF p = Newest /\ p \in Live THEN "dead" ELSE procs[p]]
  /\ conn' = [c \in Conns |-> IF conn[c].link = Newest THEN [conn[c] EXCEPT !.up = FALSE] ELSE conn[c]]
  /\ UNCHANGED <<handle, logins, late>>

Stopped ==
  /\ phase = "waiting" /\ at[Main] = "out"
  /\ phase' = "done"
  /\ UNCHANGED <<lock, procs, handle, conn, logins, late>>

-----------------------------------------------------------------------------

Init ==
  /\ LOCK!LockInit
  /\ procs = [p \in Ids |-> "none"]
  /\ handle = [is_alive |-> FALSE, has_port |-> FALSE, port |-> 0]
  /\ conn = [c \in Conns |-> NewConn]
  /\ phase = "up" /\ logins = 0 /\ late = {}

\* What a connection does without its client or the process.
Progress(c) ==
  \/ InLock(c) \/ GoesOn(c) \/ Alive(c) \/ Start(c) \/ Spawn(c) \/ ReadPort(c) \/ StartFails(c)
  \/ OutOfLock(c) \/ HasPort(c) \/ Connect(c) \/ ConnectionRefused(c) \/ EndConn(c)
Relay(c) == RelayBegins(c) \/ RelayEnds(c) \/ RelayDone(c)
Stopping == StopClients \/ StopInLock \/ Terminate \/ Stopped

Next ==
  \/ \E p \in Ids : Serve(p) \/ Die(p)
  \/ subprocess_wait \/ Stop \/ Stopping
  \/ \E c \in Conns : \/ LogIn(c) \/ Progress(c) \/ Relay(c) \/ StopReading(c)
                      \/ Dismiss(c) \/ HangUp(c) \/ Collected(c) \/ NewClient(c)

Spec == Init /\ [][Next]_vars

\* The event loop runs what can go on; a client that is cut off sends no more.
FairSpec ==
  /\ Spec
  /\ \A c \in Conns : WF_vars(Progress(c) \/ Relay(c) \/ (~ conn[c].open /\ StopReading(c)))
  /\ WF_vars(Stopping)

-----------------------------------------------------------------------------
(* Properties *)

\* Two processes of one user would work on the same mailboxes: start() is called
\* only when there is none, and by one task at a time.
OneServerPerUser == Cardinality(Live) <= 1

\* Once the front server has stopped no process of a user goes on, but what POP3
\* clients started behind its back.
NoOrphan == phase = "done" => Live \subseteq late

\* A connection whose process is gone is closed, and a login comes to an end.
Settles ==
  \A c \in Conns : (conn[c].pc \notin {"client", "gone"} \/ (conn[c].relay = "running" /\ ~ conn[c].up))
                   ~> (Is(c, "gone") \/ (Is(c, "client") /\ conn[c].in /\ conn[c].relay # "none" /\ conn[c].up))
=============================================================================
