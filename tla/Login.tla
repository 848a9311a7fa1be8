-------------------------------- MODULE Login --------------------------------
(***************************************************************************)
(* Logging in at the front server, over IMAP (LOGIN) and POP3 (USER, PASS): *)
(* the counts of failures in throttle.py and the cache of the password file *)
(* in auth.py, by connections that wait for the file and for the hash.     *)
(*                                                                         *)
(* A version of the password file stands for its contents and for its mtime: *)
(* every write is taken to have a later mtime than those before, so that two *)
(* writes within one tick of the file system, or a file put there with an   *)
(* older mtime, are not in the model.  A password is known by the version  *)
(* of the file that has it.                                                *)
(***************************************************************************)
EXTENDS Integers, FiniteSets

CONSTANTS Conns,            \* connections
          Pop3,             \* those that speak POP3
          Users,
          Addrs,
          AddrOf,           \* the address of each connection
          Listed,           \* the users in each version of the file
          MaxVersion,       \* bound on the versions
          MaxUserAttempts,  \* MAX_USER_ATTEMPTS
          MaxAddrAttempts,  \* MAX_ADDR_ATTEMPTS
          None

ASSUME LoginAssumption ==
  /\ IsFiniteSet(Conns) /\ Pop3 \subseteq Conns /\ AddrOf \in [Conns -> Addrs]
  /\ MaxVersion \in Nat \ {0} /\ Listed \in [1..MaxVersion -> SUBSET Users]
  /\ MaxUserAttempts \in Nat /\ MaxAddrAttempts \in Nat
  /\ None \notin Users

VARIABLES
  badUser,  \* BAD_USER_AUTHS: failures, and whether the last is over PURGE_TIME ago
  badAddr,  \* BAD_IP_AUTHS
  file,     \* the password file
  users,    \* USERS: the version of the file it was read from
  stamp,    \* PW_FILE_LAST_TIMESTAMP
  conn

vars == <<badUser, badAddr, file, users, stamp, conn>>

Version == 1..MaxVersion
Entry   == [n : Nat, old : BOOLEAN]
Clear   == [n |-> 0, old |-> FALSE]   \* no entry at all

\* Points at which a connection waits: for its client, 10 seconds, the mtime,
\* to go on, the file to be opened and read, the hash; or it is logged in.
Waiting == {"client", "delayed", "mtime", "stamped", "open", "read", "hash"}
Conn == [pc : Waiting \cup {"in", "gone"}, user : Users \cup {None},
         password : 0..MaxVersion, mtime : 0..MaxVersion, opened : 0..MaxVersion,
         seen : 0..MaxVersion, began : 0..MaxVersion]
NewConn == [pc |-> "client", user |-> None, password |-> 0, mtime |-> 0, opened |-> 0,
            seen |-> 0, began |-> 0]

\* Every variable has its type; a name is known to who is past USER.
LoginTypeOK ==
  /\ badUser \in [Users -> Entry] /\ badAddr \in [Addrs -> Entry]
  /\ file \in Version /\ users \in 0..MaxVersion /\ stamp \in 0..MaxVersion
  /\ conn \in [Conns -> Conn]
  /\ \A c \in Conns : conn[c].pc \notin {"client", "gone"} => conn[c].user # None

-----------------------------------------------------------------------------
(* throttle.py *)

Purged(e) == IF e.old THEN Clear ELSE e

\* Mutant: only addresses are looked at.
ExceededByAddr(c, u) == Purged(badAddr[AddrOf[c]]).n > MaxAddrAttempts

Exceeded(c, u) ==
  \/ Purged(badUser[u]).n > MaxUserAttempts
  \/ Purged(badAddr[AddrOf[c]]).n > MaxAddrAttempts

\* check_allow drops the entries of this user and this address that are old.
Purge(c, u) ==
  /\ badUser' = [badUser EXCEPT ![u] = Purged(@)]
  /\ badAddr' = [badAddr EXCEPT ![AddrOf[c]] = Purged(@)]

OneMore(e) == [n |-> e.n + 1, old |-> FALSE]

login_failed(c, u) ==
  /\ badUser' = [badUser EXCEPT ![u] = OneMore(@)]
  /\ badAddr' = [badAddr EXCEPT ![AddrOf[c]] = OneMore(@)]

\* PURGE_TIME has passed since the last failure.
AgeUser(u) ==
  /\ badUser[u].n > 0 /\ ~ badUser[u].old
  /\ badUser' = [badUser EXCEPT ![u].old = TRUE]
  /\ UNCHANGED <<badAddr, file, users, stamp, conn>>

AgeAddr(a) ==
  /\ badAddr[a].n > 0 /\ ~ badAddr[a].old
  /\ badAddr' = [badAddr EXCEPT ![a].old = TRUE]
  /\ UNCHANGED <<badUser, file, users, stamp, conn>>

-----------------------------------------------------------------------------
(* Commands *)

\* USER of POP3.
Name(c) ==
  /\ c \in Pop3 /\ conn[c].pc = "client"
  /\ \E u \in Users : conn' = [conn EXCEPT ![c].user = u]
  /\ UNCHANGED <<badUser, badAddr, file, users, stamp>>

Attempt(c, u, p) == [NewConn EXCEPT !.pc = "mtime", !.user = u, !.password = p, !.began = file]

Allowed(c, u, p) ==
  /\ ~ Exceeded(c, u)
  /\ Purge(c, u)
  /\ conn' = [conn EXCEPT ![c] = Attempt(c, u, p)]
  /\ UNCHANGED <<file, users, stamp>>

\* POP3 hangs up, IMAP keeps its client waiting.
Denied(c, u) ==
  /\ Exceeded(c, u)
  /\ Purge(c, u)
  /\ conn' = [conn EXCEPT ![c] = IF c \in Pop3 THEN [NewConn EXCEPT !.pc = "gone"]
                                 ELSE [NewConn EXCEPT !.pc = "delayed", !.user = u]]
  /\ UNCHANGED <<file, users, stamp>>

\* PASS needs a USER before it; LOGIN has both.
LogIn(c) ==
  /\ conn[c].pc = "client"
  /\ \E u \in IF c \in Pop3 THEN {conn[c].user} \ {None} ELSE Users :
       Denied(c, u) \/ \E p \in Version : Allowed(c, u, p)

EndDelay(c) ==
  /\ conn[c].pc = "delayed"
  /\ conn' = [conn EXCEPT ![c] = NewConn]
  /\ UNCHANGED <<badUser, badAddr, file, users, stamp>>

-----------------------------------------------------------------------------
(* authenticate *)

StatFile(c) ==
  /\ conn[c].pc = "mtime"
  /\ conn' = [conn EXCEPT ![c] = [@ EXCEPT !.mtime = file, !.pc = "stamped"]]
  /\ UNCHANGED <<badUser, badAddr, file, users, stamp>>

\* Mutant: the name is forgotten, and the next attempt goes on without it.
RefusedNameless(c) ==
  /\ login_failed(c, conn[c].user)
  /\ conn' = [conn EXCEPT ![c] = [NewConn EXCEPT !.pc = "mtime"]]

\* Told no: POP3 still knows the name.
Refused(c) ==
  /\ login_failed(c, conn[c].user)
  /\ conn' = [conn EXCEPT ![c] = IF c \in Pop3 THEN [NewConn EXCEPT !.user = conn[c].user] ELSE NewConn]

\* The user's entry in USERS, as read from version v, is held from here on.
LookUp(c, v) ==
  \/ conn[c].user \notin Listed[v] /\ Refused(c)
  \/ /\ conn[c].user \in Listed[v]
     /\ conn' = [conn EXCEPT ![c] = [@ EXCEPT !.pc = "hash", !.seen = v, !.mtime = 0, !.opened = 0]]
     /\ UNCHANGED <<badUser, badAddr>>

\* Mutant: the file is read once and for all.
UseCacheForever(c) ==
  /\ conn[c].pc = "stamped" /\ users # 0
  /\ LookUp(c, users)
  /\ UNCHANGED <<file, users, stamp>>

UseCache(c) ==
  /\ conn[c].pc = "stamped" /\ conn[c].mtime <= stamp
  /\ LookUp(c, users)
  /\ UNCHANGED <<file, users, stamp>>

\* Mutant: the time stamp is set before the file has been read.
NeedsFileStamped(c) ==
  /\ conn[c].pc = "stamped" /\ conn[c].mtime > stamp
  /\ stamp' = conn[c].mtime
  /\ conn' = [conn EXCEPT ![c].pc = "open"]
  /\ UNCHANGED <<badUser, badAddr, file, users>>

NeedsFile(c) ==
  /\ conn[c].pc = "stamped" /\ conn[c].mtime > stamp
  /\ conn' = [conn EXCEPT ![c].pc = "open"]
  /\ UNCHANGED <<badUser, badAddr, file, users, stamp>>

\* The file is replaced by a rename: what was opened stays as it is.
OpenFile(c) ==
  /\ conn[c].pc = "open"
  /\ conn' = [conn EXCEPT ![c] = [@ EXCEPT !.opened = file, !.pc = "read"]]
  /\ UNCHANGED <<badUser, badAddr, file, users, stamp>>

ReadFile(c) ==
  /\ conn[c].pc = "read"
  /\ users' = conn[c].opened
  /\ stamp' = conn[c].mtime
  /\ LookUp(c, conn[c].opened)
  /\ UNCHANGED file

Accept(c) ==
  /\ conn[c].pc = "hash" /\ conn[c].password = conn[c].seen
  /\ conn' = [conn EXCEPT ![c].pc = "in"]
  /\ UNCHANGED <<badUser, badAddr, file, users, stamp>>

Refuse(c) ==
  /\ conn[c].pc = "hash" /\ conn[c].password # conn[c].seen
  /\ Refused(c)
  /\ UNCHANGED <<file, users, stamp>>

\* LOGOUT, QUIT, or the client hangs up.  There is no mailbox: as if refused,
\* but nothing is counted.
Leave(c) ==
  /\ conn[c].pc \in {"client", "in"}
  /\ conn' = [conn EXCEPT ![c] = [NewConn EXCEPT !.pc = "gone"]]
  /\ UNCHANGED <<badUser, badAddr, file, users, stamp>>

\* OSError: the password file is not there, or not to be read.  The connection
\* ends, and nothing is counted.
FileFails(c) ==
  /\ conn[c].pc \in {"mtime", "open", "read"}
  /\ conn' = [conn EXCEPT ![c] = [NewConn EXCEPT !.pc = "gone"]]
  /\ UNCHANGED <<badUser, badAddr, file, users, stamp>>

\* A new connection takes the place of one that is gone.
Connect(c) ==
  /\ conn[c].pc = "gone"
  /\ conn' = [conn EXCEPT ![c] = NewConn]
  /\ UNCHANGED <<badUser, badAddr, file, users, stamp>>

\* set_password writes the file anew and renames it.
write_pwfile ==
  /\ file < MaxVersion
  /\ file' = file + 1
  /\ UNCHANGED <<badUser, badAddr, users, stamp, conn>>

-----------------------------------------------------------------------------

Authenticating(c) ==
  \/ EndDelay(c) \/ StatFile(c) \/ UseCache(c) \/ NeedsFile(c) \/ OpenFile(c) \/ ReadFile(c)
  \/ Accept(c) \/ Refuse(c) \/ FileFails(c)
Commanded(c) == Name(c) \/ LogIn(c) \/ Leave(c) \/ Connect(c)

Init ==
  /\ badUser = [u \in Users |-> Clear] /\ badAddr = [a \in Addrs |-> Clear]
  /\ file = 1 /\ users = 0 /\ stamp = 0
  /\ conn = [c \in Conns |-> NewConn]

Next ==
  \/ \E u \in Users : AgeUser(u)
  \/ \E a \in Addrs : AgeAddr(a)
  \/ \E c \in Conns : Authenticating(c) \/ Commanded(c)
  \/ write_pwfile

Spec == Init /\ [][Next]_vars

-----------------------------------------------------------------------------
(* Properties *)

InFlight(u) == {c \in Conns : conn[c].pc \in Waiting \ {"client", "delayed"} /\ conn[c].user = u}

\* Between check_allow and login_failed a connection waits, and others are let
\* through meanwhile: still, the failures in one period do not exceed the
\* maximum by more than there are connections, whatever they do.
FailuresBounded ==
  \A u \in Users : badUser[u].n + Cardinality(InFlight(u)) <= MaxUserAttempts + Cardinality(Conns)

\* The password file is read again whenever it could be newer than USERS:
\* reading it takes several steps, and the slowest reader comes last.
CacheNotAhead == stamp <= users

\* A password is checked against the file as it was when the client sent it, or
\* as it was later; a user that is let in was listed there.
CheckedByFile ==
  \A c \in Conns : conn[c].pc \in {"hash", "in"} =>
    conn[c].seen >= conn[c].began /\ conn[c].user \in Listed[conn[c].seen]

=============================================================================
