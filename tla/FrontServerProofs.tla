-------------------------- MODULE FrontServerProofs --------------------------
(***************************************************************************)
(* For any connections, IMAP and POP3, and any number of logins: a user    *)
(* has one server process at most, and none that was there when the front  *)
(* server terminated it outlives the front server.                         *)
(***************************************************************************)
EXTENDS FrontServer, FiniteSetTheorems, TLAPS

LockUsers == Conns \cup {Main}

\* The holder of the condition's lock is the one that writes.
HolderWrites == \A t \in LockUsers : at[t] = "writing" <=> writer = t

\* A process is started with the lock held, and there is none until it is.
StartsInLock ==
  \A c \in Conns :
    /\ conn[c].pc \in {"spawning", "booting"} => at[c] = "writing"
    /\ conn[c].pc = "spawning" => ~ handle.is_alive /\ Newest < MaxProcs
    /\ conn[c].pc = "booting" => Newest # 0

\* Processes are numbered as they come, and only the last may live.
InTurn(f, n) ==
  /\ n \in 0..MaxProcs
  /\ \A p \in Ids : f[p] = "none" <=> n < p
  /\ \A p \in Ids : f[p] \in {"booting", "serving"} => p = n
OnlyTheLast == InTurn(procs, Newest)

\* A handle that says no is right.
NoneUnlessAlive == handle.is_alive \/ Live = {}

PortKnown ==
  /\ handle.has_port => handle.port # 0
  /\ \A c \in Conns : conn[c].pc = "connect" => handle.has_port

GoneForGood == \A c \in Conns : conn[c].pc = "gone" => conn[c].relay = "none"

FrontInv ==
  /\ FrontTypeOK /\ HolderWrites /\ StartsInLock /\ OnlyTheLast
  /\ NoneUnlessAlive /\ PortKnown /\ GoneForGood

-----------------------------------------------------------------------------
(* Counting processes *)

LEMMA CountOfTurns ==
  ASSUME NEW f, NEW n \in 0..MaxProcs, \A p \in Ids : f[p] = "none" <=> n < p
  PROVE  Cardinality({p \in Ids : f[p] # "none"}) = n
<1>1. {p \in Ids : f[p] # "none"} = 1..n
  BY FrontAssumption DEF Ids
<1>2. Cardinality(1..n) = n
  BY FS_Interval, FrontAssumption
<1> QED
  BY <1>1, <1>2, Zenon

\* The processes that are there stay the same, but that some may have died.
LEMMA StillTheLast ==
  ASSUME OnlyTheLast,
         \A p \in Ids : procs'[p] = "none" <=> procs[p] = "none",
         \A p \in Ids : procs'[p] \in {"booting", "serving"} => procs[p] \in {"booting", "serving"}
  PROVE  OnlyTheLast' /\ Newest' = Newest /\ Live' \subseteq Live
<1>1. Newest' = Newest
  <2>1. {p \in Ids : procs'[p] # "none"} = {p \in Ids : procs[p] # "none"}
    OBVIOUS
  <2> QED
    BY <2>1 DEF Newest
<1>2. Live' \subseteq Live
  BY DEF Live
<1> QED
  BY <1>1, <1>2 DEF OnlyTheLast, InTurn

-----------------------------------------------------------------------------
(* The lock *)

\* All moves but that out of writing leave a writer alone.
LEMMA LockMoves ==
  ASSUME FrontInv, NEW t \in LockUsers,
         LOCK!LockStep(t) \/ LOCK!ReadLock(t) \/ LOCK!WriteLock(t) \/ LOCK!ReadUnlock(t)
  PROVE  /\ LOCK!LockTypeOK' /\ HolderWrites'
         /\ \A u \in LockUsers : at[u] = "writing" => at'[u] = "writing"
<1> USE DEF LockUsers, FrontInv, FrontTypeOK, HolderWrites, LOCK!LockTypeOK, LOCK!Moves,
            LOCK!Inside, LOCK!Wanting
<1>1. Nobody \notin LockUsers
  BY FrontAssumption
<1>2. CASE LOCK!Enter(t)
  BY <1>1, <1>2 DEF LOCK!Enter
<1>3. CASE LOCK!Upgrade(t)
  BY <1>1, <1>3 DEF LOCK!Upgrade, LOCK!Writes
<1>4. CASE LOCK!Recheck(t)
  BY <1>1, <1>4 DEF LOCK!Recheck, LOCK!Writes
<1>5. CASE LOCK!Leave(t)
  BY <1>1, <1>5 DEF LOCK!Leave
<1>6. CASE LOCK!ReadLock(t)
  BY <1>1, <1>6 DEF LOCK!ReadLock
<1>7. CASE LOCK!WriteLock(t)
  BY <1>1, <1>7 DEF LOCK!WriteLock
<1>8. CASE LOCK!ReadUnlock(t)
  BY <1>1, <1>8 DEF LOCK!ReadUnlock
<1> QED
  BY <1>2, <1>3, <1>4, <1>5, <1>6, <1>7, <1>8 DEF LOCK!LockStep

LEMMA GivesUp ==
  ASSUME FrontInv, NEW t \in LockUsers, LOCK!WriteUnlock(t)
  PROVE  /\ LOCK!LockTypeOK' /\ HolderWrites'
         /\ \A u \in LockUsers : at[u] = "writing" => u = t
<1>1. Nobody \notin LockUsers
  BY FrontAssumption DEF LockUsers
<1> QED
  BY <1>1 DEF LockUsers, FrontInv, FrontTypeOK, HolderWrites, LOCK!LockTypeOK, LOCK!Moves,
              LOCK!Inside, LOCK!WriteUnlock

-----------------------------------------------------------------------------
(* Steps that start no process *)

LEMMA Quiet ==
  ASSUME FrontInv, FrontTypeOK', HolderWrites',
         \A p \in Ids : procs'[p] = "none" <=> procs[p] = "none",
         \A p \in Ids : procs'[p] \in {"booting", "serving"} => procs[p] \in {"booting", "serving"},
         handle'.is_alive = handle.is_alive, handle.has_port => handle'.has_port,
         handle'.has_port => handle'.port # 0,
         \A c \in Conns :
           /\ conn'[c].pc \in {"spawning", "booting"} => conn'[c].pc = conn[c].pc /\ at'[c] = "writing"
           /\ conn'[c].pc = "connect" => conn[c].pc = "connect" \/ handle.has_port
           /\ conn'[c].pc = "gone" => conn'[c].relay = "none"
  PROVE  FrontInv'
<1>1. OnlyTheLast' /\ Newest' = Newest /\ Live' \subseteq Live
  BY StillTheLast DEF FrontInv
<1>2. StartsInLock'
  BY <1>1 DEF FrontInv, StartsInLock
<1>3. NoneUnlessAlive' /\ PortKnown' /\ GoneForGood'
  BY <1>1 DEF FrontInv, NoneUnlessAlive, PortKnown, GoneForGood
<1> QED
  BY <1>1, <1>2, <1>3 DEF FrontInv

\* One connection changes, and keeps to its type.
LEMMA OneConnection ==
  ASSUME FrontInv, NEW c \in Conns, NEW r \in Conn, conn' = [conn EXCEPT ![c] = r],
         r.relay \in {"new", "running"} => r.link # 0,
         r.pc \in {"spawning", "booting"} => r.pc = conn[c].pc /\ at'[c] = "writing",
         r.pc = "connect" => conn[c].pc = "connect" \/ handle.has_port,
         r.pc = "gone" => r.relay = "none",
         LOCK!LockTypeOK', HolderWrites',
         \A u \in LockUsers \ {c} : at[u] = "writing" => at'[u] = "writing",
         procs' = procs,
         handle' \in [is_alive : BOOLEAN, has_port : BOOLEAN, port : 0..MaxProcs],
         handle'.is_alive = handle.is_alive, handle.has_port => handle'.has_port,
         handle'.has_port => handle'.port # 0,
         phase' = phase, logins' \in 0..MaxLogins, late' = late
  PROVE  FrontInv'
<1>1. /\ conn' \in [Conns -> Conn] /\ conn'[c] = r
      /\ \A d \in Conns \ {c} : conn'[d] = conn[d]
  BY DEF FrontInv, FrontTypeOK
<1>2. FrontTypeOK'
  BY <1>1 DEF FrontInv, FrontTypeOK
<1>3. \A d \in Conns :
        /\ conn'[d].pc \in {"spawning", "booting"} => conn'[d].pc = conn[d].pc /\ at'[d] = "writing"
        /\ conn'[d].pc = "connect" => conn[d].pc = "connect" \/ handle.has_port
        /\ conn'[d].pc = "gone" => conn'[d].relay = "none"
  BY <1>1 DEF FrontInv, StartsInLock, PortKnown, GoneForGood, LockUsers
<1> QED
  BY <1>2, <1>3, Quiet

-----------------------------------------------------------------------------
(* One step *)

\* A connection changes, and nothing else does.
LEMMA OnlyConnection ==
  ASSUME FrontInv, NEW c \in Conns, NEW r \in Conn, conn' = [conn EXCEPT ![c] = r],
         r.relay \in {"new", "running"} => r.link # 0,
         r.pc \in {"spawning", "booting"} => r.pc = conn[c].pc,
         r.pc = "connect" => conn[c].pc = "connect" \/ handle.has_port,
         r.pc = "gone" => r.relay = "none",
         UNCHANGED <<lock, procs, handle, phase, logins, late>>
  PROVE  FrontInv'
<1>1. LOCK!LockTypeOK' /\ HolderWrites' /\ at' = at
  BY DEF FrontInv, FrontTypeOK, HolderWrites, lock, LOCK!LockTypeOK
<1>2. /\ handle.has_port => handle.port # 0
      /\ conn[c].pc \in {"spawning", "booting"} => at[c] = "writing"
  BY DEF FrontInv, PortKnown, StartsInLock
<1>3. /\ handle \in [is_alive : BOOLEAN, has_port : BOOLEAN, port : 0..MaxProcs]
      /\ logins \in 0..MaxLogins
  BY DEF FrontInv, FrontTypeOK
<1> QED
  BY <1>1, <1>2, <1>3, OneConnection

LEMMA LoginSteps ==
  ASSUME FrontInv, NEW c \in Conns,
         LogIn(c) \/ InLock(c) \/ GoesOn(c) \/ Alive(c) \/ ReadPort(c) \/ StartFails(c)
  PROVE  FrontInv'
<1> USE DEF Is, Goto
<1>0. /\ c \in LockUsers /\ conn \in [Conns -> Conn] /\ conn[c] \in Conn
      /\ conn[c].relay \in {"new", "running"} => conn[c].link # 0
      /\ handle \in [is_alive : BOOLEAN, has_port : BOOLEAN, port : 0..MaxProcs]
      /\ logins \in 0..MaxLogins /\ MaxProcs \in Nat /\ MaxLogins \in Nat
      /\ handle.has_port => handle.port # 0
  BY FrontAssumption DEF LockUsers, FrontInv, FrontTypeOK, PortKnown
<1>1. CASE LogIn(c)
  <2> DEFINE r == [conn[c] EXCEPT !.pc = "locking", !.in = c \notin Pop3]
  <2>1. LOCK!LockTypeOK' /\ HolderWrites' /\ \A u \in LockUsers : at[u] = "writing" => at'[u] = "writing"
    BY <1>0, <1>1, LockMoves DEF LogIn
  <2>2. r \in Conn /\ r.pc = "locking" /\ r.relay = conn[c].relay /\ r.link = conn[c].link
    BY <1>0 DEF Conn
  <2>3. /\ conn' = [conn EXCEPT ![c] = r] /\ logins' \in 0..MaxLogins
        /\ UNCHANGED <<procs, handle, phase, late>>
    BY <1>0, <1>1 DEF LogIn
  <2> QED
    BY <1>0, <2>1, <2>2, <2>3, OneConnection
<1>2. CASE InLock(c) \/ GoesOn(c)
  <2>1. LOCK!LockTypeOK' /\ HolderWrites' /\ \A u \in LockUsers : at[u] = "writing" => at'[u] = "writing"
    BY <1>0, <1>2, LockMoves DEF InLock, GoesOn
  <2>2. UNCHANGED <<procs, handle, conn, phase, logins, late>>
    BY <1>2 DEF InLock, GoesOn
  <2>3. FrontTypeOK'
    BY <2>1, <2>2 DEF FrontInv, FrontTypeOK
  <2>4. \A d \in Conns :
          /\ conn'[d].pc \in {"spawning", "booting"} => at'[d] = "writing"
          /\ conn'[d].pc = "gone" => conn'[d].relay = "none"
          /\ conn'[d].pc = "connect" => handle.has_port
    BY <2>1, <2>2 DEF FrontInv, StartsInLock, PortKnown, GoneForGood, LockUsers
  <2> QED
    BY <1>0, <2>1, <2>2, <2>3, <2>4, Quiet
<1>3. CASE Alive(c) \/ ReadPort(c) \/ StartFails(c)
  <2>1. /\ LOCK!WriteUnlock(c)
        /\ conn' = [conn EXCEPT ![c].pc = "leaving"] \/ conn' = [conn EXCEPT ![c].pc = "failing"]
        /\ UNCHANGED <<procs, phase, logins, late>>
        /\ \/ handle' = handle
           \/ /\ handle' = [handle EXCEPT !.port = Newest, !.has_port = TRUE]
              /\ Newest # 0
    BY <1>3 DEF Alive, ReadPort, StartFails, FrontInv, StartsInLock
  <2>2. LOCK!LockTypeOK' /\ HolderWrites' /\ \A u \in LockUsers \ {c} : at[u] = "writing" => at'[u] = "writing"
    BY <1>0, <2>1, GivesUp
  <2>3. PICK pc \in {"leaving", "failing"} : conn' = [conn EXCEPT ![c].pc = pc]
    BY <2>1
  <2> DEFINE r == [conn[c] EXCEPT !.pc = pc]
  <2>4. r \in Conn /\ r.pc = pc /\ r.relay = conn[c].relay /\ r.link = conn[c].link
    BY <1>0 DEF Conn
  <2>5. conn' = [conn EXCEPT ![c] = r]
    BY <1>0, <2>3
  <2>6. /\ handle' \in [is_alive : BOOLEAN, has_port : BOOLEAN, port : 0..MaxProcs]
        /\ handle'.is_alive = handle.is_alive /\ (handle.has_port => handle'.has_port)
        /\ handle'.has_port => handle'.port # 0
    BY <1>0, <2>1 DEF FrontInv, OnlyTheLast, InTurn
  <2> HIDE DEF r
  <2> QED
    BY <1>0, <2>1, <2>2, <2>4, <2>5, <2>6, OneConnection
<1> QED
  BY <1>1, <1>2, <1>3

LEMMA ConnectionSteps ==
  ASSUME FrontInv, NEW c \in Conns,
         \/ OutOfLock(c) \/ HasPort(c) \/ Connect(c) \/ ConnectionRefused(c) \/ EndConn(c)
         \/ RelayBegins(c) \/ RelayEnds(c) \/ RelayDone(c)
         \/ StopReading(c) \/ Dismiss(c) \/ HangUp(c) \/ Collected(c) \/ NewClient(c)
  PROVE  FrontInv'
<1> DEFINE Becomes(r) == /\ conn' = [conn EXCEPT ![c] = r]
                         /\ UNCHANGED <<lock, procs, handle, phase, logins, late>>
           Sound(r) == /\ r \in Conn
                       /\ r.relay \in {"new", "running"} => r.link # 0
                       /\ r.pc \in {"spawning", "booting"} => r.pc = conn[c].pc
                       /\ r.pc = "connect" => conn[c].pc = "connect" \/ handle.has_port
                       /\ r.pc = "gone" => r.relay = "none"
<1>0. /\ conn \in [Conns -> Conn] /\ conn[c] \in Conn
      /\ conn[c].relay \in {"new", "running"} => conn[c].link # 0
      /\ conn[c].pc = "gone" => conn[c].relay = "none"
      /\ handle.port \in 0..MaxProcs /\ (handle.has_port => handle.port # 0)
      /\ conn[c].pc = "connect" => handle.has_port
      /\ 0 \in 0..MaxProcs
  BY FrontAssumption DEF FrontInv, FrontTypeOK, PortKnown, GoneForGood
<1>1. ASSUME NEW r, Sound(r), Becomes(r) PROVE FrontInv'
  BY <1>1, OnlyConnection
<1> SUFFICES \E r : Sound(r) /\ Becomes(r)
  BY <1>1
<1> HIDE DEF Sound, Becomes
<1>2. ASSUME NEW pc \in {"port", "ending", "connect"}, conn' = [conn EXCEPT ![c].pc = pc],
             pc = "connect" => handle.has_port,
             UNCHANGED <<lock, procs, handle, phase, logins, late>>
      PROVE  \E r : Sound(r) /\ Becomes(r)
  <2>1. Sound([conn[c] EXCEPT !.pc = pc])
    BY <1>0, <1>2 DEF Sound, Conn
  <2>2. Becomes([conn[c] EXCEPT !.pc = pc])
    BY <1>0, <1>2 DEF Becomes
  <2> QED
    BY <2>1, <2>2
<1>3. CASE OutOfLock(c) \/ HasPort(c) \/ ConnectionRefused(c) \/ StopReading(c)
  BY <1>2, <1>3 DEF OutOfLock, HasPort, ConnectionRefused, StopReading, Goto
<1>4. CASE Connect(c)
  <2> DEFINE r == [conn[c] EXCEPT !.pc = "client", !.in = TRUE, !.relay = "new",
                                  !.link = handle.port, !.up = TRUE]
  <2>1. Sound(r)
    BY <1>0, <1>4 DEF Connect, Is, Sound, Conn
  <2>2. Becomes(r)
    BY <1>0, <1>4 DEF Connect, Becomes
  <2> QED
    BY <2>1, <2>2
<1>5. CASE EndConn(c) /\ conn[c].relay = "new"
  <2> DEFINE r == [conn[c] EXCEPT !.pc = "gone", !.relay = "none", !.open = FALSE]
  <2>1. Sound(r)
    BY <1>0 DEF Sound, Conn
  <2>2. Becomes(r)
    BY <1>0, <1>5 DEF EndConn, Becomes
  <2> QED
    BY <2>1, <2>2
<1>6. CASE EndConn(c) /\ conn[c].relay # "new"
  <2> DEFINE r == [NewConn EXCEPT !.pc = "gone", !.open = FALSE]
  <2>1. Sound(r)
    BY <1>0 DEF Sound, Conn, NewConn
  <2>2. Becomes(r)
    BY <1>0, <1>6 DEF EndConn, Becomes
  <2> QED
    BY <2>1, <2>2
<1>7. CASE RelayBegins(c)
  <2> DEFINE r == [conn[c] EXCEPT !.relay = "running"]
  <2>1. Sound(r)
    BY <1>0, <1>7 DEF RelayBegins, Is, Sound, Conn
  <2>2. Becomes(r)
    BY <1>0, <1>7 DEF RelayBegins, Becomes
  <2> QED
    BY <2>1, <2>2
<1>8. CASE RelayEnds(c)
  <2> DEFINE r == [conn[c] EXCEPT !.relay = "closing", !.link = 0, !.up = FALSE, !.open = FALSE]
  <2>1. Sound(r)
    BY <1>0, <1>8 DEF RelayEnds, Is, Sound, Conn
  <2>2. Becomes(r)
    BY <1>0, <1>8 DEF RelayEnds, Becomes
  <2> QED
    BY <2>1, <2>2
<1>9. CASE RelayDone(c)
  <2> DEFINE r == [conn[c] EXCEPT !.relay = "none", !.in = conn[c].in /\ c \in Pop3]
  <2>1. Sound(r)
    BY <1>0, <1>9 DEF RelayDone, Is, Sound, Conn
  <2>2. Becomes(r)
    BY <1>0, <1>9, Zenon DEF RelayDone, Becomes
  <2> QED
    BY <2>1, <2>2
<1>10. CASE Dismiss(c)
  <2> DEFINE r == [conn[c] EXCEPT !.up = FALSE]
  <2>1. Sound(r)
    BY <1>0, <1>10 DEF Dismiss, Is, Sound, Conn
  <2>2. Becomes(r)
    BY <1>0, <1>10 DEF Dismiss, Becomes
  <2> QED
    BY <2>1, <2>2
<1>11. CASE HangUp(c)
  <2> DEFINE r == [conn[c] EXCEPT !.open = FALSE]
  <2>1. Sound(r)
    BY <1>0, <1>11 DEF HangUp, Is, Sound, Conn
  <2>2. Becomes(r)
    BY <1>0, <1>11 DEF HangUp, Becomes
  <2> QED
    BY <2>1, <2>2
<1>12. CASE Collected(c)
  <2> DEFINE r == [conn[c] EXCEPT !.link = 0, !.up = FALSE]
  <2>1. Sound(r)
    BY <1>0, <1>12 DEF Collected, Is, Sound, Conn
  <2>2. Becomes(r)
    BY <1>0, <1>12 DEF Collected, Becomes
  <2> QED
    BY <2>1, <2>2
<1>13. CASE NewClient(c)
  <2>1. Sound(NewConn)
    BY <1>0 DEF Sound, Conn, NewConn
  <2>2. Becomes(NewConn)
    BY <1>13 DEF NewClient, Becomes
  <2> QED
    BY <2>1, <2>2
<1> QED
  BY <1>3, <1>4, <1>5, <1>6, <1>7, <1>8, <1>9, <1>10, <1>11, <1>12, <1>13

\* A start begins: the caller writes, so that nobody else is at it.
LEMMA StartStep ==
  ASSUME FrontInv, NEW c \in Conns, Start(c)
  PROVE  FrontInv'
<1> DEFINE r == [conn[c] EXCEPT !.pc = "spawning"]
<1>1. /\ conn \in [Conns -> Conn] /\ conn[c] \in Conn
      /\ r \in Conn /\ r.pc = "spawning" /\ r.relay = conn[c].relay /\ r.link = conn[c].link
  BY DEF FrontInv, FrontTypeOK, Conn
<1>2. /\ conn' = [conn EXCEPT ![c] = r] /\ at[c] = "writing" /\ ~ handle.is_alive /\ Newest < MaxProcs
      /\ UNCHANGED <<at, writer, _readers, _want_write, procs, handle, phase, logins, late>>
  BY DEF Start, Goto, lock
<1> HIDE DEF r
<1>3. conn' \in [Conns -> Conn] /\ conn'[c] = r /\ \A d \in Conns \ {c} : conn'[d] = conn[d]
  BY <1>1, <1>2
<1>4. FrontTypeOK' /\ HolderWrites'
  BY <1>1, <1>2, <1>3 DEF FrontInv, FrontTypeOK, HolderWrites, LOCK!LockTypeOK
<1>5. OnlyTheLast' /\ Newest' = Newest /\ Live' = Live
  BY <1>2 DEF FrontInv, OnlyTheLast, InTurn, Newest, Live
<1>6. StartsInLock'
  BY <1>1, <1>2, <1>3, <1>5 DEF FrontInv, StartsInLock
<1>7. NoneUnlessAlive' /\ PortKnown' /\ GoneForGood'
  BY <1>1, <1>2, <1>3, <1>5 DEF FrontInv, NoneUnlessAlive, PortKnown, GoneForGood
<1> QED
  BY <1>4, <1>5, <1>6, <1>7 DEF FrontInv

\* The process is there: no other one lives, and nobody else is about to make one.
LEMMA SpawnStep ==
  ASSUME FrontInv, NEW c \in Conns, Spawn(c)
  PROVE  FrontInv'
<1> DEFINE r == [conn[c] EXCEPT !.pc = "booting"]
           n == Newest + 1
<1>1. /\ conn \in [Conns -> Conn] /\ conn[c] \in Conn /\ MaxProcs \in Nat
      /\ r \in Conn /\ r.pc = "booting" /\ r.relay = conn[c].relay /\ r.link = conn[c].link
  BY FrontAssumption DEF FrontInv, FrontTypeOK, Conn
<1>2. /\ conn' = [conn EXCEPT ![c] = r] /\ conn[c].pc = "spawning"
      /\ procs' = [procs EXCEPT ![n] = "booting"]
      /\ handle' = [handle EXCEPT !.is_alive = TRUE]
      /\ late' \in {late, late \cup {n}}
      /\ UNCHANGED <<at, writer, _readers, _want_write, phase, logins>>
  BY DEF Spawn, Goto, Is, lock
<1> HIDE DEF r
<1>3. conn' \in [Conns -> Conn] /\ conn'[c] = r /\ \A d \in Conns \ {c} : conn'[d] = conn[d]
  BY <1>1, <1>2
<1>4. /\ Newest \in 0..MaxProcs /\ n \in Ids /\ n # 0 /\ ~ handle.is_alive /\ Live = {}
      /\ at[c] = "writing" /\ writer = c
  BY <1>1, <1>2 DEF FrontInv, StartsInLock, OnlyTheLast, InTurn, NoneUnlessAlive, HolderWrites, Ids, LockUsers
<1>5. FrontTypeOK' /\ HolderWrites'
  BY <1>1, <1>2, <1>3, <1>4 DEF FrontInv, FrontTypeOK, HolderWrites, LOCK!LockTypeOK
<1>6. InTurn(procs', n)
  <2>1. \A p \in Ids : procs'[p] = IF p = n THEN "booting" ELSE procs[p]
    BY <1>2, <1>4 DEF FrontInv, FrontTypeOK
  <2>2. \A p \in Ids : procs[p] = "none" <=> Newest < p
    BY DEF FrontInv, OnlyTheLast, InTurn
  <2>3. \A p \in Ids : procs[p] \notin {"booting", "serving"}
    BY <1>4 DEF Live
  <2> QED
    BY <1>1, <1>4, <2>1, <2>2, <2>3 DEF InTurn, Ids
<1>7. Newest' = n /\ OnlyTheLast'
  <2>1. n \in 0..MaxProcs /\ \A p \in Ids : procs'[p] = "none" <=> n < p
    BY <1>6 DEF InTurn
  <2>2. Newest' = n
    BY <2>1, CountOfTurns DEF Newest
  <2> QED
    BY <1>6, <2>2 DEF OnlyTheLast
<1>8. \A d \in Conns \ {c} : conn[d].pc \notin {"spawning", "booting"}
  BY <1>4 DEF FrontInv, StartsInLock, HolderWrites, LockUsers
<1>9. StartsInLock'
  BY <1>1, <1>2, <1>3, <1>4, <1>7, <1>8 DEF StartsInLock
<1>10. NoneUnlessAlive' /\ PortKnown' /\ GoneForGood'
  <2>1. /\ handle'.is_alive /\ handle'.has_port = handle.has_port /\ handle'.port = handle.port
    BY <1>2 DEF FrontInv, FrontTypeOK
  <2> QED
    BY <1>1, <1>3, <2>1 DEF FrontInv, NoneUnlessAlive, PortKnown, GoneForGood
<1> QED
  BY <1>5, <1>7, <1>9, <1>10 DEF FrontInv

LEMMA ProcessSteps ==
  ASSUME FrontInv, (\E p \in Ids : Serve(p) \/ Die(p)) \/ subprocess_wait
  PROVE  FrontInv'
<1>0. \A c \in Conns :
        /\ conn[c].pc \in {"spawning", "booting"} => at[c] = "writing"
        /\ conn[c].pc = "gone" => conn[c].relay = "none"
  BY DEF FrontInv, StartsInLock, GoneForGood
<1>1. CASE \E p \in Ids : Serve(p)
  <2>1. PICK p \in Ids : Serve(p)
    BY <1>1
  <2>2. FrontTypeOK' /\ HolderWrites'
    BY <2>1 DEF Serve, FrontInv, FrontTypeOK, HolderWrites, lock, LOCK!LockTypeOK
  <2>3. \A q \in Ids : procs'[q] = IF q = p THEN "serving" ELSE procs[q]
    BY <2>1 DEF Serve, FrontInv, FrontTypeOK
  <2> QED
    BY <1>0, <2>1, <2>2, <2>3, Quiet DEF Serve, lock, FrontInv, PortKnown
<1>2. CASE \E p \in Ids : Die(p)
  <2>1. PICK p \in Ids : Die(p)
    BY <1>2
  <2>2. /\ conn' \in [Conns -> Conn]
        /\ \A c \in Conns : /\ conn'[c].pc = conn[c].pc /\ conn'[c].relay = conn[c].relay
                            /\ conn'[c].link = conn[c].link
    BY <2>1 DEF Die, FrontInv, FrontTypeOK, Conn
  <2>3. FrontTypeOK' /\ HolderWrites'
    BY <2>1, <2>2 DEF Die, FrontInv, FrontTypeOK, HolderWrites, lock, LOCK!LockTypeOK
  <2>4. procs[p] # "none" /\ \A q \in Ids : procs'[q] = IF q = p THEN "dead" ELSE procs[q]
    BY <2>1 DEF Die, Live, FrontInv, FrontTypeOK
  <2> QED
    BY <1>0, <2>1, <2>2, <2>3, <2>4, Quiet DEF Die, lock, FrontInv, PortKnown
<1>3. CASE subprocess_wait
  <2>1. Live = {}
    BY <1>3 DEF subprocess_wait, FrontInv, OnlyTheLast, InTurn, Live
  <2>2. /\ handle' = [handle EXCEPT !.is_alive = FALSE] /\ handle.is_alive
        /\ handle'.has_port = handle.has_port /\ handle'.port = handle.port
        /\ UNCHANGED <<at, writer, _readers, _want_write, procs, conn, phase, logins, late>>
    BY <1>3 DEF subprocess_wait, FrontInv, FrontTypeOK, lock
  <2>3. FrontTypeOK' /\ HolderWrites'
    BY <2>2 DEF FrontInv, FrontTypeOK, HolderWrites, LOCK!LockTypeOK
  <2>4. Live' = {} /\ Newest' = Newest /\ OnlyTheLast'
    BY <2>1, <2>2 DEF Live, Newest, FrontInv, OnlyTheLast, InTurn
  <2>5. StartsInLock'
    BY <2>2, <2>4 DEF FrontInv, StartsInLock
  <2>6. NoneUnlessAlive' /\ PortKnown' /\ GoneForGood'
    BY <2>2, <2>4 DEF FrontInv, NoneUnlessAlive, PortKnown, GoneForGood
  <2> QED
    BY <2>3, <2>4, <2>5, <2>6 DEF FrontInv
<1> QED
  BY <1>1, <1>2, <1>3

LEMMA StopSteps ==
  ASSUME FrontInv, Stop \/ StopClients \/ StopInLock \/ Terminate \/ Stopped
  PROVE  FrontInv'
<1>0. /\ Main \in LockUsers
      /\ handle.has_port => handle.port # 0
      /\ \A c \in Conns :
           /\ c \in LockUsers
           /\ conn[c].pc \in {"spawning", "booting"} => at[c] = "writing"
           /\ conn[c].pc = "gone" => conn[c].relay = "none"
  BY DEF FrontInv, StartsInLock, GoneForGood, PortKnown, LockUsers
<1>1. CASE Stop
  <2>1. /\ conn' \in [Conns -> Conn]
        /\ \A c \in Conns : /\ conn'[c].pc = conn[c].pc /\ conn'[c].relay = conn[c].relay
                            /\ conn'[c].link = conn[c].link
    BY <1>1 DEF Stop, FrontInv, FrontTypeOK, Conn
  <2>2. FrontTypeOK' /\ HolderWrites'
    BY <1>1, <2>1 DEF Stop, FrontInv, FrontTypeOK, HolderWrites, lock, LOCK!LockTypeOK
  <2> QED
    BY <1>0, <1>1, <2>1, <2>2, Quiet DEF Stop, lock
<1>2. CASE StopClients \/ StopInLock
  <2>1. LOCK!LockTypeOK' /\ HolderWrites' /\ \A u \in LockUsers : at[u] = "writing" => at'[u] = "writing"
    BY <1>0, <1>2, LockMoves DEF StopClients, StopInLock
  <2>2. UNCHANGED <<procs, handle, conn, logins, late>> /\ phase' \in {phase, "locking"}
    BY <1>2 DEF StopClients, StopInLock
  <2>3. FrontTypeOK'
    BY <2>1, <2>2 DEF FrontInv, FrontTypeOK
  <2> QED
    BY <1>0, <2>1, <2>2, <2>3, Quiet
<1>3. CASE Terminate
  <2>1. /\ conn' \in [Conns -> Conn]
        /\ \A c \in Conns : /\ conn'[c].pc = conn[c].pc /\ conn'[c].relay = conn[c].relay
                            /\ conn'[c].link = conn[c].link
    BY <1>3 DEF Terminate, FrontInv, FrontTypeOK, Conn
  <2>2. LOCK!LockTypeOK' /\ HolderWrites' /\ \A u \in LockUsers : at[u] = "writing" => u = Main
    BY <1>0, <1>3, GivesUp DEF Terminate
  <2>3. procs' = [p \in Ids |-> IF p = Newest /\ p \in Live THEN "dead" ELSE procs[p]]
    BY <1>3 DEF Terminate
  <2>4. FrontTypeOK'
    BY <1>3, <2>1, <2>2, <2>3 DEF Terminate, FrontInv, FrontTypeOK
  <2>5. \A c \in Conns : conn[c].pc \notin {"spawning", "booting"}
    BY <1>0, <2>2, FrontAssumption
  <2>6. /\ \A p \in Ids : procs'[p] = "none" <=> procs[p] = "none"
        /\ \A p \in Ids : procs'[p] \in {"booting", "serving"} => procs[p] \in {"booting", "serving"}
    BY <2>3 DEF Live
  <2> QED
    BY <1>0, <1>3, <2>1, <2>2, <2>4, <2>5, <2>6, Quiet DEF Terminate
<1>4. CASE Stopped
  <2>1. FrontTypeOK' /\ HolderWrites'
    BY <1>4 DEF Stopped, FrontInv, FrontTypeOK, HolderWrites, lock, LOCK!LockTypeOK
  <2> QED
    BY <1>0, <1>4, <2>1, Quiet DEF Stopped, lock
<1> QED
  BY <1>1, <1>2, <1>3, <1>4

-----------------------------------------------------------------------------
(* The theorems *)

LEMMA FrontInvHolds == Spec => []FrontInv
<1>1. Init => FrontInv
  <2> SUFFICES ASSUME Init PROVE FrontInv
    OBVIOUS
  <2>1. MaxProcs \in Nat /\ 0 \in 0..MaxProcs /\ Nobody \notin LockUsers
    BY FrontAssumption DEF LockUsers
  <2>2. FrontTypeOK
    BY <2>1, FrontAssumption DEF Init, FrontTypeOK, Conn, NewConn, LOCK!LockInit, LOCK!LockTypeOK, LOCK!Inside
  <2>3. Newest = 0
    <3>1. \A p \in Ids : procs[p] = "none" <=> 0 < p
      BY DEF Init, Ids
    <3> QED
      BY <2>1, <3>1, CountOfTurns DEF Newest
  <2>4. OnlyTheLast
    BY <2>1, <2>3 DEF Init, OnlyTheLast, InTurn, Ids
  <2>5. HolderWrites /\ StartsInLock /\ NoneUnlessAlive /\ PortKnown /\ GoneForGood
    BY <2>1 DEF Init, HolderWrites, StartsInLock, NoneUnlessAlive, PortKnown, GoneForGood, NewConn,
                Live, LockUsers, LOCK!LockInit
  <2> QED
    BY <2>2, <2>4, <2>5 DEF FrontInv
<1>2. FrontInv /\ [Next]_vars => FrontInv'
  <2> SUFFICES ASSUME FrontInv, [Next]_vars PROVE FrontInv'
    OBVIOUS
  <2>1. CASE UNCHANGED vars
    BY <2>1 DEF vars, lock, FrontInv, FrontTypeOK, HolderWrites, StartsInLock, OnlyTheLast, InTurn,
                NoneUnlessAlive, PortKnown, GoneForGood, LOCK!LockTypeOK, Newest, Live
  <2>2. CASE Next
    BY <2>2, LoginSteps, ConnectionSteps, StartStep, SpawnStep, ProcessSteps, StopSteps
       DEF Next, Progress, Relay, Stopping
  <2> QED
    BY <2>1, <2>2
<1> QED
  BY <1>1, <1>2, PTL DEF Spec

(***************************************************************************)
(* Every variable of the front server has its type, and a relay has a      *)
(* process that it relays for.                                             *)
(***************************************************************************)
THEOREM FrontTyped == Spec => []FrontTypeOK
<1>1. FrontInv => FrontTypeOK
  BY DEF FrontInv
<1> QED
  BY <1>1, FrontInvHolds, PTL

(***************************************************************************)
(* However many connections of a user log in at once, over IMAP or POP3,   *)
(* and whatever processes die or cannot be started: the user has one       *)
(* server process at most.                                                 *)
(***************************************************************************)
THEOREM OneServerPerUserHolds == Spec => []OneServerPerUser
<1>1. FrontInv => OneServerPerUser
  <2> SUFFICES ASSUME FrontInv PROVE OneServerPerUser
    OBVIOUS
  <2>1. Live \subseteq {Newest} /\ IsFiniteSet({Newest}) /\ Cardinality({Newest}) = 1
    BY FS_Singleton DEF FrontInv, OnlyTheLast, InTurn, Live
  <2>2. Cardinality(Live) <= 1
    BY <2>1, FS_Subset
  <2> QED
    BY <2>2 DEF OneServerPerUser
<1> QED
  BY <1>1, FrontInvHolds, PTL

-----------------------------------------------------------------------------
(* The lock: it is sound as long as nobody is cancelled while it waits to write *)

\* The tasks that the two counters are to count.
Readers == {t \in LockUsers : at[t] \in LOCK!Inside}
Wants   == {t \in LockUsers : at[t] \in LOCK!Wanting}

\* The counters are right, and the holder of the condition's lock is the writer.
LockInv ==
  /\ LOCK!LockTypeOK
  /\ _readers = Cardinality(Readers) /\ _want_write = Cardinality(Wants)
  /\ HolderWrites
  /\ LOCK!WritesAlone

LEMMA Users == IsFiniteSet(LockUsers) /\ Nobody \notin LockUsers
<1>1. IsFiniteSet(Conns \cup {Main})
  BY FrontAssumption, FS_AddElement
<1> QED
  BY <1>1, FrontAssumption DEF LockUsers

LEMMA Counts ==
  /\ IsFiniteSet(Readers) /\ IsFiniteSet(Wants) /\ Wants \subseteq Readers
  /\ Cardinality(Readers) \in Nat /\ Cardinality(Wants) \in Nat
<1>1. Readers \subseteq LockUsers /\ Wants \subseteq LockUsers /\ Wants \subseteq Readers
  BY DEF Readers, Wants, LOCK!Inside, LOCK!Wanting
<1> QED
  BY <1>1, FS_Subset, FS_CardinalityType, Users

\* One more task, or one less.
LEMMA OneMoreCounts ==
  ASSUME NEW S, IsFiniteSet(S), NEW x
  PROVE  /\ x \notin S => Cardinality(S \cup {x}) = Cardinality(S) + 1
         /\ x \in S => Cardinality(S \ {x}) = Cardinality(S) - 1
BY FS_AddElement, FS_RemoveElement

\* When the counters agree, every reader is one that waits, but for x.
LEMMA AllWait ==
  ASSUME NEW R, NEW W, NEW X, IsFiniteSet(R), W \cup X \subseteq R,
         Cardinality(R) = Cardinality(W \cup X)
  PROVE  R = W \cup X
BY FS_Subset

\* A task moves, and nobody else does.
LEMMA TaskMoved ==
  ASSUME LockInv, NEW t \in LockUsers, NEW from \in {"out", "enter"} \cup LOCK!Inside,
         NEW to \in {"out", "enter"} \cup LOCK!Inside, LOCK!Moves(t, from, to)
  PROVE  /\ at' \in [LockUsers -> {"out", "enter"} \cup LOCK!Inside]
         /\ at[t] = from /\ at'[t] = to /\ \A u \in LockUsers \ {t} : at'[u] = at[u]
         /\ Readers' = IF to \in LOCK!Inside THEN Readers \cup {t} ELSE Readers \ {t}
         /\ Wants' = IF to \in LOCK!Wanting THEN Wants \cup {t} ELSE Wants \ {t}
<1>1. /\ at' \in [LockUsers -> {"out", "enter"} \cup LOCK!Inside]
      /\ at[t] = from /\ at'[t] = to /\ \A u \in LockUsers \ {t} : at'[u] = at[u]
  BY DEF LOCK!Moves, LockInv, HolderWrites, LOCK!LockTypeOK, LockUsers
<1> QED
  BY <1>1 DEF Readers, Wants

\* The condition's lock is free: nobody writes.
LEMMA NobodyWrites ==
  ASSUME LockInv, writer = Nobody
  PROVE  \A t \in LockUsers : at[t] # "writing"
BY Users DEF LockInv, HolderWrites

\* A move that neither begins nor ends writing, with the counters kept right.
LEMMA PlainMove ==
  ASSUME LockInv, NEW t \in LockUsers, NEW from \in {"out", "enter"} \cup LOCK!Inside,
         NEW to \in {"out", "enter"} \cup LOCK!Inside, LOCK!Moves(t, from, to),
         from # "writing", to # "writing",
         \/ writer = Nobody
         \/ to \in {"out", "enter"} \cup LOCK!Wanting
         \/ from = "reading",
         writer' = writer,
         _readers' = Cardinality(Readers'), _want_write' = Cardinality(Wants')
  PROVE  LockInv'
<1>1. /\ at' \in [LockUsers -> {"out", "enter"} \cup LOCK!Inside]
      /\ at[t] = from /\ at'[t] = to /\ \A u \in LockUsers \ {t} : at'[u] = at[u]
  BY TaskMoved
<1>2. IsFiniteSet(Readers') /\ IsFiniteSet(Wants')
  <2>1. Readers' \subseteq LockUsers /\ Wants' \subseteq LockUsers
    BY DEF Readers, Wants
  <2> QED
    BY <2>1, FS_Subset, Users
<1>3. LOCK!LockTypeOK'
  BY <1>1, <1>2, FS_CardinalityType DEF LOCK!LockTypeOK, LockInv, HolderWrites, LockUsers
<1>4. \A u \in LockUsers : at'[u] = "writing" <=> writer' = u
  BY <1>1 DEF LockInv, HolderWrites
<1>5. LOCK!WritesAlone'
  <2> SUFFICES ASSUME NEW u \in LockUsers, NEW v \in LockUsers, at'[u] = "writing", v # u
               PROVE  at'[v] \in {"out", "enter"} \cup LOCK!Wanting
    BY DEF LOCK!WritesAlone, LockUsers
  <2>1. at[u] = "writing" /\ u # t /\ at[v] \in {"out", "enter"} \cup LOCK!Wanting
    BY <1>1 DEF LockInv, HolderWrites, LOCK!WritesAlone, LockUsers
  <2>2. writer # Nobody
    BY <2>1, NobodyWrites
  <2> QED
    BY <1>1, <2>1, <2>2 DEF LOCK!Wanting
<1> QED
  BY <1>3, <1>4, <1>5 DEF LockInv, HolderWrites

\* A task that goes on to write finds that every other reader waits.
LEMMA WritesSound ==
  ASSUME LockInv, NEW t \in LockUsers, NEW from \in {"upgrade", "woken"}, NEW want,
         LOCK!Writes(t, from, want), writer = Nobody,
         want = Cardinality(Wants \cup {t})
  PROVE  LockInv'
<1>1. LOCK!Moves(t, from, "writing") /\ from \in LOCK!Inside /\ "writing" \in LOCK!Inside
  BY DEF LOCK!Writes, LOCK!Inside
<1>2. /\ at' \in [LockUsers -> {"out", "enter"} \cup LOCK!Inside]
      /\ at[t] = from /\ at'[t] = "writing" /\ \A u \in LockUsers \ {t} : at'[u] = at[u]
      /\ Readers' = Readers \cup {t} /\ Wants' = Wants \ {t}
  BY <1>1, TaskMoved DEF LOCK!Wanting
<1>3. /\ IsFiniteSet(Readers) /\ IsFiniteSet(Wants) /\ Wants \cup {t} \subseteq Readers
      /\ Cardinality(Readers) \in Nat /\ Cardinality(Wants) \in Nat
  BY <1>1, <1>2, Counts DEF Readers
<1>4. Readers = Wants \cup {t}
  <2>1. Cardinality(Readers) = Cardinality(Wants \cup {t})
    BY DEF LOCK!Writes, LockInv, HolderWrites
  <2> QED
    BY <1>3, <2>1, AllWait
<1>5. \A u \in LockUsers \ {t} : at'[u] \in {"out", "enter"} \cup LOCK!Wanting
  BY <1>2, <1>4 DEF Readers, Wants, LockInv, HolderWrites, LOCK!LockTypeOK, LockUsers
<1>6. _readers' = Cardinality(Readers')
  BY <1>2, <1>4 DEF LOCK!Writes, LockInv, HolderWrites
<1>7. _want_write' = Cardinality(Wants')
  <2>1. (Wants \cup {t}) \ {t} = Wants \ {t} /\ IsFiniteSet(Wants \cup {t})
    BY <1>3, FS_AddElement
  <2>2. Cardinality(Wants \ {t}) = Cardinality(Wants \cup {t}) - 1
    BY <2>1, FS_RemoveElement
  <2> QED
    BY <1>2, <2>2 DEF LOCK!Writes
<1>8. LOCK!LockTypeOK'
  <2>1. IsFiniteSet(Readers') /\ IsFiniteSet(Wants')
    BY <1>2, <1>3, <1>4, FS_RemoveElement
  <2>3. Cardinality(Readers') \in Nat /\ Cardinality(Wants') \in Nat
    BY <2>1, FS_CardinalityType
  <2> QED
    BY <1>2, <1>6, <1>7, <2>3 DEF LOCK!LockTypeOK, LOCK!Writes, LockUsers
<1>9. \A u \in LockUsers : at'[u] = "writing" <=> writer' = u
  BY <1>2, <1>5 DEF LOCK!Writes, LOCK!Wanting
<1>10. LOCK!WritesAlone'
  BY <1>2, <1>5 DEF LOCK!WritesAlone, LOCK!Wanting, LockUsers
<1> QED
  BY <1>6, <1>7, <1>8, <1>9, <1>10 DEF LockInv, HolderWrites

LEMMA LockStepSound ==
  ASSUME LockInv, NEW t \in LockUsers, LOCK!LockStep(t)
  PROVE  LockInv'
<1> USE DEF LOCK!Inside, LOCK!Wanting
<1>1. /\ IsFiniteSet(Readers) /\ IsFiniteSet(Wants)
      /\ Cardinality(Readers) \in Nat /\ Cardinality(Wants) \in Nat
      /\ _readers = Cardinality(Readers) /\ _want_write = Cardinality(Wants)
  BY Counts DEF LockInv, HolderWrites
<1>2. CASE LOCK!Enter(t)
  <2>1. LOCK!Moves(t, "enter", "reading") /\ t \notin Readers /\ t \notin Wants
    BY <1>2 DEF LOCK!Enter, LOCK!Moves, Readers, Wants
  <2>2. Readers' = Readers \cup {t} /\ Wants' = Wants
    <3>1. Readers' = Readers \cup {t} /\ Wants' = Wants \ {t}
      BY <2>1, TaskMoved
    <3> QED
      BY <2>1, <3>1
  <2>3. Cardinality(Readers') = Cardinality(Readers) + 1
    BY <1>1, <2>1, <2>2, OneMoreCounts
  <2> QED
    BY <1>1, <1>2, <2>1, <2>2, <2>3, PlainMove DEF LOCK!Enter
<1>3. CASE LOCK!Upgrade(t)
  <2>1. at[t] = "upgrade" /\ t \in Readers /\ t \notin Wants /\ writer = Nobody
    BY <1>3 DEF LOCK!Upgrade, LOCK!Writes, LOCK!Moves, Readers, Wants
  <2>2. Cardinality(Wants \cup {t}) = Cardinality(Wants) + 1
    BY <1>1, <2>1, OneMoreCounts
  <2>3. CASE LOCK!Writes(t, "upgrade", _want_write + 1)
    BY <1>1, <2>1, <2>2, <2>3, WritesSound
  <2>4. CASE /\ LOCK!Moves(t, "upgrade", "waiting")
             /\ _want_write' = _want_write + 1
             /\ UNCHANGED <<writer, _readers>>
    <3>1. Readers' = Readers /\ Wants' = Wants \cup {t}
      <4>1. Readers' = Readers \cup {t} /\ Wants' = Wants \cup {t}
        BY <2>4, TaskMoved
      <4> QED
        BY <2>1, <4>1
    <3> QED
      BY <1>1, <2>1, <2>2, <2>4, <3>1, PlainMove
  <2> QED
    BY <1>3, <2>3, <2>4 DEF LOCK!Upgrade
<1>4. CASE LOCK!Recheck(t)
  <2>1. at[t] = "woken" /\ t \in Readers /\ t \in Wants /\ writer = Nobody
    BY <1>4 DEF LOCK!Recheck, LOCK!Writes, LOCK!Moves, Readers, Wants
  <2>2. Wants \cup {t} = Wants
    BY <2>1
  <2>3. CASE LOCK!Writes(t, "woken", _want_write)
    BY <1>1, <2>1, <2>2, <2>3, WritesSound
  <2>4. CASE LOCK!Moves(t, "woken", "waiting") /\ UNCHANGED <<writer, _readers, _want_write>>
    <3>1. Readers' = Readers /\ Wants' = Wants
      <4>1. Readers' = Readers \cup {t} /\ Wants' = Wants \cup {t}
        BY <2>4, TaskMoved
      <4> QED
        BY <2>1, <4>1
    <3> QED
      BY <1>1, <2>1, <2>4, <3>1, PlainMove
  <2> QED
    BY <1>4, <2>3, <2>4 DEF LOCK!Recheck
<1>5. CASE LOCK!Leave(t)
  <2>1. /\ at' \in [LockUsers -> {"out", "enter"} \cup LOCK!Inside] /\ at'[t] = "out"
        /\ \A u \in LockUsers \ {t} : at'[u] = at[u] \/ (at[u] = "waiting" /\ at'[u] = "woken")
    BY <1>5 DEF LOCK!Leave, LockInv, HolderWrites, LOCK!LockTypeOK, LockUsers
  <2>2. t \in Readers /\ t \notin Wants
    BY <1>5 DEF LOCK!Leave, Readers, Wants, LockUsers
  <2>3. Readers' = Readers \ {t} /\ Wants' = Wants
    BY <2>1, <2>2 DEF Readers, Wants
  <2>4. Cardinality(Readers') = Cardinality(Readers) - 1
    BY <1>1, <2>2, <2>3, OneMoreCounts
  <2>5. \A u \in LockUsers : at'[u] # "writing"
    BY <1>5, <2>1, NobodyWrites DEF LOCK!Leave, LockUsers
  <2>6. LOCK!LockTypeOK' /\ _readers' = Cardinality(Readers') /\ _want_write' = Cardinality(Wants')
    BY <1>1, <1>5, <2>1, <2>3, <2>4 DEF LOCK!Leave, LockInv, HolderWrites, LOCK!LockTypeOK, LockUsers
  <2>7. \A u \in LockUsers : at'[u] = "writing" <=> writer' = u
    BY <1>5, <2>5, Users DEF LOCK!Leave, LockUsers
  <2> QED
    BY <2>5, <2>6, <2>7 DEF LockInv, HolderWrites, LOCK!WritesAlone, LockUsers
<1> QED
  BY <1>2, <1>3, <1>4, <1>5 DEF LOCK!LockStep

LEMMA LockCallSound ==
  ASSUME LockInv, NEW t \in LockUsers,
         LOCK!ReadLock(t) \/ LOCK!WriteLock(t) \/ LOCK!ReadUnlock(t) \/ LOCK!WriteUnlock(t)
  PROVE  LockInv'
<1> USE DEF LOCK!Inside, LOCK!Wanting
<1>1. /\ _readers = Cardinality(Readers) /\ _want_write = Cardinality(Wants)
  BY DEF LockInv, HolderWrites
<1>2. CASE LOCK!ReadLock(t)
  <2>1. t \notin Readers /\ t \notin Wants
    BY <1>2 DEF LOCK!ReadLock, LOCK!Moves, Readers, Wants
  <2>2. Readers' = Readers /\ Wants' = Wants
    <3>1. Readers' = Readers \ {t} /\ Wants' = Wants \ {t}
      BY <1>2, TaskMoved DEF LOCK!ReadLock
    <3> QED
      BY <2>1, <3>1
  <2> QED
    BY <1>1, <1>2, <2>2, PlainMove DEF LOCK!ReadLock
<1>3. CASE LOCK!WriteLock(t)
  <2>1. t \in Readers /\ t \notin Wants
    BY <1>3 DEF LOCK!WriteLock, LOCK!Moves, Readers, Wants
  <2>2. Readers' = Readers /\ Wants' = Wants
    <3>1. Readers' = Readers \cup {t} /\ Wants' = Wants \ {t}
      BY <1>3, TaskMoved DEF LOCK!WriteLock
    <3> QED
      BY <2>1, <3>1
  <2> QED
    BY <1>1, <1>3, <2>2, PlainMove DEF LOCK!WriteLock
<1>4. CASE LOCK!ReadUnlock(t)
  <2>1. t \in Readers /\ t \notin Wants
    BY <1>4 DEF LOCK!ReadUnlock, LOCK!Moves, Readers, Wants
  <2>2. Readers' = Readers /\ Wants' = Wants
    <3>1. Readers' = Readers \cup {t} /\ Wants' = Wants \ {t}
      BY <1>4, TaskMoved DEF LOCK!ReadUnlock
    <3> QED
      BY <2>1, <3>1
  <2> QED
    BY <1>1, <1>4, <2>2, PlainMove DEF LOCK!ReadUnlock
<1>5. CASE LOCK!WriteUnlock(t)
  <2>1. /\ at' \in [LockUsers -> {"out", "enter"} \cup LOCK!Inside]
        /\ at[t] = "writing" /\ at'[t] = "reading" /\ \A u \in LockUsers \ {t} : at'[u] = at[u]
        /\ Readers' = Readers \cup {t} /\ Wants' = Wants \ {t}
    BY <1>5, TaskMoved DEF LOCK!WriteUnlock
  <2>2. Readers' = Readers /\ Wants' = Wants
    BY <2>1 DEF Readers, Wants
  <2>3. LOCK!LockTypeOK'
    BY <1>5, <2>1 DEF LOCK!WriteUnlock, LockInv, HolderWrites, LOCK!LockTypeOK, LockUsers
  <2>4. \A u \in LockUsers : at'[u] # "writing"
    BY <2>1 DEF LockInv, HolderWrites
  <2> QED
    BY <1>1, <1>5, <2>2, <2>3, <2>4, Users DEF LOCK!WriteUnlock, LockInv, HolderWrites, LOCK!WritesAlone, LockUsers
<1> QED
  BY <1>2, <1>3, <1>4, <1>5

LEMMA LockInvHolds == LOCK!LockSpec => []LockInv
<1>1. LOCK!LockInit => LockInv
  <2> SUFFICES ASSUME LOCK!LockInit PROVE LockInv
    OBVIOUS
  <2>1. Readers = {} /\ Wants = {} /\ Cardinality({}) = 0
    BY FS_EmptySet DEF LOCK!LockInit, Readers, Wants, LOCK!Inside, LOCK!Wanting, LockUsers
  <2> QED
    BY <2>1, Users DEF LOCK!LockInit, LockInv, HolderWrites, LOCK!LockTypeOK, LOCK!WritesAlone, LockUsers
<1>2. LockInv /\ [LOCK!LockNext]_(LOCK!lockVars) => LockInv'
  <2> SUFFICES ASSUME LockInv, [LOCK!LockNext]_(LOCK!lockVars) PROVE LockInv'
    OBVIOUS
  <2>1. CASE UNCHANGED LOCK!lockVars
    BY <2>1 DEF LOCK!lockVars, LockInv, HolderWrites, LOCK!LockTypeOK, LOCK!WritesAlone, Readers, Wants, LockUsers
  <2>2. \A t \in LockUsers : ~ LOCK!Cancel(t)
    BY Users DEF LOCK!Cancel
  <2> QED
    BY <2>1, <2>2, LockStepSound, LockCallSound DEF LOCK!LockNext, LockUsers
<1> QED
  BY <1>1, <1>2, PTL DEF LOCK!LockSpec

(***************************************************************************)
(* Logins and the stopping server use the lock as it is meant to be used:  *)
(* whatever they do with it are the steps of its own specification.        *)
(***************************************************************************)
THEOREM UsesLock == Spec => LOCK!LockSpec
<1>1. Init => LOCK!LockInit
  BY DEF Init
<1>2. ASSUME NEW t \in LockUsers,
             LOCK!LockStep(t) \/ LOCK!ReadLock(t) \/ LOCK!WriteLock(t) \/ LOCK!ReadUnlock(t)
               \/ LOCK!WriteUnlock(t)
      PROVE  LOCK!LockNext
  BY <1>2 DEF LockUsers, LOCK!LockNext
<1>3. ASSUME [Next]_vars PROVE LOCK!LockNext \/ UNCHANGED lock
  <2>1. CASE UNCHANGED vars
    BY <2>1 DEF vars
  <2>2. CASE \E c \in Conns : \/ LogIn(c) \/ InLock(c) \/ GoesOn(c) \/ Alive(c)
                              \/ ReadPort(c) \/ StartFails(c)
    BY <1>2, <2>2 DEF LockUsers, LogIn, InLock, GoesOn, Alive, ReadPort, StartFails
  <2>3. CASE StopClients \/ StopInLock \/ Terminate
    BY <1>2, <2>3 DEF LockUsers, StopClients, StopInLock, Terminate
  <2>4. CASE \E c \in Conns : \/ Start(c) \/ Spawn(c) \/ OutOfLock(c) \/ HasPort(c) \/ Connect(c)
                              \/ ConnectionRefused(c) \/ EndConn(c) \/ Relay(c) \/ StopReading(c)
                              \/ Dismiss(c) \/ HangUp(c) \/ Collected(c) \/ NewClient(c)
    BY <2>4 DEF Start, Spawn, OutOfLock, HasPort, Connect, ConnectionRefused, EndConn, Relay,
                RelayBegins, RelayEnds, RelayDone, StopReading, Dismiss, HangUp, Collected, NewClient
  <2>5. CASE (\E p \in Ids : Serve(p) \/ Die(p)) \/ subprocess_wait \/ Stop \/ Stopped
    BY <2>5 DEF Serve, Die, subprocess_wait, Stop, Stopped
  <2> QED
    BY <1>3, <2>1, <2>2, <2>3, <2>4, <2>5 DEF Next, Progress, Stopping
<1>4. [Next]_vars => [LOCK!LockNext]_(LOCK!lockVars)
  BY <1>3 DEF lock, LOCK!lockVars
<1> QED
  BY <1>1, <1>4, PTL DEF Spec, LOCK!LockSpec

(***************************************************************************)
(* While one login looks for the process, or starts it, or the server that *)
(* stops terminates it, all others that are inside read_lock() wait to     *)
(* write: the look at a process and the start of one cannot come apart.    *)
(***************************************************************************)
THEOREM LoginsWriteAlone == Spec => []LOCK!WritesAlone
<1>1. LockInv => LOCK!WritesAlone
  BY DEF LockInv
<1> QED
  BY <1>1, UsesLock, LockInvHolds, PTL

(***************************************************************************)
(* _want_write is the number of tasks that wait to write, so that          *)
(* _readers = _want_write does mean that nobody reads.                     *)
(***************************************************************************)
THEOREM WantIsCountHolds == Spec => []LOCK!WantIsCount
<1>1. LockInv => LOCK!WantIsCount
  <2> SUFFICES ASSUME LockInv PROVE LOCK!WantIsCount
    OBVIOUS
  <2>1. Wants = {t \in Conns \cup {Main} : at[t] \in LOCK!Wanting}
    BY DEF Wants, LockUsers
  <2> QED
    BY <2>1 DEF LockInv, LOCK!WantIsCount, LOCK!Cardinality, Cardinality
<1> QED
  BY <1>1, UsesLock, LockInvHolds, PTL

-----------------------------------------------------------------------------
(* What is left when the front server has stopped *)

\* From when the tasks of the IMAP clients have been waited for, they are gone.
ClientsGone ==
  phase \in {"locking", "waiting", "done"} => \A c \in Conns \ Pop3 : conn[c].pc = "gone"

\* From when the process has been terminated, who lives was started by POP3.
OnlyLate == phase \in {"waiting", "done"} => Live \subseteq late

\* A connection that is gone comes back only while the front server is up.
LEMMA GoneStays ==
  ASSUME FrontInv, ClientsGone, [Next]_vars PROVE ClientsGone'
<1> USE DEF ClientsGone, FrontInv, FrontTypeOK, Is, Goto
<1>1. ASSUME NEW c \in Conns,
             \/ LogIn(c) \/ Progress(c) \/ Relay(c) \/ StopReading(c)
             \/ Dismiss(c) \/ HangUp(c) \/ Collected(c)
      PROVE  \A d \in Conns : conn[d].pc = "gone" => conn'[d].pc = "gone"
  <2>1. \A d \in Conns \ {c} : conn'[d] = conn[d]
    BY <1>1 DEF LogIn, Progress, Relay, StopReading, Dismiss, HangUp, Collected,
                InLock, GoesOn, Alive, Start, Spawn, ReadPort, StartFails, OutOfLock, HasPort,
                Connect, ConnectionRefused, EndConn, RelayBegins, RelayEnds, RelayDone
  <2>2. CASE Relay(c) \/ Dismiss(c) \/ HangUp(c) \/ Collected(c)
    <3>1. conn \in [Conns -> Conn] /\ conn[c] \in Conn
      OBVIOUS
    <3>2. CASE RelayDone(c)
      <4> DEFINE r == [conn[c] EXCEPT !.relay = "none", !.in = conn[c].in /\ c \in Pop3]
      <4>1. conn' = [conn EXCEPT ![c] = r]
        BY <3>2, Zenon DEF RelayDone
      <4>2. r.pc = conn[c].pc
        BY <3>1 DEF Conn
      <4> HIDE DEF r
      <4>3. conn'[c].pc = conn[c].pc
        BY <3>1, <4>1, <4>2
      <4> QED
        BY <2>1, <4>3
    <3>3. CASE \/ RelayBegins(c) \/ RelayEnds(c) \/ Dismiss(c) \/ HangUp(c) \/ Collected(c)
      <4>1. conn'[c].pc = conn[c].pc
        <5>1. CASE RelayBegins(c)
          BY <3>1, <5>1 DEF RelayBegins, Conn
        <5>2. CASE RelayEnds(c)
          BY <3>1, <5>2 DEF RelayEnds, Conn
        <5>3. CASE Dismiss(c)
          BY <3>1, <5>3 DEF Dismiss, Conn
        <5>4. CASE HangUp(c)
          BY <3>1, <5>4 DEF HangUp, Conn
        <5>5. CASE Collected(c)
          BY <3>1, <5>5 DEF Collected, Conn
        <5> QED
          BY <3>3, <5>1, <5>2, <5>3, <5>4, <5>5
      <4> QED
        BY <2>1, <4>1
    <3> QED
      BY <2>2, <3>2, <3>3 DEF Relay
  <2>3. CASE LogIn(c) \/ Progress(c) \/ StopReading(c)
    BY <2>1, <2>3 DEF LogIn, Progress, StopReading, InLock, GoesOn, Alive, Start, Spawn, ReadPort,
                      StartFails, OutOfLock, HasPort, Connect, ConnectionRefused, EndConn
  <2> QED
    BY <1>1, <2>2, <2>3
<1>2. ASSUME NEW c \in Conns,
             \/ LogIn(c) \/ Progress(c) \/ Relay(c) \/ StopReading(c)
             \/ Dismiss(c) \/ HangUp(c) \/ Collected(c) \/ NewClient(c)
      PROVE  ClientsGone'
  <2>1. phase' = phase
    BY <1>2 DEF LogIn, Progress, Relay, StopReading, Dismiss, HangUp, Collected, NewClient,
                InLock, GoesOn, Alive, Start, Spawn, ReadPort, StartFails, OutOfLock, HasPort,
                Connect, ConnectionRefused, EndConn, RelayBegins, RelayEnds, RelayDone
  <2>2. CASE NewClient(c)
    BY <2>1, <2>2 DEF NewClient
  <2> QED
    BY <1>1, <1>2, <2>1, <2>2
<1>3. CASE (\E p \in Ids : Serve(p) \/ Die(p)) \/ subprocess_wait \/ Stop \/ StopInLock \/ Terminate
           \/ Stopped
  <2>1. \A c \in Conns : conn'[c].pc = conn[c].pc
    <3>1. CASE (\E p \in Ids : Serve(p)) \/ subprocess_wait \/ StopInLock \/ Stopped
      BY <3>1 DEF Serve, subprocess_wait, StopInLock, Stopped
    <3>2. \A c \in Conns : conn[c] \in Conn
      OBVIOUS
    <3>3. CASE \E p \in Ids : Die(p)
      BY <3>2, <3>3 DEF Die, Conn
    <3>4. CASE Stop
      BY <3>2, <3>4 DEF Stop, Conn
    <3>5. CASE Terminate
      BY <3>2, <3>5 DEF Terminate, Conn
    <3> QED
      BY <1>3, <3>1, <3>3, <3>4, <3>5
  <2>2. phase' \in {"locking", "waiting", "done"} => phase \in {"locking", "waiting", "done"}
    BY <1>3 DEF Serve, Die, subprocess_wait, Stop, StopInLock, Terminate, Stopped
  <2> QED
    BY <2>1, <2>2
<1>4. CASE StopClients
  BY <1>4 DEF StopClients
<1>5. CASE UNCHANGED vars
  BY <1>5 DEF vars
<1> QED
  BY <1>2, <1>3, <1>4, <1>5 DEF Next, Stopping

\* No process is started after the end but by POP3, and that one is late.
LEMMA OnlyLateKept ==
  ASSUME FrontInv, ClientsGone, OnlyLate, [Next]_vars PROVE OnlyLate'
<1> USE DEF OnlyLate, Is, Goto
<1>0. procs \in [Ids -> {"none", "booting", "serving", "dead"}]
  BY DEF FrontInv, FrontTypeOK
<1>1. ASSUME NEW c \in Conns, Spawn(c) PROVE OnlyLate'
  <2>1. Newest + 1 \in Ids
    BY <1>1, FrontAssumption DEF Spawn, FrontInv, StartsInLock, OnlyTheLast, InTurn, Ids
  <2>2. Live' = Live \cup {Newest + 1} /\ phase' = phase
    BY <1>0, <1>1, <2>1 DEF Spawn, Live
  <2>3. phase \in {"waiting", "done"} => c \in Pop3
    BY <1>1 DEF Spawn, ClientsGone
  <2>4. phase \in {"waiting", "done"} => late' = late \cup {Newest + 1}
    BY <1>1, <2>3 DEF Spawn
  <2> QED
    BY <2>2, <2>4
<1>2. CASE Terminate
  <2>1. Live' = {}
    BY <1>0, <1>2 DEF Terminate, Live, FrontInv, OnlyTheLast, InTurn
  <2> QED
    BY <2>1
<1>3. ASSUME NEW p \in Ids, Serve(p) \/ Die(p) PROVE OnlyLate'
  BY <1>0, <1>3 DEF Serve, Die, Live
<1>4. ASSUME UNCHANGED <<procs, late>>,
             phase' \in {"waiting", "done"} => phase \in {"waiting", "done"}
      PROVE  OnlyLate'
  BY <1>4 DEF Live
<1>5. ASSUME NEW c \in Conns,
             \/ LogIn(c) \/ InLock(c) \/ GoesOn(c) \/ Alive(c) \/ Start(c) \/ ReadPort(c) \/ StartFails(c)
             \/ OutOfLock(c) \/ HasPort(c) \/ Connect(c) \/ ConnectionRefused(c) \/ EndConn(c) \/ Relay(c)
             \/ StopReading(c) \/ Dismiss(c) \/ HangUp(c) \/ Collected(c) \/ NewClient(c)
      PROVE  UNCHANGED <<procs, late, phase>>
  BY <1>5 DEF LogIn, InLock, GoesOn, Alive, Start, ReadPort, StartFails, OutOfLock, HasPort, Connect,
              ConnectionRefused, EndConn, Relay, RelayBegins, RelayEnds, RelayDone, StopReading,
              Dismiss, HangUp, Collected, NewClient
<1>6. CASE subprocess_wait \/ Stop \/ StopClients \/ StopInLock \/ Stopped \/ UNCHANGED vars
  BY <1>4, <1>6 DEF subprocess_wait, Stop, StopClients, StopInLock, Stopped, vars
<1> QED
  BY <1>1, <1>2, <1>3, <1>4, <1>5, <1>6 DEF Next, Progress, Stopping

(***************************************************************************)
(* When the front server has stopped it leaves no process behind, however  *)
(* logins, starts and the end of processes fell in with the stop, but for  *)
(* those that POP3 clients started after it had looked.                    *)
(***************************************************************************)
THEOREM NoOrphanHolds == Spec => []NoOrphan
<1>1. Init => ClientsGone /\ OnlyLate
  BY DEF Init, ClientsGone, OnlyLate
<1>2. FrontInv /\ ClientsGone /\ [Next]_vars => ClientsGone'
  BY GoneStays
<1>3. FrontInv /\ ClientsGone /\ OnlyLate /\ [Next]_vars => OnlyLate'
  BY OnlyLateKept
<1>4. OnlyLate => NoOrphan
  BY DEF OnlyLate, NoOrphan
<1> QED
  BY <1>1, <1>2, <1>3, <1>4, FrontInvHolds, PTL DEF Spec
=============================================================================
