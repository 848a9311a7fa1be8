----------------------------- MODULE LoginProofs -----------------------------
(***************************************************************************)
(* Proofs about Login, for any users, addresses and connections, and for a *)
(* password file that changes any number of times.                         *)
(***************************************************************************)
EXTENDS Login, FiniteSetTheorems, TLAPS

-----------------------------------------------------------------------------
(* The password file and its cache *)

\* How far a connection has come with version f of the file being the newest.
InOrder(r, f) ==
  /\ r.pc \notin {"client", "gone"} => r.user # None
  /\ r.pc \in {"mtime", "stamped", "open", "read"} => r.began \in 1..f
  /\ r.pc \in {"stamped", "open", "read"} => r.mtime \in r.began..f
  /\ r.pc = "read" => r.opened \in r.mtime..f
  /\ r.pc \in {"hash", "in"} => /\ r.seen \in 1..f /\ r.began <= r.seen
                                /\ r.user \in Listed[r.seen]

AuthInv ==
  /\ LoginTypeOK
  /\ stamp <= users /\ users <= file
  /\ \A c \in Conns : InOrder(conn[c], file)

\* A new version of the file puts nobody out of order.
LEMMA NewerFile ==
  ASSUME NEW r \in Conn, NEW f \in Nat, NEW g \in Nat, f <= g, InOrder(r, f)
  PROVE  InOrder(r, g)
BY DEF InOrder, Conn

\* A step that changes one connection keeps the invariant if that one is in order.
LEMMA OneConn ==
  ASSUME AuthInv, NEW c \in Conns, NEW r \in Conn, InOrder(r, file),
         conn' = [conn EXCEPT ![c] = r], file' = file,
         badUser' \in [Users -> Entry], badAddr' \in [Addrs -> Entry],
         users' \in 0..MaxVersion, stamp' \in 0..MaxVersion,
         stamp' <= users', users' <= file
  PROVE  AuthInv'
<1>1. conn' \in [Conns -> Conn]
  BY DEF AuthInv, LoginTypeOK
<1>2. ASSUME NEW d \in Conns PROVE InOrder(conn'[d], file')
  BY DEF AuthInv, LoginTypeOK
<1>3. \A d \in Conns : conn'[d].pc \notin {"client", "gone"} => conn'[d].user # None
  BY <1>2 DEF InOrder
<1> QED
  BY <1>1, <1>2, <1>3 DEF AuthInv, LoginTypeOK

LEMMA NewConnSound == NewConn \in Conn /\ \A f : InOrder(NewConn, f)
BY LoginAssumption DEF NewConn, Conn, Waiting, InOrder

\* The counters stay counters.
LEMMA CountersTyped ==
  ASSUME LoginTypeOK, NEW c \in Conns, NEW u \in Users, Purge(c, u) \/ login_failed(c, u)
  PROVE  badUser' \in [Users -> Entry] /\ badAddr' \in [Addrs -> Entry]
<1>1. AddrOf[c] \in Addrs
  BY LoginAssumption
<1>2. \A e \in Entry : Purged(e) \in Entry /\ OneMore(e) \in Entry
  BY DEF Entry, Purged, Clear, OneMore
<1> QED
  BY <1>1, <1>2 DEF LoginTypeOK, Purge, login_failed

\* Who is refused begins again, with the same cache or one that was just read.
LEMMA RefusedSound ==
  ASSUME AuthInv, NEW c \in Conns, conn[c].user # None, Refused(c), file' = file,
         users' \in 0..MaxVersion, stamp' \in 0..MaxVersion,
         stamp' <= users', users' <= file
  PROVE  AuthInv'
<1> DEFINE r == IF c \in Pop3 THEN [NewConn EXCEPT !.user = conn[c].user] ELSE NewConn
<1>1. conn[c] \in Conn /\ conn[c].user \in Users
  BY DEF AuthInv, LoginTypeOK, Conn
<1>2. badUser' \in [Users -> Entry] /\ badAddr' \in [Addrs -> Entry]
  BY <1>1, CountersTyped DEF Refused, AuthInv
<1>3. r \in Conn /\ InOrder(r, file)
  BY <1>1, LoginAssumption DEF NewConn, Conn, Waiting, InOrder
<1>4. conn' = [conn EXCEPT ![c] = r]
  BY DEF Refused
<1> HIDE DEF r
<1> QED
  BY <1>2, <1>3, <1>4, OneConn

\* A connection that goes on to the next point of waiting is still one.
LEMMA ConnGoesOn ==
  ASSUME NEW r \in Conn, NEW v \in 0..MaxVersion
  PROVE  /\ [r EXCEPT !.mtime = v, !.pc = "stamped"] \in Conn
         /\ [r EXCEPT !.opened = v, !.pc = "read"] \in Conn
         /\ [r EXCEPT !.pc = "hash", !.seen = v, !.mtime = 0, !.opened = 0] \in Conn
<1>1. {"stamped", "read", "hash"} \subseteq Waiting \cup {"in", "gone"}
  BY DEF Waiting
<1>2. 0 \in 0..MaxVersion
  BY LoginAssumption
<1>3. [r EXCEPT !.mtime = v, !.pc = "stamped"] \in Conn
  BY <1>1 DEF Conn
<1>4. [r EXCEPT !.opened = v, !.pc = "read"] \in Conn
  BY <1>1 DEF Conn
<1>5. [r EXCEPT !.pc = "hash", !.seen = v, !.mtime = 0, !.opened = 0] \in Conn
  BY <1>1, <1>2 DEF Conn
<1> QED
  BY <1>3, <1>4, <1>5

\* The user is looked up in a version that is not older than the attempt.
LEMMA LookUpSound ==
  ASSUME AuthInv, NEW c \in Conns, NEW v \in conn[c].began..file, LookUp(c, v),
         conn[c].pc \in {"stamped", "read"}, file' = file,
         users' \in 0..MaxVersion, stamp' \in 0..MaxVersion,
         stamp' <= users', users' <= file
  PROVE  AuthInv'
<1>1. /\ conn[c] \in Conn /\ conn[c].user # None /\ conn[c].began \in 1..file
      /\ file \in Version
  BY DEF AuthInv, LoginTypeOK, InOrder
<1>2. CASE Refused(c)
  BY <1>1, <1>2, RefusedSound
<1>3. CASE ~ Refused(c)
  <2> DEFINE r == [conn[c] EXCEPT !.pc = "hash", !.seen = v, !.mtime = 0, !.opened = 0]
  <2>1. conn' = [conn EXCEPT ![c] = r] /\ conn[c].user \in Listed[v]
    BY <1>3 DEF LookUp, AuthInv, LoginTypeOK
  <2>2. v \in 1..MaxVersion /\ v \in 0..MaxVersion
    BY <1>1, LoginAssumption DEF Version
  <2>3. r \in Conn
    BY <1>1, <2>2, ConnGoesOn, Zenon
  <2>5. r.pc = "hash" /\ r.seen = v /\ r.user = conn[c].user /\ r.began = conn[c].began
    BY <1>1 DEF Conn
  <2>4. badUser' \in [Users -> Entry] /\ badAddr' \in [Addrs -> Entry]
    BY <1>3 DEF LookUp, AuthInv, LoginTypeOK
  <2> HIDE DEF r
  <2>6. InOrder(r, file)
    BY <1>1, <2>1, <2>2, <2>5 DEF InOrder, Conn
  <2> QED
    BY <2>1, <2>3, <2>4, <2>6, OneConn
<1> QED
  BY <1>2, <1>3

LEMMA AuthenticatingSound ==
  ASSUME AuthInv, NEW c \in Conns, Authenticating(c)
  PROVE  AuthInv'
<1> USE LoginAssumption DEF Version
<1>1. /\ conn[c] \in Conn /\ InOrder(conn[c], file) /\ conn \in [Conns -> Conn]
      /\ badUser \in [Users -> Entry] /\ badAddr \in [Addrs -> Entry]
      /\ file \in 1..MaxVersion /\ users \in 0..MaxVersion /\ stamp \in 0..MaxVersion
      /\ stamp <= users /\ users <= file
  BY DEF AuthInv, LoginTypeOK
<1>0. file \in 0..MaxVersion
  BY <1>1
<1>2. CASE EndDelay(c)
  BY <1>1, <1>2, NewConnSound, OneConn DEF EndDelay
<1>3. CASE StatFile(c)
  <2> DEFINE r == [conn[c] EXCEPT !.mtime = file, !.pc = "stamped"]
  <2>1. conn' = [conn EXCEPT ![c] = r]
    BY <1>1, <1>3 DEF StatFile
  <2>2. r \in Conn
    BY <1>1, <1>0, ConnGoesOn, Zenon
  <2>3. r.pc = "stamped" /\ r.mtime = file /\ r.user = conn[c].user /\ r.began = conn[c].began
    BY <1>1 DEF Conn
  <2> HIDE DEF r
  <2>4. InOrder(r, file)
    BY <1>1, <1>3, <2>3 DEF StatFile, InOrder, Conn
  <2> QED
    BY <1>1, <1>3, <2>1, <2>2, <2>4, OneConn DEF StatFile
<1>4. CASE UseCache(c)
  <2>1. users \in conn[c].began..file
    BY <1>1, <1>4 DEF UseCache, InOrder, Conn
  <2> QED
    BY <1>1, <1>4, <2>1, LookUpSound DEF UseCache
<1>5. CASE NeedsFile(c)
  <2> DEFINE r == [conn[c] EXCEPT !.pc = "open"]
  <2>1. conn' = [conn EXCEPT ![c] = r]
    BY <1>1, <1>5 DEF NeedsFile
  <2>2. r \in Conn /\ InOrder(r, file)
    BY <1>1, <1>5 DEF NeedsFile, Conn, Waiting, InOrder
  <2> HIDE DEF r
  <2> QED
    BY <1>1, <1>5, <2>1, <2>2, OneConn DEF NeedsFile
<1>6. CASE OpenFile(c)
  <2> DEFINE r == [conn[c] EXCEPT !.opened = file, !.pc = "read"]
  <2>1. conn' = [conn EXCEPT ![c] = r]
    BY <1>1, <1>6 DEF OpenFile
  <2>2. r \in Conn
    BY <1>1, <1>0, ConnGoesOn, Zenon
  <2>3. /\ r.pc = "read" /\ r.opened = file /\ r.mtime = conn[c].mtime
        /\ r.user = conn[c].user /\ r.began = conn[c].began
    BY <1>1 DEF Conn
  <2> HIDE DEF r
  <2>4. InOrder(r, file)
    BY <1>1, <1>6, <2>3 DEF OpenFile, InOrder, Conn
  <2> QED
    BY <1>1, <1>6, <2>1, <2>2, <2>4, OneConn DEF OpenFile
<1>7. CASE ReadFile(c)
  <2>1. conn[c].mtime \in conn[c].began..file /\ conn[c].opened \in conn[c].mtime..file
    BY <1>1, <1>7 DEF ReadFile, InOrder
  <2>2. conn[c].opened \in conn[c].began..file
    BY <1>1, <2>1 DEF Conn
  <2> QED
    BY <1>1, <1>7, <2>1, <2>2, LookUpSound DEF ReadFile, Conn
<1>8. CASE Accept(c)
  <2> DEFINE r == [conn[c] EXCEPT !.pc = "in"]
  <2>1. conn' = [conn EXCEPT ![c] = r]
    BY <1>1, <1>8 DEF Accept
  <2>2. r \in Conn /\ InOrder(r, file)
    BY <1>1, <1>8 DEF Accept, Conn, Waiting, InOrder
  <2> HIDE DEF r
  <2> QED
    BY <1>1, <1>8, <2>1, <2>2, OneConn DEF Accept
<1>9. CASE Refuse(c)
  <2>1. conn[c].user # None
    BY <1>1, <1>9 DEF Refuse, InOrder
  <2> QED
    BY <1>1, <1>9, <2>1, RefusedSound DEF Refuse
<1>10. CASE FileFails(c)
  <2> DEFINE r == [NewConn EXCEPT !.pc = "gone"]
  <2>1. r \in Conn /\ InOrder(r, file)
    BY DEF NewConn, Conn, Waiting, InOrder
  <2>2. conn' = [conn EXCEPT ![c] = r]
    BY <1>10 DEF FileFails
  <2> HIDE DEF r
  <2> QED
    BY <1>1, <1>10, <2>1, <2>2, OneConn DEF FileFails
<1> QED
  BY <1>2, <1>3, <1>4, <1>5, <1>6, <1>7, <1>8, <1>9, <1>10 DEF Authenticating

\* A new connection may be kept waiting, or try to log in.
LEMMA Delayed ==
  ASSUME NEW u \in Users
  PROVE  LET r == [NewConn EXCEPT !.pc = "delayed", !.user = u]
         IN r \in Conn /\ r.pc = "delayed" /\ r.user = u
<1>1. "delayed" \in Waiting
  BY DEF Waiting
<1>2. NewConn \in Conn
  BY NewConnSound
<1> QED
  BY <1>1, <1>2 DEF Conn

LEMMA Attempted ==
  ASSUME NEW c \in Conns, NEW u \in Users, NEW p \in Version, file \in Version
  PROVE  LET r == Attempt(c, u, p)
         IN r \in Conn /\ r.pc = "mtime" /\ r.user = u /\ r.began = file
<1>1. "mtime" \in Waiting /\ p \in 0..MaxVersion /\ file \in 0..MaxVersion
  BY DEF Waiting, Version
<1>2. NewConn \in Conn
  BY NewConnSound
<1> QED
  BY <1>1, <1>2 DEF Conn, Attempt

LEMMA CommandedSound ==
  ASSUME AuthInv, NEW c \in Conns, Commanded(c)
  PROVE  AuthInv'
<1> USE LoginAssumption DEF Version
<1>1. /\ conn[c] \in Conn /\ InOrder(conn[c], file) /\ conn \in [Conns -> Conn]
      /\ badUser \in [Users -> Entry] /\ badAddr \in [Addrs -> Entry]
      /\ file \in 1..MaxVersion /\ users \in 0..MaxVersion /\ stamp \in 0..MaxVersion
      /\ stamp <= users /\ users <= file /\ LoginTypeOK
  BY DEF AuthInv, LoginTypeOK
<1>2. CASE Name(c)
  <2>1. PICK u \in Users : conn' = [conn EXCEPT ![c].user = u]
    BY <1>2 DEF Name
  <2> DEFINE r == [conn[c] EXCEPT !.user = u]
  <2>2. conn' = [conn EXCEPT ![c] = r]
    BY <1>1, <2>1
  <2>3. r \in Conn /\ InOrder(r, file)
    BY <1>1, <1>2 DEF Name, Conn, InOrder
  <2> HIDE DEF r
  <2> QED
    BY <1>1, <1>2, <2>2, <2>3, OneConn DEF Name
<1>3. CASE LogIn(c)
  <2>1. PICK u \in Users : Denied(c, u) \/ \E p \in Version : Allowed(c, u, p)
    <3>1. conn[c].user \in Users \cup {None}
      BY <1>1 DEF Conn
    <3> QED
      BY <1>3, <3>1 DEF LogIn
  <2>2. badUser' \in [Users -> Entry] /\ badAddr' \in [Addrs -> Entry]
    BY <1>1, <2>1, CountersTyped DEF Denied, Allowed
  <2>3. CASE Denied(c, u)
    <3> DEFINE r == IF c \in Pop3 THEN [NewConn EXCEPT !.pc = "gone"]
                    ELSE [NewConn EXCEPT !.pc = "delayed", !.user = u]
    <3>1. ASSUME c \in Pop3 PROVE r \in Conn /\ InOrder(r, file)
      <4>1. r = [NewConn EXCEPT !.pc = "gone"]
        BY <3>1
      <4> QED
        BY <4>1 DEF NewConn, Conn, Waiting, InOrder
    <3>2. ASSUME c \notin Pop3 PROVE r \in Conn /\ InOrder(r, file)
      <4>1. r = [NewConn EXCEPT !.pc = "delayed", !.user = u]
        BY <3>2
      <4>2. r \in Conn /\ r.pc = "delayed" /\ r.user = u
        BY <4>1, Delayed, Zenon
      <4>3. u # None
        OBVIOUS
      <4> QED
        BY <4>2, <4>3 DEF InOrder
    <3>3. conn' = [conn EXCEPT ![c] = r]
      BY <2>3 DEF Denied
    <3>4. r \in Conn /\ InOrder(r, file)
      BY <3>1, <3>2
    <3> HIDE DEF r
    <3> QED
      BY <1>1, <2>2, <2>3, <3>3, <3>4, OneConn DEF Denied
  <2>4. ASSUME NEW p \in Version, Allowed(c, u, p) PROVE AuthInv'
    <3> DEFINE r == Attempt(c, u, p)
    <3>1. /\ r \in Conn /\ r.pc = "mtime" /\ r.user = u /\ r.began = file
          /\ u # None
      BY <1>1, Attempted
    <3>3. r \in Conn /\ InOrder(r, file)
      BY <1>1, <3>1 DEF InOrder
    <3>2. conn' = [conn EXCEPT ![c] = r]
      BY <2>4 DEF Allowed
    <3> HIDE DEF r
    <3> QED
      BY <1>1, <2>2, <2>4, <3>2, <3>3, OneConn DEF Allowed
  <2> QED
    BY <2>1, <2>3, <2>4
<1>4. CASE Leave(c)
  <2> DEFINE r == [NewConn EXCEPT !.pc = "gone"]
  <2>1. r \in Conn /\ InOrder(r, file)
    BY DEF NewConn, Conn, Waiting, InOrder
  <2>2. conn' = [conn EXCEPT ![c] = r]
    BY <1>4 DEF Leave
  <2> HIDE DEF r
  <2> QED
    BY <1>1, <1>4, <2>1, <2>2, OneConn DEF Leave
<1>5. CASE Connect(c)
  BY <1>1, <1>5, NewConnSound, OneConn DEF Connect
<1> QED
  BY <1>2, <1>3, <1>4, <1>5 DEF Commanded

LEMMA AuthStep == AuthInv /\ [Next]_vars => AuthInv'
<1> SUFFICES ASSUME AuthInv, [Next]_vars PROVE AuthInv'
  OBVIOUS
<1> USE LoginAssumption DEF Version
<1>1. ASSUME NEW u \in Users, AgeUser(u) PROVE AuthInv'
  BY <1>1 DEF AgeUser, AuthInv, LoginTypeOK, Entry
<1>2. ASSUME NEW a \in Addrs, AgeAddr(a) PROVE AuthInv'
  BY <1>2 DEF AgeAddr, AuthInv, LoginTypeOK, Entry
<1>3. CASE write_pwfile
  <2>1. file' \in 1..MaxVersion /\ file <= file' /\ file \in Nat /\ file' \in Nat
    BY <1>3 DEF write_pwfile, AuthInv, LoginTypeOK
  <2>2. \A c \in Conns : InOrder(conn[c], file')
    BY <2>1, NewerFile DEF AuthInv, LoginTypeOK
  <2> QED
    BY <1>3, <2>1, <2>2 DEF write_pwfile, AuthInv, LoginTypeOK
<1>4. CASE UNCHANGED vars
  BY <1>4 DEF vars, AuthInv, LoginTypeOK
<1> QED
  BY <1>1, <1>2, <1>3, <1>4, AuthenticatingSound, CommandedSound DEF Next

LEMMA AuthInit == Init => AuthInv
<1> SUFFICES ASSUME Init PROVE AuthInv
  OBVIOUS
<1>1. NewConn \in Conn /\ InOrder(NewConn, file)
  BY NewConnSound
<1> QED
  BY <1>1, LoginAssumption DEF Init, AuthInv, LoginTypeOK, Entry, Clear, Version, NewConn

(***************************************************************************)
(* Type correctness of the login: who is past USER has a name, and the     *)
(* cache is of a version that the file has had.                            *)
(***************************************************************************)
THEOREM LoginTyped == Spec => []LoginTypeOK
<1>1. AuthInv => LoginTypeOK
  BY DEF AuthInv
<1> QED
  BY <1>1, AuthInit, AuthStep, PTL DEF Spec

(***************************************************************************)
(* However many logins read the password file at once, USERS is never      *)
(* older than PW_FILE_LAST_TIMESTAMP says.                                 *)
(***************************************************************************)
THEOREM CacheNotAheadHolds == Spec => []CacheNotAhead
<1>1. AuthInv => CacheNotAhead
  BY DEF AuthInv, CacheNotAhead
<1> QED
  BY <1>1, AuthInit, AuthStep, PTL DEF Spec

(***************************************************************************)
(* Nobody is let in by a password or a name that the file no longer had    *)
(* when the attempt began.                                                 *)
(***************************************************************************)
THEOREM CheckedByFileHolds == Spec => []CheckedByFile
<1>1. AuthInv => CheckedByFile
  BY DEF AuthInv, CheckedByFile, InOrder, LoginTypeOK, Conn
<1> QED
  BY <1>1, AuthInit, AuthStep, PTL DEF Spec

-----------------------------------------------------------------------------
(* The failures of a period *)

LEMMA InFlightFinite ==
  ASSUME NEW u
  PROVE  /\ IsFiniteSet(InFlight(u)) /\ Cardinality(InFlight(u)) \in Nat
         /\ Cardinality(Conns) \in Nat /\ Cardinality(InFlight(u)) <= Cardinality(Conns)
<1>1. InFlight(u) \subseteq Conns
  BY DEF InFlight
<1> QED
  BY <1>1, LoginAssumption, FS_Subset, FS_CardinalityType

\* What neither adds a failure nor an attempt keeps the bound.
LEMMA QuietStep ==
  ASSUME LoginTypeOK, LoginTypeOK', FailuresBounded,
         \A u \in Users : badUser'[u].n <= badUser[u].n /\ InFlight(u)' \subseteq InFlight(u)
  PROVE  FailuresBounded'
<1> SUFFICES ASSUME NEW u \in Users
             PROVE  badUser'[u].n + Cardinality(InFlight(u)') <= MaxUserAttempts + Cardinality(Conns)
  BY DEF FailuresBounded
<1>1. badUser[u].n \in Nat /\ badUser'[u].n \in Nat
  BY DEF LoginTypeOK, Entry
<1>2. IsFiniteSet(InFlight(u)) /\ Cardinality(InFlight(u)) \in Nat /\ Cardinality(Conns) \in Nat
  BY InFlightFinite
<1>3. /\ Cardinality(InFlight(u)') <= Cardinality(InFlight(u))
      /\ Cardinality(InFlight(u)') \in Nat
  BY <1>2, FS_Subset, FS_CardinalityType
<1>4. badUser[u].n + Cardinality(InFlight(u)) <= MaxUserAttempts + Cardinality(Conns)
  BY DEF FailuresBounded
<1> QED
  BY <1>1, <1>2, <1>3, <1>4, LoginAssumption

\* A failure is counted when its attempt ends.
LEMMA RefusedStep ==
  ASSUME LoginTypeOK, LoginTypeOK', FailuresBounded, NEW c \in Conns, Refused(c),
         conn[c].pc \in {"stamped", "read", "hash"}
  PROVE  FailuresBounded'
<1> SUFFICES ASSUME NEW u \in Users
             PROVE  badUser'[u].n + Cardinality(InFlight(u)') <= MaxUserAttempts + Cardinality(Conns)
  BY DEF FailuresBounded
<1>1. badUser[u].n \in Nat /\ badUser'[u].n \in Nat
  BY DEF LoginTypeOK, Entry
<1>2. IsFiniteSet(InFlight(u)) /\ Cardinality(InFlight(u)) \in Nat /\ Cardinality(Conns) \in Nat
  BY InFlightFinite
<1>3. badUser[u].n + Cardinality(InFlight(u)) <= MaxUserAttempts + Cardinality(Conns)
  BY DEF FailuresBounded
<1>4. conn'[c].pc = "client" /\ \A d \in Conns \ {c} : conn'[d] = conn[d]
  BY DEF Refused, LoginTypeOK, NewConn
<1>5. InFlight(u)' = InFlight(u) \ {c}
  BY <1>4 DEF InFlight
<1>6. CASE conn[c].user = u
  <2>1. badUser'[u].n = badUser[u].n + 1
    BY <1>6 DEF Refused, login_failed, OneMore, LoginTypeOK
  <2>2. c \in InFlight(u)
    BY <1>6 DEF InFlight, Waiting
  <2>3. Cardinality(InFlight(u)') = Cardinality(InFlight(u)) - 1
    BY <1>2, <1>5, <2>2, FS_RemoveElement
  <2> QED
    BY <1>1, <1>2, <1>3, <2>1, <2>3, LoginAssumption
<1>7. CASE conn[c].user # u
  <2>1. badUser'[u].n = badUser[u].n
    BY <1>7 DEF Refused, login_failed, LoginTypeOK
  <2>2. InFlight(u)' = InFlight(u)
    BY <1>5, <1>7 DEF InFlight
  <2> QED
    BY <1>3, <2>1, <2>2
<1> QED
  BY <1>6, <1>7

\* An attempt begins only while the failures are within the maximum.
LEMMA AllowedStep ==
  ASSUME LoginTypeOK, LoginTypeOK', FailuresBounded, NEW c \in Conns, NEW v \in Users, NEW p,
         conn[c].pc = "client", Allowed(c, v, p)
  PROVE  FailuresBounded'
<1> SUFFICES ASSUME NEW u \in Users
             PROVE  badUser'[u].n + Cardinality(InFlight(u)') <= MaxUserAttempts + Cardinality(Conns)
  BY DEF FailuresBounded
<1>1. badUser[u].n \in Nat /\ badUser'[u].n \in Nat
  BY DEF LoginTypeOK, Entry
<1>2. /\ Cardinality(InFlight(u)) \in Nat /\ Cardinality(Conns) \in Nat
      /\ badUser[u].n + Cardinality(InFlight(u)) <= MaxUserAttempts + Cardinality(Conns)
  BY InFlightFinite DEF FailuresBounded
<1>3. conn'[c].user = v /\ \A d \in Conns \ {c} : conn'[d] = conn[d]
  BY DEF Allowed, Attempt, LoginTypeOK, NewConn
<1>4. CASE u = v
  <2>1. badUser'[u].n <= MaxUserAttempts
    <3>1. badUser'[u] = Purged(badUser[u])
      BY <1>4 DEF Allowed, Purge, LoginTypeOK
    <3>2. ~ (Purged(badUser[u]).n > MaxUserAttempts)
      BY <1>4 DEF Allowed, Exceeded
    <3> QED
      BY <1>1, <3>1, <3>2, LoginAssumption
  <2>2. InFlight(u)' \subseteq Conns
    BY DEF InFlight
  <2>3. Cardinality(InFlight(u)') <= Cardinality(Conns) /\ Cardinality(InFlight(u)') \in Nat
    BY <2>2, LoginAssumption, FS_Subset, FS_CardinalityType
  <2> QED
    BY <1>1, <1>2, <2>1, <2>3, LoginAssumption
<1>5. CASE u # v
  <2>1. badUser'[u].n = badUser[u].n
    BY <1>5 DEF Allowed, Purge, LoginTypeOK
  <2>2. InFlight(u)' = InFlight(u)
    BY <1>3, <1>5 DEF InFlight
  <2> QED
    BY <1>2, <2>1, <2>2
<1> QED
  BY <1>4, <1>5

\* A step that touches one connection adds no attempt of any other.
LEMMA StillInFlight ==
  ASSUME LoginTypeOK, NEW c \in Conns, \A d \in Conns \ {c} : conn'[d] = conn[d],
         \/ conn'[c].pc \in {"client", "delayed", "gone", "in"}
         \/ /\ conn'[c].user = conn[c].user
            /\ conn[c].pc \in Waiting \ {"client", "delayed"}
  PROVE  \A u \in Users : InFlight(u)' \subseteq InFlight(u)
BY DEF InFlight, Waiting

LEMMA BoundStep ==
  ASSUME LoginTypeOK, LoginTypeOK', FailuresBounded, [Next]_vars
  PROVE  FailuresBounded'
<1>1. CASE UNCHANGED vars
  BY <1>1, QuietStep DEF vars, InFlight, LoginTypeOK, Entry
<1>2. ASSUME NEW u \in Users, AgeUser(u) PROVE FailuresBounded'
  <2>1. \A v \in Users : badUser'[v].n = badUser[v].n
    BY <1>2 DEF AgeUser, LoginTypeOK, Entry
  <2>2. \A v \in Users : InFlight(v)' = InFlight(v)
    BY <1>2 DEF AgeUser, InFlight
  <2> QED
    BY <2>1, <2>2, QuietStep DEF LoginTypeOK, Entry
<1>3. CASE write_pwfile \/ \E a \in Addrs : AgeAddr(a)
  BY <1>3, QuietStep DEF write_pwfile, AgeAddr, InFlight, LoginTypeOK, Entry
<1>4. ASSUME NEW c \in Conns, Authenticating(c) \/ Commanded(c)
      PROVE  FailuresBounded'
  <2> USE DEF LoginTypeOK
  <2>1. conn[c] \in Conn /\ conn \in [Conns -> Conn] /\ conn'[c] \in Conn
    OBVIOUS
  <2>2. CASE Refused(c) /\ conn[c].pc \in {"stamped", "read", "hash"}
    BY <2>2, RefusedStep
  <2>3. ASSUME NEW u \in Users, NEW p, conn[c].pc = "client", Allowed(c, u, p)
        PROVE  FailuresBounded'
    BY <2>3, AllowedStep
  <2>12. ASSUME NEW r, conn' = [conn EXCEPT ![c] = r]
         PROVE  conn'[c] = r /\ \A d \in Conns \ {c} : conn'[d] = conn[d]
    BY <2>1, <2>12
  <2>4. CASE EndDelay(c) \/ FileFails(c) \/ Leave(c) \/ Connect(c)
    <3>1. PICK r : r \in {NewConn, [NewConn EXCEPT !.pc = "gone"]} /\ conn' = [conn EXCEPT ![c] = r]
      BY <2>4 DEF EndDelay, FileFails, Leave, Connect
    <3>2. r.pc \in {"client", "gone"}
      BY <3>1 DEF NewConn
    <3>3. badUser' = badUser
      BY <2>4 DEF EndDelay, FileFails, Leave, Connect
    <3>4. \A u \in Users : InFlight(u)' \subseteq InFlight(u)
      BY <2>12, <3>1, <3>2, StillInFlight
    <3> QED
      BY <3>3, <3>4, QuietStep DEF Entry
  <2>5. CASE StatFile(c) \/ NeedsFile(c) \/ OpenFile(c) \/ Accept(c)
    <3>1. badUser' = badUser /\ conn[c].pc \in Waiting \ {"client", "delayed"}
      BY <2>5 DEF StatFile, NeedsFile, OpenFile, Accept, Waiting
    <3>2. PICK r : conn' = [conn EXCEPT ![c] = r] /\ r.user = conn[c].user
      <4>1. \E r : /\ conn' = [conn EXCEPT ![c] = r]
                   /\ \/ r = [conn[c] EXCEPT !.mtime = file, !.pc = "stamped"]
                      \/ r = [conn[c] EXCEPT !.pc = "open"]
                      \/ r = [conn[c] EXCEPT !.opened = file, !.pc = "read"]
                      \/ r = [conn[c] EXCEPT !.pc = "in"]
        BY <2>1, <2>5 DEF StatFile, NeedsFile, OpenFile, Accept
      <4>2. /\ [conn[c] EXCEPT !.mtime = file, !.pc = "stamped"].user = conn[c].user
            /\ [conn[c] EXCEPT !.pc = "open"].user = conn[c].user
            /\ [conn[c] EXCEPT !.opened = file, !.pc = "read"].user = conn[c].user
            /\ [conn[c] EXCEPT !.pc = "in"].user = conn[c].user
        BY <2>1 DEF Conn
      <4> QED
        BY <4>1, <4>2, Zenon
    <3>3. \A u \in Users : InFlight(u)' \subseteq InFlight(u)
      BY <2>12, <3>1, <3>2, StillInFlight
    <3> QED
      BY <3>1, <3>3, QuietStep DEF Entry
  <2>6. ASSUME NEW v, LookUp(c, v), ~ Refused(c), conn[c].pc \in {"stamped", "read"}
        PROVE  FailuresBounded'
    <3>1. badUser' = badUser /\ conn[c].pc \in Waiting \ {"client", "delayed"}
      BY <2>6 DEF LookUp, Waiting
    <3>2. PICK r : conn' = [conn EXCEPT ![c] = r] /\ r.user = conn[c].user
      BY <2>1, <2>6 DEF LookUp, Conn
    <3>3. \A u \in Users : InFlight(u)' \subseteq InFlight(u)
      BY <2>12, <3>1, <3>2, StillInFlight
    <3> QED
      BY <3>1, <3>3, QuietStep DEF Entry
  <2>7. CASE Name(c)
    <3>1. badUser' = badUser
      BY <2>7 DEF Name
    <3>2. PICK r : conn' = [conn EXCEPT ![c] = r] /\ r.pc = "client"
      <4>1. PICK u \in Users : conn' = [conn EXCEPT ![c].user = u]
        BY <2>7 DEF Name
      <4>2. conn' = [conn EXCEPT ![c] = [conn[c] EXCEPT !.user = u]]
        BY <2>1, <4>1
      <4>3. [conn[c] EXCEPT !.user = u].pc = "client"
        BY <2>1, <2>7 DEF Name, Conn
      <4> QED
        BY <4>2, <4>3
    <3>3. \A u \in Users : InFlight(u)' \subseteq InFlight(u)
      BY <2>12, <3>2, StillInFlight
    <3> QED
      BY <3>1, <3>3, QuietStep DEF Entry
  <2>8. ASSUME NEW u \in Users, Denied(c, u) PROVE FailuresBounded'
    <3>1. \A v \in Users : badUser'[v].n <= badUser[v].n
      BY <2>8 DEF Denied, Purge, Purged, Clear, Entry
    <3>2. PICK r : conn' = [conn EXCEPT ![c] = r] /\ r.pc \in {"gone", "delayed"}
      <4> DEFINE s == IF c \in Pop3 THEN [NewConn EXCEPT !.pc = "gone"]
                      ELSE [NewConn EXCEPT !.pc = "delayed", !.user = u]
      <4>1. conn' = [conn EXCEPT ![c] = s]
        BY <2>8 DEF Denied
      <4>2. s.pc \in {"gone", "delayed"}
        BY DEF NewConn
      <4> QED
        BY <4>1, <4>2
    <3>3. \A v \in Users : InFlight(v)' \subseteq InFlight(v)
      BY <2>12, <3>2, StillInFlight
    <3> QED
      BY <3>1, <3>3, QuietStep
  <2>9. CASE UseCache(c) \/ ReadFile(c)
    BY <2>2, <2>6, <2>9 DEF UseCache, ReadFile
  <2>10. CASE Refuse(c)
    BY <2>2, <2>10 DEF Refuse
  <2>11. CASE LogIn(c)
    <3>1. conn[c].user \in Users \cup {None} /\ conn[c].pc = "client"
      BY <2>1, <2>11 DEF LogIn, Conn
    <3> QED
      BY <2>3, <2>8, <2>11, <3>1 DEF LogIn
  <2> QED
    BY <1>4, <2>4, <2>5, <2>7, <2>9, <2>10, <2>11 DEF Authenticating, Commanded
<1> QED
  BY <1>1, <1>2, <1>3, <1>4 DEF Next

(***************************************************************************)
(* Throttling holds for any number of connections: the failures of a user  *)
(* in one period exceed the maximum at most by the connections there are.  *)
(***************************************************************************)
THEOREM FailuresBoundedHolds == Spec => []FailuresBounded
<1>1. Init => FailuresBounded
  <2> SUFFICES ASSUME Init, NEW u \in Users
               PROVE  badUser[u].n + Cardinality(InFlight(u)) <= MaxUserAttempts + Cardinality(Conns)
    BY DEF FailuresBounded
  <2>1. badUser[u].n = 0
    BY DEF Init, Clear
  <2> QED
    BY <2>1, InFlightFinite, LoginAssumption
<1>2. AuthInv => LoginTypeOK
  BY DEF AuthInv
<1>3. LoginTypeOK /\ LoginTypeOK' /\ FailuresBounded /\ [Next]_vars => FailuresBounded'
  BY BoundStep
<1> QED
  BY <1>1, <1>2, <1>3, AuthInit, AuthStep, PTL DEF Spec
=============================================================================
